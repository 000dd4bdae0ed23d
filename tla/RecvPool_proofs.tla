--------------------------- MODULE RecvPool_proofs ---------------------------
(***************************************************************************)
(* What holds of RecvPool for every number of workers, descriptors,         *)
(* connections and messages, and for every interleaving with the threads    *)
(* that tear connections down.                                              *)
(***************************************************************************)
EXTENDS RecvPool, SequenceTheorems, TLAPS

\* DelFromQueuetByValue leaves a queue of descriptors.
LEMMA WithoutType ==
    ASSUME NEW S, NEW q \in Seq(S), NEW i \in 1..Len(q)
    PROVE Without(q, i) \in Seq(S)
<1>1. SubSeq(q, 1, i - 1) \in Seq(S)
  BY SubSeqProperties
<1>2. SubSeq(q, i + 1, Len(q)) \in Seq(S)
  BY SubSeqProperties
<1> QED BY <1>1, <1>2, ConcatProperties DEF Without

\* The parts of the assumption on the constants that the proofs use.
LEMMA Constants ==
    /\ MaxConns \in Nat /\ MaxPieces \in Nat /\ MsgPieces \in Nat
    /\ None \notin Fds /\ None \notin Workers /\ None \notin Bufs
    /\ Workers \subseteq Actors /\ Workers \cap Closers = {}
  BY RecvPoolAssumption DEF RecvPoolAssumption, Actors

LEMMA InitType == Init => TypeOK
  BY Constants DEF Init, TypeOK, KernelType, PoolType, WorkerType, BufType, TeardownType, HistoryType, Idle,
     Calls, Pcs, Holding, Receiving


LEMMA TypeClients ==
    ASSUME TypeOK, NEW f \in Fds, ClientSend(f) \/ ClientClose(f)
    PROVE TypeOK'
<1> USE DEF TypeOK, KernelType, PoolType, WorkerType, BufType, TeardownType,
            HistoryType, kernelVars, mainVars, poolVars, workerVars, bufVars, ghostVars
<1>1. CASE ClientSend(f)
  BY <1>1, Constants, SMTT(30) DEF ClientSend
<1>2. CASE ClientClose(f)
  BY <1>2, Constants DEF ClientClose
<1> QED BY <1>1, <1>2

LEMMA TypeMain == ASSUME TypeOK, Main PROVE TypeOK'
<1> USE Constants DEF TypeOK, KernelType, PoolType, WorkerType, BufType, TeardownType,
            HistoryType, kernelVars, mainVars, poolVars, workerVars, bufVars, ghostVars
<1>1. CASE EpollWait BY <1>1 DEF EpollWait
<1>2. CASE MainSignal BY <1>2 DEF MainSignal, Signalled
<1>3. CASE Register BY <1>3 DEF Register
<1>4. CASE InsertHeartbeatDetectItem BY <1>4 DEF InsertHeartbeatDetectItem
<1>5. CASE RefreshHeartbeat BY <1>5 DEF RefreshHeartbeat
<1>6. ASSUME NEW f \in Fds, Enqueue(f) PROVE TypeOK' BY <1>6, SMTT(30) DEF Enqueue
<1>7. ASSUME NEW f \in Fds, AcceptConn(f) PROVE TypeOK' BY <1>7 DEF AcceptConn
<1> QED BY <1>1, <1>2, <1>3, <1>4, <1>5, <1>6, <1>7 DEF Main

\* Taking a socket from the queue.
LEMMA TypeQueueing ==
    ASSUME TypeOK, NEW w \in Workers,
           \/ LockQueue(w) \/ FindEmpty(w) \/ FindNone(w) \/ CondWait(w) \/ WakeUp(w)
           \/ \E i \in 1..Len(queue) : ClaimSock(w, i)
    PROVE TypeOK'
<1> USE Constants DEF TypeOK, KernelType, PoolType, WorkerType, BufType, TeardownType, HistoryType, Pcs,
            Holding, Receiving,
            kernelVars, mainVars, poolVars, workerVars, bufVars, ghostVars
<1>1. CASE LockQueue(w) BY <1>1 DEF LockQueue
<1>2. CASE FindEmpty(w) BY <1>2 DEF FindEmpty
<1>3. CASE FindNone(w) BY <1>3 DEF FindNone
<1>4. CASE CondWait(w) BY <1>4 DEF CondWait
<1>5. CASE WakeUp(w)
  <2>1. KernelType'
    BY <1>5, Constants DEF WakeUp, TypeOK, KernelType, kernelVars
  <2>2. PoolType'
    BY <1>5 DEF WakeUp, TypeOK, PoolType, mainVars, poolVars
  <2>3. WorkerType'
    <3>1. PICK p \in {"test", "start"} : pc' = [pc EXCEPT ![w] = p]
      BY <1>5 DEF WakeUp
    <3> QED BY <1>5, <3>1 DEF WakeUp, TypeOK, WorkerType, Pcs, Holding, Receiving
  <2>4. BufType'
    BY <1>5, Constants DEF WakeUp, TypeOK, KernelType, WorkerType, BufType, workerVars,
       bufVars
  <2>5. TeardownType'
    BY <1>5, Constants DEF WakeUp, TypeOK, KernelType, WorkerType, TeardownType,
       workerVars, ghostVars
  <2>6. HistoryType'
    BY <1>5 DEF WakeUp, TypeOK, WorkerType, HistoryType, ghostVars, Holding, Receiving
  <2> QED BY <2>1, <2>2, <2>3, <2>4, <2>5, <2>6 DEF TypeOK
<1>6. ASSUME NEW i \in 1..Len(queue), ClaimSock(w, i) PROVE TypeOK'
  <2>1. queue' \in Seq(Fds)
    BY <1>6, WithoutType DEF ClaimSock
  <2>2. queue[i] \in Fds
    OBVIOUS
  <2> QED BY <1>6, <2>1, <2>2 DEF ClaimSock
<1> QED BY <1>1, <1>2, <1>3, <1>4, <1>5, <1>6

\* The memory that is still remembered holds pieces of connections.
LEMMA RememberedType ==
    ASSUME BufType
    PROVE Remembered \in [Bufs -> Seq((0..MaxConns) \X Nat)]
  BY DEF BufType, Remembered

LEMMA MeddleType ==
    ASSUME TypeOK, NEW w \in Workers, sock[w] \in Fds
    PROVE MeddleIfRobbed(w) \subseteq 0..MaxConns
<1>1. conn[sock[w]] \in 0..MaxConns /\ victims \subseteq 0..MaxConns
  BY DEF TypeOK, KernelType, HistoryType
<1> QED BY <1>1 DEF MeddleIfRobbed

\* Receiving a message.
LEMMA TypeReceiving ==
    ASSUME TypeOK, NEW w \in Workers,
           \/ Fetch(w) \/ RecvPiece(w) \/ RecvNothing(w) \/ RecvError(w)
           \/ InsertClientMsgBufToHash(w) \/ PutMessageToQueue(w) \/ RemoveMsgBuf(w)
    PROVE TypeOK'
<1>1. CASE Fetch(w)
  <2>1. KernelType'
    BY <1>1, Constants DEF Fetch, TypeOK, KernelType, WorkerType, kernelVars, Holding,
       Receiving
  <2>2. PoolType'
    BY <1>1 DEF Fetch, TypeOK, PoolType, mainVars, poolVars
  <2>3. WorkerType'
    BY <1>1, Constants DEF Fetch, TypeOK, WorkerType, workerVars, Pcs, Holding,
       Receiving
  <2>4. BufType'
    <3>1. CASE store[sock[w]] # None
      BY <1>1, <3>1 DEF Fetch, TypeOK, WorkerType, BufType, Holding, Receiving
    <3>2. CASE store[sock[w]] = None
      <4>1. PICK b \in Bufs : /\ buf' = [buf EXCEPT ![w] = b]
                             /\ isnew' = [isnew EXCEPT ![w] = TRUE]
                             /\ live' = live \cup {b}
                             /\ bytes' = [bytes EXCEPT ![b] = <<>>]
        BY <1>1, <3>2 DEF Fetch
      <4>2. store' = store /\ msgs' = msgs /\ pc' = [pc EXCEPT ![w] = "recv"]
        BY <1>1 DEF Fetch
      <4>3. bytes' \in [Bufs -> Seq((0..MaxConns) \X Nat)]
        BY <4>1 DEF TypeOK, BufType
      <4> QED BY <4>1, <4>2, <4>3 DEF TypeOK, WorkerType, BufType
    <3> QED BY <3>1, <3>2
  <2>5. TeardownType'
    BY <1>1, Constants DEF Fetch, TypeOK, KernelType, WorkerType, TeardownType,
       workerVars, ghostVars, Holding, Receiving
  <2>6. HistoryType'
    BY <1>1 DEF Fetch, TypeOK, WorkerType, HistoryType, ghostVars, Holding, Receiving
  <2> QED BY <2>1, <2>2, <2>3, <2>4, <2>5, <2>6 DEF TypeOK
<1>2. CASE RecvPiece(w)
  <2>1. KernelType'
    BY <1>2, Constants DEF RecvPiece, TypeOK, KernelType, WorkerType, kernelVars, Holding,
       Receiving
  <2>2. PoolType'
    BY <1>2 DEF RecvPiece, TypeOK, PoolType, mainVars, poolVars
  <2>3. WorkerType'
    BY <1>2, Constants DEF RecvPiece, TypeOK, WorkerType, workerVars, Pcs, Holding,
       Receiving
  <2>4. BufType'
    BY <1>2, Constants DEF RecvPiece, TypeOK, KernelType, WorkerType, BufType, workerVars,
       bufVars, Holding, Receiving
  <2>5. TeardownType'
    BY <1>2, Constants DEF RecvPiece, TypeOK, KernelType, WorkerType, TeardownType,
       workerVars, ghostVars, Holding, Receiving
  <2>6. HistoryType'
    BY <1>2, MeddleType DEF RecvPiece, TypeOK, WorkerType, HistoryType, ghostVars, Holding, Receiving
  <2> QED BY <2>1, <2>2, <2>3, <2>4, <2>5, <2>6 DEF TypeOK
<1>3. CASE RecvNothing(w)
  <2>1. KernelType'
    BY <1>3, Constants DEF RecvNothing, TypeOK, KernelType, WorkerType, kernelVars, Holding,
       Receiving
  <2>2. PoolType'
    BY <1>3 DEF RecvNothing, TypeOK, PoolType, mainVars, poolVars
  <2>3. WorkerType'
    BY <1>3, Constants DEF RecvNothing, TypeOK, WorkerType, workerVars, Pcs, Holding,
       Receiving
  <2>4. BufType'
    BY <1>3, Constants, RememberedType DEF RecvNothing, TypeOK, KernelType, WorkerType, BufType, workerVars,
       bufVars, Holding, Receiving
  <2>5. TeardownType'
    BY <1>3, Constants DEF RecvNothing, TypeOK, KernelType, WorkerType, TeardownType,
       workerVars, ghostVars, Holding, Receiving
  <2>6. HistoryType'
    BY <1>3 DEF RecvNothing, TypeOK, WorkerType, HistoryType, ghostVars, Holding, Receiving
  <2> QED BY <2>1, <2>2, <2>3, <2>4, <2>5, <2>6 DEF TypeOK
<1>4. CASE RecvError(w)
  <2>1. KernelType'
    BY <1>4, Constants DEF RecvError, Begin, Calls, TypeOK, KernelType, WorkerType, kernelVars, Holding,
       Receiving
  <2>2. PoolType'
    BY <1>4 DEF RecvError, Begin, Calls, TypeOK, PoolType, mainVars, poolVars
  <2>3. WorkerType'
    BY <1>4, Constants DEF RecvError, Begin, Calls, TypeOK, WorkerType, workerVars, Pcs, Holding,
       Receiving
  <2>4. BufType'
    BY <1>4, Constants, RememberedType DEF RecvError, Begin, Calls, TypeOK, KernelType, WorkerType, BufType, workerVars,
       bufVars, Holding, Receiving
  <2>5. TeardownType'
    BY <1>4, Constants DEF RecvError, Begin, Calls, TypeOK, KernelType, WorkerType, TeardownType,
       workerVars, ghostVars, Holding, Receiving
  <2>6. HistoryType'
    BY <1>4 DEF RecvError, TypeOK, WorkerType, HistoryType, ghostVars, Holding, Receiving
  <2> QED BY <2>1, <2>2, <2>3, <2>4, <2>5, <2>6 DEF TypeOK
<1>5. CASE InsertClientMsgBufToHash(w)
  <2>1. KernelType'
    BY <1>5, Constants DEF InsertClientMsgBufToHash, TypeOK, KernelType, WorkerType, kernelVars, Holding,
       Receiving
  <2>2. PoolType'
    BY <1>5 DEF InsertClientMsgBufToHash, TypeOK, PoolType, mainVars, poolVars
  <2>3. WorkerType'
    BY <1>5, Constants DEF InsertClientMsgBufToHash, TypeOK, WorkerType, workerVars, Pcs, Holding,
       Receiving
  <2>4. BufType'
    BY <1>5, Constants, RememberedType DEF InsertClientMsgBufToHash, TypeOK, KernelType, WorkerType, BufType, workerVars,
       bufVars, Holding, Receiving
  <2>5. TeardownType'
    BY <1>5, Constants DEF InsertClientMsgBufToHash, TypeOK, KernelType, WorkerType, TeardownType,
       workerVars, ghostVars, Holding, Receiving
  <2>6. HistoryType'
    BY <1>5, MeddleType DEF InsertClientMsgBufToHash, TypeOK, WorkerType, HistoryType, ghostVars, Holding, Receiving
  <2> QED BY <2>1, <2>2, <2>3, <2>4, <2>5, <2>6 DEF TypeOK
<1>6. CASE PutMessageToQueue(w)
  <2>1. KernelType'
    BY <1>6, Constants DEF PutMessageToQueue, TypeOK, KernelType, WorkerType, kernelVars, Holding,
       Receiving
  <2>2. PoolType'
    BY <1>6 DEF PutMessageToQueue, TypeOK, PoolType, mainVars, poolVars
  <2>3. WorkerType'
    BY <1>6, Constants DEF PutMessageToQueue, TypeOK, WorkerType, workerVars, Pcs, Holding,
       Receiving
  <2>4. BufType'
    <3>0. buf[w] \in Bufs
      BY <1>6 DEF PutMessageToQueue, TypeOK, BufType
    <3>1. msgs' \in Seq(Bufs)
      <4>1. msgs \in Seq(Bufs) /\ Append(msgs, buf[w]) \in Seq(Bufs)
        BY <3>0 DEF TypeOK, BufType
      <4>2. msgs' = Append(msgs, buf[w]) \/ msgs' = msgs
        BY <1>6 DEF PutMessageToQueue
      <4> QED BY <4>1, <4>2
    <3>2. live' \subseteq Bufs /\ bytes' \in [Bufs -> Seq((0..MaxConns) \X Nat)]
      BY <1>6, RememberedType DEF PutMessageToQueue, TypeOK, BufType
    <3> QED BY <1>6, <3>0, <3>1, <3>2 DEF PutMessageToQueue, TypeOK, WorkerType, BufType
  <2>5. TeardownType'
    BY <1>6, Constants DEF PutMessageToQueue, TypeOK, KernelType, WorkerType, TeardownType,
       workerVars, ghostVars, Holding, Receiving
  <2>6. HistoryType'
    BY <1>6 DEF PutMessageToQueue, TypeOK, WorkerType, HistoryType, ghostVars, Holding, Receiving
  <2> QED BY <2>1, <2>2, <2>3, <2>4, <2>5, <2>6 DEF TypeOK
<1>7. CASE RemoveMsgBuf(w)
  <2>1. KernelType'
    BY <1>7, Constants DEF RemoveMsgBuf, TypeOK, KernelType, WorkerType, kernelVars, Holding,
       Receiving
  <2>2. PoolType'
    BY <1>7 DEF RemoveMsgBuf, TypeOK, PoolType, mainVars, poolVars
  <2>3. WorkerType'
    BY <1>7, Constants DEF RemoveMsgBuf, TypeOK, WorkerType, workerVars, Pcs, Holding,
       Receiving
  <2>4. BufType'
    BY <1>7, Constants, RememberedType DEF RemoveMsgBuf, TypeOK, KernelType, WorkerType, BufType, workerVars,
       bufVars, Holding, Receiving
  <2>5. TeardownType'
    BY <1>7, Constants DEF RemoveMsgBuf, TypeOK, KernelType, WorkerType, TeardownType,
       workerVars, ghostVars, Holding, Receiving
  <2>6. HistoryType'
    BY <1>7, MeddleType DEF RemoveMsgBuf, TypeOK, WorkerType, HistoryType, ghostVars, Holding, Receiving
  <2> QED BY <2>1, <2>2, <2>3, <2>4, <2>5, <2>6 DEF TypeOK
<1> QED BY <1>1, <1>2, <1>3, <1>4, <1>5, <1>6, <1>7

\* Giving a socket back.
LEMMA TypeReleasing ==
    ASSUME TypeOK, NEW w \in Workers,
           \/ ChangeHeartBeatPacketTime(w) \/ Peek(w)
           \/ Release(w) \/ Requeue(w) \/ WorkerSignal(w)
    PROVE TypeOK'
<1>1. CASE ChangeHeartBeatPacketTime(w)
  <2>1. KernelType'
    BY <1>1, Constants DEF ChangeHeartBeatPacketTime, TypeOK, KernelType, WorkerType, kernelVars, Holding,
       Receiving
  <2>2. PoolType'
    BY <1>1 DEF ChangeHeartBeatPacketTime, TypeOK, PoolType, WorkerType, mainVars, poolVars,
       Holding, Receiving
  <2>3. WorkerType'
    BY <1>1, Constants DEF ChangeHeartBeatPacketTime, TypeOK, WorkerType, workerVars, Pcs, Holding,
       Receiving
  <2>4. BufType'
    BY <1>1, Constants DEF ChangeHeartBeatPacketTime, TypeOK, KernelType, WorkerType, BufType, workerVars,
       bufVars, Holding, Receiving
  <2>5. TeardownType'
    BY <1>1, Constants DEF ChangeHeartBeatPacketTime, TypeOK, KernelType, WorkerType, TeardownType,
       workerVars, ghostVars, Holding, Receiving
  <2>6. HistoryType'
    BY <1>1 DEF ChangeHeartBeatPacketTime, TypeOK, WorkerType, HistoryType, ghostVars, Holding, Receiving
  <2> QED BY <2>1, <2>2, <2>3, <2>4, <2>5, <2>6 DEF TypeOK
<1>2. CASE Peek(w)
  <2>1. KernelType'
    BY <1>2, Constants DEF Peek, Begin, Calls, TypeOK, KernelType, WorkerType, kernelVars, Holding,
       Receiving
  <2>2. PoolType'
    BY <1>2 DEF Peek, Begin, Calls, TypeOK, PoolType, mainVars, poolVars
  <2>3. WorkerType'
    BY <1>2, Constants DEF Peek, Begin, Calls, TypeOK, WorkerType, workerVars, Pcs, Holding,
       Receiving
  <2>4. BufType'
    BY <1>2, Constants DEF Peek, Begin, Calls, TypeOK, KernelType, WorkerType, BufType, workerVars,
       bufVars, Holding, Receiving
  <2>5. TeardownType'
    <3>1. /\ sock' = sock
          /\ pc[w] = "peek" /\ sock[w] \in Fds
      BY <1>2 DEF Peek, ghostVars, TypeOK, WorkerType, Holding, Receiving
    <3>2. CASE td' = td /\ pc'[w] # "teardown" /\ pc' = [pc EXCEPT ![w] = pc'[w]]
      BY <3>1, <3>2, Constants DEF TypeOK, WorkerType, TeardownType
    <3>3. CASE Begin(w, sock[w]) /\ pc' = [pc EXCEPT ![w] = "teardown"]
      BY <3>1, <3>3, Constants DEF Begin, Calls, TypeOK, KernelType, WorkerType, TeardownType
    <3> QED BY <1>2, <3>2, <3>3 DEF Peek, TypeOK, WorkerType
  <2>6. HistoryType'
    BY <1>2 DEF Peek, TypeOK, WorkerType, HistoryType, ghostVars, Holding, Receiving
  <2> QED BY <2>1, <2>2, <2>3, <2>4, <2>5, <2>6 DEF TypeOK
<1>3. CASE Release(w)
  <2>1. KernelType'
    BY <1>3, Constants DEF Release, Rob, TypeOK, KernelType, WorkerType, kernelVars, Holding,
       Receiving
  <2>2. PoolType'
    BY <1>3 DEF Release, Rob, TypeOK, PoolType, mainVars, poolVars
  <2>3. WorkerType'
    BY <1>3, Constants DEF Release, Rob, TypeOK, WorkerType, workerVars, Pcs, Holding,
       Receiving
  <2>4. BufType'
    BY <1>3, Constants DEF Release, Rob, TypeOK, KernelType, WorkerType, BufType, workerVars,
       bufVars, Holding, Receiving
  <2>5. TeardownType'
    BY <1>3, Constants DEF Release, Rob, TypeOK, KernelType, WorkerType, TeardownType,
       workerVars, ghostVars, Holding, Receiving
  <2>6. HistoryType'
    BY <1>3 DEF Release, Rob, TypeOK, WorkerType, HistoryType, ghostVars, Holding, Receiving
  <2> QED BY <2>1, <2>2, <2>3, <2>4, <2>5, <2>6 DEF TypeOK
<1>4. CASE Requeue(w)
  <2>1. KernelType'
    BY <1>4, Constants DEF Requeue, TypeOK, KernelType, WorkerType, kernelVars, Holding,
       Receiving
  <2>2. PoolType'
    BY <1>4 DEF Requeue, TypeOK, PoolType, WorkerType, mainVars, poolVars
  <2>3. WorkerType'
    BY <1>4, Constants DEF Requeue, TypeOK, WorkerType, workerVars, Pcs, Holding,
       Receiving
  <2>4. BufType'
    BY <1>4, Constants DEF Requeue, TypeOK, KernelType, WorkerType, BufType, workerVars,
       bufVars, Holding, Receiving
  <2>5. TeardownType'
    BY <1>4, Constants DEF Requeue, TypeOK, KernelType, WorkerType, TeardownType,
       workerVars, ghostVars, Holding, Receiving
  <2>6. HistoryType'
    BY <1>4 DEF Requeue, TypeOK, WorkerType, HistoryType, ghostVars, Holding, Receiving
  <2> QED BY <2>1, <2>2, <2>3, <2>4, <2>5, <2>6 DEF TypeOK
<1>5. CASE WorkerSignal(w)
  <2>1. KernelType'
    BY <1>5, Constants DEF WorkerSignal, Signalled, TypeOK, KernelType, WorkerType, kernelVars, Holding,
       Receiving
  <2>2. PoolType'
    BY <1>5 DEF WorkerSignal, Signalled, TypeOK, PoolType, mainVars, poolVars
  <2>3. WorkerType'
    BY <1>5, Constants DEF WorkerSignal, Signalled, TypeOK, WorkerType, workerVars, Pcs, Holding,
       Receiving
  <2>4. BufType'
    BY <1>5, Constants DEF WorkerSignal, Signalled, TypeOK, KernelType, WorkerType, BufType, workerVars,
       bufVars, Holding, Receiving
  <2>5. TeardownType'
    BY <1>5, Constants DEF WorkerSignal, Signalled, TypeOK, KernelType, WorkerType, TeardownType,
       workerVars, ghostVars, Holding, Receiving
  <2>6. HistoryType'
    BY <1>5 DEF WorkerSignal, TypeOK, WorkerType, HistoryType, ghostVars, Holding, Receiving
  <2> QED BY <2>1, <2>2, <2>3, <2>4, <2>5, <2>6 DEF TypeOK
<1> QED BY <1>1, <1>2, <1>3, <1>4, <1>5

\* Starting a teardown.
LEMMA TypeClosing ==
    ASSUME TypeOK, NEW k \in Closers, NEW f \in Fds,
           Expire(k, f) \/ SendFailed(k, f) \/ TimeoutSendFailed(k, f)
    PROVE TypeOK'
<1> USE Constants DEF TypeOK, KernelType, PoolType, WorkerType, BufType, TeardownType, HistoryType, Pcs,
            Holding, Receiving,
            kernelVars, mainVars, poolVars, workerVars, bufVars, ghostVars
<1>1. k \in Actors /\ k \notin Workers BY DEF Actors
<1>2. CASE Expire(k, f) BY <1>1, <1>2 DEF Expire, Begin, Calls
<1>3. CASE SendFailed(k, f) BY <1>1, <1>3 DEF SendFailed, Begin, Calls
<1>4. CASE TimeoutSendFailed(k, f) BY <1>1, <1>4 DEF TimeoutSendFailed, Begin, Calls
<1> QED BY <1>2, <1>3, <1>4

\* The last call of a script ends the teardown; a worker then starts again.
LEMMA AdvanceType ==
    ASSUME TypeOK, NEW a \in Actors, td[a].at > 0, Advance(a)
    PROVE WorkerType' /\ TeardownType'
<1>1. td[a] \in [fd : Fds \cup {None}, conn : 0..MaxConns, at : 0..Calls]
  BY DEF TypeOK, TeardownType
<1>2. CASE td[a].at < Calls
  <2>1. PICK r \in [fd : Fds \cup {None}, conn : 0..MaxConns, at : 0..Calls] :
            td' = [td EXCEPT ![a] = r] /\ r.fd = td[a].fd /\ r.at > 0
    BY <1>1, <1>2 DEF Advance, Calls
  <2>2. pc' = pc /\ sock' = sock
    BY <1>2 DEF Advance
  <2> QED BY <2>1, <2>2 DEF TypeOK, WorkerType, TeardownType
<1>3. CASE ~(td[a].at < Calls)
  <2>1. /\ td' = [td EXCEPT ![a] = Idle]
        /\ Idle \in [fd : Fds \cup {None}, conn : 0..MaxConns, at : 0..Calls]
        /\ Idle.at = 0
    BY <1>3, Constants DEF Idle, Calls, Advance
  <2>2. CASE a \in Workers
    <3>1. pc' = [pc EXCEPT ![a] = "start"] /\ sock' = [sock EXCEPT ![a] = None]
      BY <1>3, <2>2 DEF Advance
    <3>2. WorkerType'
      BY <2>2, <3>1 DEF TypeOK, WorkerType, Pcs, Holding, Receiving
    <3>3. TeardownType'
      BY <2>1, <2>2, <3>1 DEF TypeOK, WorkerType, TeardownType
    <3> QED BY <3>2, <3>3
  <2>3. CASE a \notin Workers
    BY <1>3, <2>1, <2>3 DEF Advance, TypeOK, WorkerType, TeardownType
  <2> QED BY <2>2, <2>3
<1> QED BY <1>2, <1>3

\* Nothing but the buffer part of a worker's state and its program counter matters to
\* the buffers, and a worker in a teardown has no buffer.
LEMMA AdvanceBuf ==
    ASSUME TypeOK, NEW a \in Actors, td[a].at > 0, Advance(a),
           buf' = buf, isnew' = isnew, store' \in [Fds -> Bufs \cup {None}],
           live' \subseteq Bufs, bytes' \in [Bufs -> Seq((0..MaxConns) \X Nat)], msgs' = msgs
    PROVE BufType'
<1>1. \A w \in Workers : pc'[w] \in {"recv", "insert", "put"} => pc[w] = pc'[w]
  BY DEF Advance, TypeOK, WorkerType, TeardownType, Calls
<1> QED BY <1>1 DEF TypeOK, BufType

LEMMA StraysType ==
    ASSUME TypeOK, NEW a \in Actors, td[a].at > 0
    PROVE Strays(a) \subseteq 0..MaxConns
<1>1. conn[td[a].fd] \in 0..MaxConns /\ victims \subseteq 0..MaxConns
  BY DEF TypeOK, KernelType, TeardownType, HistoryType
<1> QED BY <1>1 DEF Strays

LEMMA TypeTeardown ==
    ASSUME TypeOK, NEW a \in Actors, TeardownStep(a)
    PROVE TypeOK'
<1>1. td[a].at > 0 /\ td[a].fd \in Fds
  BY DEF TeardownStep, DelSockEvent, DelClientSockFromQueue, DelTmpClientSock, DelClientMsgBuf,
     DeleteHeartbeatDetectItem, CloseSock, Calling, TypeOK, TeardownType
<1>2. HistoryType'
  BY <1>1, StraysType DEF TeardownStep, DelSockEvent, DelClientSockFromQueue, DelTmpClientSock,
     DelClientMsgBuf, DeleteHeartbeatDetectItem, CloseSock, TypeOK, HistoryType, Rob
<1>3. CASE DelSockEvent(a)
  <2>1. KernelType' BY <1>3 DEF DelSockEvent, TypeOK, KernelType
  <2>2. PoolType' BY <1>3 DEF DelSockEvent, TypeOK, PoolType, mainVars, poolVars
  <2>3. BufType' BY <1>1, <1>3, AdvanceBuf DEF DelSockEvent, bufVars, TypeOK, BufType
  <2> QED BY <1>1, <1>2, <1>3, <2>1, <2>2, <2>3, AdvanceType DEF DelSockEvent, TypeOK
<1>4. CASE DelClientSockFromQueue(a)
  <2>1. KernelType' BY <1>4 DEF DelClientSockFromQueue, TypeOK, KernelType, kernelVars
  <2>2. queue' \in Seq(Fds)
    BY <1>4, WithoutType DEF DelClientSockFromQueue, TypeOK, PoolType
  <2>3. PoolType' BY <1>4, <2>2 DEF DelClientSockFromQueue, TypeOK, PoolType, mainVars
  <2>4. WorkerType' /\ BufType' /\ TeardownType'
    <3>1. CASE Advance(a)
      BY <1>1, <1>4, <3>1, AdvanceType, AdvanceBuf DEF DelClientSockFromQueue, bufVars, TypeOK,
         BufType
    <3>2. CASE UNCHANGED <<td, pc, sock>>
      BY <1>4, <3>2 DEF DelClientSockFromQueue, bufVars, TypeOK, WorkerType, BufType, TeardownType
    <3> QED BY <1>4, <3>1, <3>2 DEF DelClientSockFromQueue
  <2> QED BY <1>2, <2>1, <2>3, <2>4 DEF TypeOK
<1>5. CASE DelTmpClientSock(a)
  <2>1. KernelType' BY <1>5 DEF DelTmpClientSock, TypeOK, KernelType, kernelVars
  <2>2. PoolType' BY <1>5 DEF DelTmpClientSock, TypeOK, PoolType, mainVars
  <2>3. BufType' BY <1>1, <1>5, AdvanceBuf DEF DelTmpClientSock, bufVars, TypeOK, BufType
  <2> QED BY <1>1, <1>2, <1>5, <2>1, <2>2, <2>3, AdvanceType DEF DelTmpClientSock, TypeOK
<1>6. CASE DelClientMsgBuf(a)
  <2>1. KernelType' BY <1>6 DEF DelClientMsgBuf, TypeOK, KernelType, kernelVars
  <2>2. PoolType' BY <1>6 DEF DelClientMsgBuf, TypeOK, PoolType, mainVars, poolVars
  <2>3. BufType'
    BY <1>1, <1>6, AdvanceBuf, RememberedType DEF DelClientMsgBuf, TypeOK, BufType
  <2> QED BY <1>1, <1>2, <1>6, <2>1, <2>2, <2>3, AdvanceType DEF DelClientMsgBuf, TypeOK
<1>7. CASE DeleteHeartbeatDetectItem(a)
  <2>1. KernelType' BY <1>7 DEF DeleteHeartbeatDetectItem, TypeOK, KernelType, kernelVars
  <2>2. PoolType' BY <1>7 DEF DeleteHeartbeatDetectItem, TypeOK, PoolType, mainVars, poolVars
  <2>3. BufType' BY <1>1, <1>7, AdvanceBuf DEF DeleteHeartbeatDetectItem, bufVars, TypeOK, BufType
  <2> QED BY <1>1, <1>2, <1>7, <2>1, <2>2, <2>3, AdvanceType DEF DeleteHeartbeatDetectItem, TypeOK
<1>8. CASE CloseSock(a)
  <2>1. KernelType' BY <1>1, <1>8, Constants, SMTT(30) DEF CloseSock, TypeOK, KernelType
  <2>2. PoolType' BY <1>8 DEF CloseSock, TypeOK, PoolType, mainVars, poolVars
  <2>3. BufType' BY <1>1, <1>8, AdvanceBuf DEF CloseSock, bufVars, TypeOK, BufType
  <2> QED BY <1>1, <1>2, <1>8, <2>1, <2>2, <2>3, AdvanceType DEF CloseSock, TypeOK
<1> QED BY <1>3, <1>4, <1>5, <1>6, <1>7, <1>8 DEF TeardownStep

LEMMA TypeForward == ASSUME TypeOK, Forward PROVE TypeOK'
<1>1. msgs' \in Seq(Bufs) /\ live' \subseteq Bufs
  BY DEF Forward, TypeOK, BufType
<1>2. bytes' \in [Bufs -> Seq((0..MaxConns) \X Nat)]
  BY RememberedType DEF Forward, TypeOK
<1> QED BY <1>1, <1>2 DEF Forward, TypeOK, KernelType, PoolType, WorkerType, BufType, TeardownType,
     HistoryType, kernelVars, mainVars, poolVars, workerVars, ghostVars

LEMMA TypeStutter == ASSUME TypeOK, UNCHANGED vars PROVE TypeOK'
  BY DEF TypeOK, KernelType, PoolType, WorkerType, BufType, TeardownType, HistoryType, vars,
     kernelVars, mainVars, poolVars, workerVars, bufVars, ghostVars

LEMMA TypeNext == TypeOK /\ [Next]_vars => TypeOK'
<1> SUFFICES ASSUME TypeOK, [Next]_vars PROVE TypeOK'
  OBVIOUS
<1>1. CASE Clients BY <1>1, TypeClients DEF Clients
<1>2. CASE Main BY <1>2, TypeMain
<1>3. CASE Forward BY <1>3, TypeForward
<1>4. ASSUME NEW w \in Workers, Worker(w) PROVE TypeOK'
  BY <1>4, TypeQueueing, TypeReceiving, TypeReleasing, TypeTeardown DEF Worker, Actors
<1>5. ASSUME NEW k \in Closers, Closer(k) PROVE TypeOK'
  BY <1>5, TypeClosing, TypeTeardown DEF Closer, Actors
<1> QED BY <1>1, <1>2, <1>3, <1>4, <1>5, TypeStutter DEF Next

\* No interleaving of the pool, the main thread and the teardowns takes the variables out
\* of their types; in particular a worker in a teardown tears at the socket it took.
THEOREM TypeCorrect == Spec => []TypeOK
  BY InitType, TypeNext, PTL DEF Spec

-----------------------------------------------------------------------------
(***************************************************************************)
(* The claims are locks: LockInv is inductive together with TypeOK.         *)
(***************************************************************************)
\* The four ways a step may change who reads.
Still == Readers' = Readers /\ claims' = claims
Leave(w, f) ==
    /\ w \in Readers[f] /\ claims' = claims
    /\ Readers' = [Readers EXCEPT ![f] = @ \ {w}]
Broken(f) ==
    /\ claims' \in {claims, claims \ {f}}
    /\ Readers' = [Readers EXCEPT ![f] = {}]
Taken(w, f) ==
    /\ f \notin claims /\ claims' = claims \cup {f}
    /\ \A g \in Fds : w \notin Readers[g]
    /\ Readers' = [Readers EXCEPT ![f] = @ \cup {w}]

LockStep ==
    \/ Still
    \/ \E f \in Fds : Broken(f) \/ \E w \in Workers : Leave(w, f) \/ Taken(w, f)

\* A step that lets every holder go on with its socket.
LEMMA StillHolding ==
    ASSUME claims' = claims, robbed' = robbed,
           \A w \in Workers : (pc'[w] \in Holding <=> pc[w] \in Holding)
                              /\ (pc[w] \in Holding => sock'[w] = sock[w])
    PROVE LockStep
  BY DEF Still, LockStep, Readers

\* A step with which worker w alone stops to read.
LEMMA LeaveHolding ==
    ASSUME TypeOK, claims' = claims, robbed' = robbed, sock' = sock,
           NEW w \in Workers, pc[w] \in Holding, pc' = [pc EXCEPT ![w] = "teardown"]
    PROVE LockStep
<1>1. /\ sock[w] \in Fds
      /\ \A v \in Workers : pc'[v] = IF v = w THEN "teardown" ELSE pc[v]
  BY DEF TypeOK, WorkerType
<1>2. CASE w \in robbed
  BY <1>1, <1>2 DEF LockStep, Still, Readers, Holding, Receiving
<1>3. CASE w \notin robbed
  <2>1. w \in Readers[sock[w]]
    BY <1>1, <1>3 DEF Readers
  <2>2. Readers' = [Readers EXCEPT ![sock[w]] = @ \ {w}]
    <3>1. ASSUME NEW f \in Fds
          PROVE Readers'[f] = IF f = sock[w] THEN Readers[f] \ {w} ELSE Readers[f]
      BY <1>1 DEF Readers, Holding, Receiving
    <3>2. /\ Readers = [f \in Fds |-> Readers[f]]
          /\ Readers' = [f \in Fds |-> Readers'[f]]
      BY DEF Readers
    <3> QED BY <3>1, <3>2
  <2> QED BY <1>1, <2>1, <2>2 DEF LockStep, Leave
<1> QED BY <1>2, <1>3

\* A step that breaks the lock of f, whoever holds it.
LEMMA BreakHolding ==
    ASSUME NEW f \in Fds, claims' \in {claims, claims \ {f}},
           \A v \in Workers : (pc'[v] \in Holding /\ sock'[v] = f) => v \in robbed',
           \A v \in Workers : pc'[v] \in Holding => pc[v] \in Holding /\ sock'[v] = sock[v],
           \A v \in Workers : (pc[v] \in Holding /\ sock[v] # f) =>
               /\ pc'[v] \in Holding /\ sock'[v] = sock[v]
               /\ v \in robbed' <=> v \in robbed
    PROVE LockStep
  BY DEF LockStep, Broken, Readers

LEMMA LockQueueing ==
    ASSUME TypeOK, LockInv, NEW w \in Workers,
           \/ LockQueue(w) \/ FindEmpty(w) \/ FindNone(w) \/ CondWait(w) \/ WakeUp(w)
           \/ \E i \in 1..Len(queue) : ClaimSock(w, i)
    PROVE LockStep
<1> USE DEF TypeOK, WorkerType, Holding, Receiving, ghostVars
<1>1. CASE LockQueue(w) BY <1>1, StillHolding DEF LockQueue
<1>2. CASE FindEmpty(w) BY <1>2, StillHolding DEF FindEmpty, poolVars
<1>3. CASE FindNone(w) BY <1>3, StillHolding DEF FindNone
<1>4. CASE CondWait(w) BY <1>4, StillHolding DEF CondWait
<1>5. CASE WakeUp(w) BY <1>5, StillHolding DEF WakeUp
<1>6. ASSUME NEW i \in 1..Len(queue), ClaimSock(w, i) PROVE LockStep
  <2>1. queue[i] \in Fds /\ queue[i] \notin claims /\ claims' = claims \cup {queue[i]}
    BY <1>6 DEF ClaimSock, FirstFree, PoolType
  <2>2. \A v \in Workers : /\ pc'[v] = IF v = w THEN "fetch" ELSE pc[v]
                           /\ sock'[v] = IF v = w THEN queue[i] ELSE sock[v]
                           /\ v \in robbed' <=> v \in robbed /\ v # w
    BY <1>6 DEF ClaimSock
  <2>3. pc[w] = "test"
    BY <1>6 DEF ClaimSock
  <2>4. Readers' = [Readers EXCEPT ![queue[i]] = @ \cup {w}]
    BY <2>1, <2>2, <2>3 DEF Readers
  <2>5. \A g \in Fds : w \notin Readers[g]
    BY <2>3 DEF Readers
  <2> QED BY <2>1, <2>4, <2>5 DEF Taken, LockStep
<1> QED BY <1>1, <1>2, <1>3, <1>4, <1>5, <1>6

LEMMA LockReceiving ==
    ASSUME TypeOK, NEW w \in Workers,
           \/ Fetch(w) \/ RecvPiece(w) \/ RecvNothing(w) \/ RecvError(w)
           \/ InsertClientMsgBufToHash(w) \/ PutMessageToQueue(w) \/ RemoveMsgBuf(w)
           \/ ChangeHeartBeatPacketTime(w) \/ Peek(w)
    PROVE LockStep
<1> USE DEF TypeOK, WorkerType, Holding, Receiving, ghostVars, poolVars
<1>1. CASE Fetch(w) BY <1>1, StillHolding DEF Fetch
<1>2. CASE RecvPiece(w) BY <1>2, StillHolding DEF RecvPiece
<1>3. CASE RecvNothing(w) BY <1>3, StillHolding DEF RecvNothing
<1>4. CASE RecvError(w) BY <1>4, LeaveHolding DEF RecvError
<1>5. CASE InsertClientMsgBufToHash(w) BY <1>5, StillHolding DEF InsertClientMsgBufToHash
<1>6. CASE PutMessageToQueue(w) BY <1>6, StillHolding DEF PutMessageToQueue
<1>7. CASE RemoveMsgBuf(w) BY <1>7, StillHolding DEF RemoveMsgBuf
<1>8. CASE ChangeHeartBeatPacketTime(w) BY <1>8, StillHolding DEF ChangeHeartBeatPacketTime
<1>9. CASE Peek(w)
  <2>1. CASE pc' = [pc EXCEPT ![w] = "teardown"]
    BY <1>9, <2>1, LeaveHolding DEF Peek
  <2>2. CASE pc' # [pc EXCEPT ![w] = "teardown"]
    BY <1>9, <2>2, StillHolding DEF Peek
  <2> QED BY <2>1, <2>2
<1> QED BY <1>1, <1>2, <1>3, <1>4, <1>5, <1>6, <1>7, <1>8, <1>9

LEMMA LockReleasing ==
    ASSUME TypeOK, NEW w \in Workers, Release(w) \/ Requeue(w) \/ WorkerSignal(w)
    PROVE LockStep
<1> USE DEF TypeOK, WorkerType, Holding, Receiving, ghostVars
<1>1. CASE Release(w)
  <2>1. sock[w] \in Fds /\ claims' = claims \ {sock[w]}
    BY <1>1 DEF Release
  <2>2. /\ pc'[w] \in {"start", "requeue"}
        /\ \A v \in Workers \ {w} : pc'[v] = pc[v] /\ sock'[v] = sock[v]
    BY <1>1 DEF Release
  <2>3. robbed' = (robbed \cup {v \in Workers \ {w} : sock[v] = sock[w] /\ pc[v] \in Holding}) \ {w}
    BY <1>1 DEF Release, Rob
  <2>4. \A v \in Workers : (pc[v] \in Holding /\ sock[v] # sock[w]) =>
               /\ pc'[v] \in Holding /\ sock'[v] = sock[v]
               /\ v \in robbed' <=> v \in robbed
    BY <2>2, <2>3
  <2> QED BY <2>1, <2>2, <2>3, <2>4, BreakHolding
<1>2. CASE Requeue(w) BY <1>2, StillHolding DEF Requeue
<1>3. CASE WorkerSignal(w) BY <1>3, StillHolding DEF WorkerSignal
<1> QED BY <1>1, <1>2, <1>3

\* A thread in a teardown is no reader, before and after a call of its script.
LEMMA AdvanceHolding ==
    ASSUME TypeOK, NEW a \in Actors, td[a].at > 0, Advance(a) \/ UNCHANGED <<td, pc, sock>>
    PROVE /\ a \in Workers => pc[a] \notin Holding /\ pc'[a] \notin Holding
          /\ \A v \in Workers \ {a} : pc'[v] = pc[v] /\ sock'[v] = sock[v]
  BY DEF Advance, TypeOK, WorkerType, TeardownType, Holding, Receiving

LEMMA LockTeardown ==
    ASSUME TypeOK, NEW a \in Actors, TeardownStep(a)
    PROVE LockStep
<1> DEFINE f == td[a].fd
<1>1. td[a].at > 0 /\ f \in Fds /\ (Advance(a) \/ UNCHANGED <<td, pc, sock>>)
  BY DEF TeardownStep, DelSockEvent, DelClientSockFromQueue, DelTmpClientSock, DelClientMsgBuf,
     DeleteHeartbeatDetectItem, CloseSock, Calling, TypeOK, TeardownType
<1>2. /\ a \in Workers => pc[a] \notin Holding /\ pc'[a] \notin Holding
      /\ \A v \in Workers \ {a} : pc'[v] = pc[v] /\ sock'[v] = sock[v]
  BY <1>1, AdvanceHolding
<1>3. CASE DelSockEvent(a) \/ DelClientSockFromQueue(a) \/ DeleteHeartbeatDetectItem(a)
  <2>1. claims' = claims /\ robbed' = robbed
    BY <1>3 DEF DelSockEvent, DelClientSockFromQueue, DeleteHeartbeatDetectItem, poolVars
  <2> QED BY <1>2, <2>1, StillHolding
<1>4. CASE DelTmpClientSock(a) \/ DelClientMsgBuf(a) \/ CloseSock(a)
  <2>1. claims' \in {claims, claims \ {f}}
    BY <1>4 DEF DelTmpClientSock, DelClientMsgBuf, CloseSock, poolVars
  <2>2. robbed' = robbed \cup {w \in Workers \ {a} : sock[w] = f /\ pc[w] \in Holding}
    BY <1>4 DEF DelTmpClientSock, DelClientMsgBuf, CloseSock, Rob
  <2>3. \A v \in Workers : (pc'[v] \in Holding /\ sock'[v] = f) => v \in robbed'
    BY <1>2, <2>2
  <2>4. \A v \in Workers : pc'[v] \in Holding => pc[v] \in Holding /\ sock'[v] = sock[v]
    BY <1>2
  <2>5. \A v \in Workers : (pc[v] \in Holding /\ sock[v] # f) =>
               /\ pc'[v] \in Holding /\ sock'[v] = sock[v]
               /\ v \in robbed' <=> v \in robbed
    BY <1>2, <2>2
  <2> QED BY <1>1, <2>1, <2>3, <2>4, <2>5, BreakHolding
<1> QED BY <1>3, <1>4 DEF TeardownStep

LEMMA LockOthers ==
    ASSUME Clients \/ Main \/ Forward \/ (\E k \in Closers, f \in Fds :
               Expire(k, f) \/ SendFailed(k, f) \/ TimeoutSendFailed(k, f))
           \/ UNCHANGED vars
    PROVE LockStep
<1>1. claims' = claims /\ robbed' = robbed /\ pc' = pc /\ sock' = sock
  BY DEF Clients, ClientSend, ClientClose, Main, EpollWait, MainSignal, Register,
     InsertHeartbeatDetectItem, RefreshHeartbeat, Enqueue, AcceptConn, Forward, Expire,
     SendFailed, TimeoutSendFailed, vars, poolVars, workerVars, ghostVars
<1> QED BY <1>1, StillHolding

LEMMA EveryLockStep == TypeOK /\ LockInv /\ [Next]_vars => LockStep
<1> SUFFICES ASSUME TypeOK, LockInv, [Next]_vars PROVE LockStep
  OBVIOUS
<1>1. ASSUME NEW w \in Workers, Worker(w) PROVE LockStep
  BY <1>1, LockQueueing, LockReceiving, LockReleasing, LockTeardown DEF Worker, Actors
<1>2. ASSUME NEW k \in Closers, Closer(k) PROVE LockStep
  BY <1>2, LockOthers, LockTeardown DEF Closer, Actors
<1> QED BY <1>1, <1>2, LockOthers DEF Next

LEMMA LockInvStep == LockInv /\ LockStep => LockInv'
<1> SUFFICES ASSUME LockInv, LockStep PROVE LockInv'
  OBVIOUS
<1>1. Readers = [f \in Fds |-> Readers[f]]
  BY DEF Readers
<1>2. CASE Still BY <1>2 DEF Still, LockInv
<1>3. ASSUME NEW f \in Fds, Broken(f) PROVE LockInv' BY <1>1, <1>3 DEF Broken, LockInv
<1>4. ASSUME NEW f \in Fds, NEW w \in Workers, Leave(w, f) PROVE LockInv'
  <2>1. \A g \in Fds : Readers'[g] \subseteq Readers[g]
    BY <1>1, <1>4 DEF Leave
  <2> QED BY <2>1, <1>4 DEF Leave, LockInv
<1>5. ASSUME NEW f \in Fds, NEW w \in Workers, Taken(w, f) PROVE LockInv'
  <2>1. Readers[f] = {}
    BY <1>5 DEF Taken, LockInv
  <2>2. \A g \in Fds : Readers'[g] = IF g = f THEN {w} ELSE Readers[g]
    BY <1>1, <1>5, <2>1 DEF Taken
  <2> QED BY <1>5, <2>2 DEF Taken, LockInv
<1> QED BY <1>2, <1>3, <1>4, <1>5 DEF LockStep

\* Whatever the number of workers and descriptors, and whatever teardowns interfere: a
\* descriptor with an unbroken reader is in the table of claims and has no second one.
THEOREM LockCorrect == Spec => []LockInv
<1>1. Init => LockInv
  BY DEF Init, LockInv, Readers, Holding, Receiving
<1>2. TypeOK /\ LockInv /\ [Next]_vars => LockInv'
  BY EveryLockStep, LockInvStep
<1> QED BY <1>1, <1>2, TypeCorrect, PTL DEF Spec

\* Whatever the number of workers and descriptors: two workers read from one socket only
\* after a teardown by another thread, or a stale reader's release, broke a claim.
THEOREM ReadersExclusive == Spec => []OneReader
<1>1. TypeOK /\ LockInv => OneReader
  <2> SUFFICES ASSUME TypeOK, LockInv, NEW v \in Workers, NEW w \in Workers, v # w,
                      pc[v] \in Holding, pc[w] \in Holding, sock[v] = sock[w],
                      v \notin robbed, w \notin robbed
               PROVE FALSE
    BY DEF OneReader
  <2>1. sock[w] \in Fds
    BY DEF TypeOK, WorkerType
  <2>2. v \in Readers[sock[w]] /\ w \in Readers[sock[w]]
    BY <2>1 DEF Readers
  <2> QED BY <2>1, <2>2 DEF LockInv
<1> QED BY <1>1, TypeCorrect, LockCorrect, PTL

\* The pool implements the lock of SockLock: every step of it takes, gives up or breaks
\* one lock, or does not touch any.
THEOREM PoolImplementsLock == Spec => ClaimsAreLocks
<1>1. Init => Lock!Init
  BY DEF Init, Lock!Init, Readers, Holding, Receiving
<1>2. LockInv /\ LockStep => [Lock!Next]_Readers
  <2> SUFFICES ASSUME LockInv, LockStep PROVE Lock!Next \/ Readers' = Readers
    OBVIOUS
  <2>1. ASSUME NEW f \in Fds, Broken(f) PROVE Lock!Next
    BY <2>1 DEF Broken, Lock!Next, Lock!Break
  <2>2. ASSUME NEW f \in Fds, NEW w \in Workers, Leave(w, f) PROVE Lock!Next
    BY <2>2 DEF Leave, Lock!Next, Lock!Release
  <2>3. ASSUME NEW f \in Fds, NEW w \in Workers, Taken(w, f) PROVE Lock!Next
    <3>1. Readers[f] = {}
      BY <2>3 DEF Taken, LockInv
    <3>2. Readers' = [Readers EXCEPT ![f] = {w}]
      BY <2>3, <3>1 DEF Taken
    <3>3. Lock!Acquire(w, f)
      BY <2>3, <3>1, <3>2 DEF Taken, Lock!Acquire
    <3> QED BY <3>3 DEF Lock!Next
  <2> QED BY <2>1, <2>2, <2>3 DEF LockStep, Still
<1>3. TypeOK /\ LockInv /\ [Next]_vars => [Lock!Next]_Readers
  BY <1>2, EveryLockStep
<1> QED BY <1>1, <1>3, TypeCorrect, LockCorrect, PTL DEF Spec, ClaimsAreLocks, Lock!Spec

-----------------------------------------------------------------------------
(***************************************************************************)
(* Claims do not leak.                                                      *)
(***************************************************************************)
\* A worker in its teardown still holds its claim before the third call.
LEMMA ClaimPending ==
    ASSUME NEW w \in Workers
    PROVE /\ Script(w) = WorkerScript
          /\ \A n \in 0..Calls : (\E i \in n..Calls : WorkerScript[i] = "claim") <=> n <= 3
          /\ \A n \in 1..Calls : WorkerScript[n] = "claim" <=> n = 3
<1>1. Script(w) = WorkerScript
  BY Constants DEF Script, Closers
<1>2. \A n \in 1..6 : WorkerScript[n] = "claim" <=> n = 3
  BY DEF WorkerScript
<1>3. \A n \in 0..6 : (\E i \in n..6 : WorkerScript[i] = "claim") <=> n <= 3
  <2> SUFFICES ASSUME NEW n \in 0..6
               PROVE (\E i \in n..6 : WorkerScript[i] = "claim") <=> n <= 3
    OBVIOUS
  <2>1. ASSUME n <= 3 PROVE \E i \in n..6 : WorkerScript[i] = "claim"
    BY <1>2, <2>1
  <2>2. ASSUME NEW i \in n..6, WorkerScript[i] = "claim" PROVE n <= 3
    <3>1. CASE i = 0 BY <3>1
    <3>2. CASE i # 0 BY <1>2, <2>2, <3>2
    <3> QED BY <3>1, <3>2
  <2> QED BY <2>1, <2>2
<1> QED BY <1>1, <1>2, <1>3 DEF Calls

\* The claims that are left keep their holders.
LEMMA KeepClaims ==
    ASSUME ClaimsHeld, claims' \subseteq claims,
           \A w \in Workers, f \in claims' : HoldsClaim(w, f) => HoldsClaim(w, f)'
    PROVE ClaimsHeld'
  BY DEF ClaimsHeld

\* A step of worker w that leaves it with its claim; the others do not move.
LEMMA GoOn ==
    ASSUME ClaimsHeld, claims' = claims,
           \A w \in Workers : pc[w] \in Holding => pc'[w] \in Holding /\ sock'[w] = sock[w],
           \A w \in Workers : pc[w] = "teardown" => pc'[w] = pc[w] /\ sock'[w] = sock[w]
                                                   /\ td'[w] = td[w]
    PROVE ClaimsHeld'
<1>1. \A w \in Workers, f \in claims' : HoldsClaim(w, f) => HoldsClaim(w, f)'
  BY DEF HoldsClaim
<1> QED BY <1>1, KeepClaims

LEMMA HeldQueueing ==
    ASSUME TypeOK, ClaimsHeld, NEW w \in Workers,
           \/ LockQueue(w) \/ FindEmpty(w) \/ FindNone(w) \/ CondWait(w) \/ WakeUp(w)
           \/ \E i \in 1..Len(queue) : ClaimSock(w, i)
    PROVE ClaimsHeld'
<1> USE DEF TypeOK, WorkerType, Holding, Receiving
<1>1. CASE LockQueue(w) BY <1>1, GoOn DEF LockQueue
<1>2. CASE FindEmpty(w) BY <1>2, GoOn DEF FindEmpty, poolVars
<1>3. CASE FindNone(w) BY <1>3, GoOn DEF FindNone
<1>4. CASE CondWait(w) BY <1>4, GoOn DEF CondWait
<1>5. CASE WakeUp(w) BY <1>5, GoOn DEF WakeUp
<1>6. ASSUME NEW i \in 1..Len(queue), ClaimSock(w, i) PROVE ClaimsHeld'
  <2>0. PICK g \in Fds : g = queue[i]
    BY DEF PoolType
  <2>1. claims' = claims \cup {g} /\ td' = td /\ pc[w] = "test"
    BY <1>6, <2>0 DEF ClaimSock
  <2>2. \A v \in Workers : /\ pc'[v] = IF v = w THEN "fetch" ELSE pc[v]
                           /\ sock'[v] = IF v = w THEN g ELSE sock[v]
    BY <1>6, <2>0 DEF ClaimSock
  <2>3. HoldsClaim(w, g)'
    BY <2>2 DEF HoldsClaim
  <2>4. \A v \in Workers, f \in claims : HoldsClaim(v, f) => HoldsClaim(v, f)'
    BY <2>1, <2>2 DEF HoldsClaim
  <2> QED BY <2>1, <2>3, <2>4 DEF ClaimsHeld
<1> QED BY <1>1, <1>2, <1>3, <1>4, <1>5, <1>6

LEMMA HeldReceiving ==
    ASSUME TypeOK, ClaimsHeld, NEW w \in Workers,
           \/ Fetch(w) \/ RecvPiece(w) \/ RecvNothing(w) \/ InsertClientMsgBufToHash(w)
           \/ PutMessageToQueue(w) \/ RemoveMsgBuf(w) \/ ChangeHeartBeatPacketTime(w)
           \/ Requeue(w) \/ WorkerSignal(w)
    PROVE ClaimsHeld'
<1> USE DEF TypeOK, WorkerType, Holding, Receiving, poolVars
<1>1. CASE Fetch(w) BY <1>1, GoOn DEF Fetch
<1>2. CASE RecvPiece(w) BY <1>2, GoOn DEF RecvPiece
<1>3. CASE RecvNothing(w) BY <1>3, GoOn DEF RecvNothing
<1>4. CASE InsertClientMsgBufToHash(w) BY <1>4, GoOn DEF InsertClientMsgBufToHash
<1>5. CASE PutMessageToQueue(w) BY <1>5, GoOn DEF PutMessageToQueue
<1>6. CASE RemoveMsgBuf(w) BY <1>6, GoOn DEF RemoveMsgBuf
<1>7. CASE ChangeHeartBeatPacketTime(w) BY <1>7, GoOn DEF ChangeHeartBeatPacketTime
<1>8. CASE Requeue(w) BY <1>8, GoOn DEF Requeue
<1>9. CASE WorkerSignal(w) BY <1>9, GoOn DEF WorkerSignal
<1> QED BY <1>1, <1>2, <1>3, <1>4, <1>5, <1>6, <1>7, <1>8, <1>9

\* A worker that starts its own teardown has the deletion of its claim before it.
LEMMA HeldFailing ==
    ASSUME TypeOK, ClaimsHeld, NEW w \in Workers, RecvError(w) \/ Peek(w)
    PROVE ClaimsHeld'
<1> USE DEF TypeOK, WorkerType, Holding, Receiving, poolVars
<1>1. CASE pc' = [pc EXCEPT ![w] = "teardown"] /\ Begin(w, sock[w])
  <2>1. claims' = claims /\ sock' = sock /\ pc[w] \in Holding
    BY DEF RecvError, Peek
  <2>2. \A v \in Workers \ {w} : pc'[v] = pc[v] /\ td'[v] = td[v]
    BY <1>1 DEF Begin, Actors
  <2>3. pc'[w] = "teardown" /\ td'[w].at = 1
    BY <1>1, Constants DEF Begin, TeardownType
  <2>4. \E i \in td'[w].at..Calls : WorkerScript[i] = "claim"
    BY <2>3, ClaimPending DEF Calls
  <2>5. \A v \in Workers, f \in claims : HoldsClaim(v, f) => HoldsClaim(v, f)'
    BY <2>1, <2>2, <2>3, <2>4 DEF HoldsClaim
  <2> QED BY <2>1, <2>5, KeepClaims
<1>2. CASE Peek(w) /\ td' = td /\ pc'[w] \in Holding
  <2>1. \A v \in Workers \ {w} : pc'[v] = pc[v]
    BY <1>2 DEF Peek
  <2> QED BY <1>2, <2>1, GoOn DEF Peek
<1>3. CASE RecvError(w)
  BY <1>1, <1>3 DEF RecvError
<1>4. CASE Peek(w)
  BY <1>1, <1>2, <1>4 DEF Peek
<1> QED BY <1>3, <1>4

LEMMA HeldRelease ==
    ASSUME TypeOK, ClaimsHeld, NEW w \in Workers, Release(w)
    PROVE ClaimsHeld'
<1>1. claims' = claims \ {sock[w]} /\ td' = td
  BY DEF Release
<1>2. \A v \in Workers \ {w} : pc'[v] = pc[v] /\ sock'[v] = sock[v]
  BY DEF Release, TypeOK, WorkerType
<1>3. \A v \in Workers, f \in claims' : HoldsClaim(v, f) => HoldsClaim(v, f)'
  <2> SUFFICES ASSUME NEW v \in Workers, NEW f \in claims', HoldsClaim(v, f)
               PROVE HoldsClaim(v, f)'
    OBVIOUS
  <2>1. v # w
    BY <1>1 DEF HoldsClaim
  <2> QED BY <1>1, <1>2, <2>1 DEF HoldsClaim
<1> QED BY <1>1, <1>3, KeepClaims

LEMMA HeldTeardown ==
    ASSUME TypeOK, ClaimsHeld, NEW a \in Actors, TeardownStep(a)
    PROVE ClaimsHeld'
<1>1. td[a].at \in 1..Calls /\ (Advance(a) \/ UNCHANGED <<td, pc, sock>>)
  BY DEF TeardownStep, DelSockEvent, DelClientSockFromQueue, DelTmpClientSock, DelClientMsgBuf,
     DeleteHeartbeatDetectItem, CloseSock, Calling, TypeOK, TeardownType, Calls
<1>2. \A v \in Workers \ {a} : pc'[v] = pc[v] /\ sock'[v] = sock[v] /\ td'[v] = td[v]
  BY <1>1 DEF Advance, TypeOK, WorkerType, TeardownType, Actors
<1>3. claims' = claims \/ (Calling(a, "claim") /\ claims' = claims \ {td[a].fd})
  BY DEF TeardownStep, DelSockEvent, DelClientSockFromQueue, DelTmpClientSock, DelClientMsgBuf,
     DeleteHeartbeatDetectItem, CloseSock, poolVars
<1>4. CASE a \notin Workers
  <2>1. \A v \in Workers, f \in claims' : HoldsClaim(v, f) => HoldsClaim(v, f)'
    BY <1>2, <1>4 DEF HoldsClaim
  <2> QED BY <1>3, <2>1, KeepClaims
<1>5. CASE a \in Workers
  <2>1. pc[a] = "teardown" /\ td[a].fd = sock[a]
    BY <1>1, <1>5 DEF TypeOK, TeardownType, Calls
  <2>2. CASE td[a].at = 3
    <3>1. claims' = claims \ {sock[a]}
      BY <1>5, <2>1, <2>2, ClaimPending DEF TeardownStep, DelSockEvent, DelClientSockFromQueue,
         DelTmpClientSock, DelClientMsgBuf, DeleteHeartbeatDetectItem, CloseSock, Calling, Calls
    <3>2. \A v \in Workers, f \in claims' : HoldsClaim(v, f) => HoldsClaim(v, f)'
      BY <1>2, <3>1 DEF HoldsClaim
    <3> QED BY <3>1, <3>2, KeepClaims
  <2>3. CASE td[a].at < 3
    <3>1. /\ pc'[a] = pc[a] /\ sock'[a] = sock[a]
          /\ td'[a].at \in {td[a].at, td[a].at + 1}
      BY <1>1, <1>5, <2>3 DEF Advance, Calls, TypeOK, TeardownType
    <3>2. \E i \in td'[a].at..Calls : WorkerScript[i] = "claim"
      BY <1>1, <1>5, <2>3, <3>1, ClaimPending DEF Calls
    <3>3. \A v \in Workers, f \in claims' : HoldsClaim(v, f) => HoldsClaim(v, f)'
      BY <1>2, <2>1, <3>1, <3>2 DEF HoldsClaim
    <3> QED BY <1>3, <3>3, KeepClaims
  <2>4. CASE td[a].at > 3
    <3>1. \A f : ~HoldsClaim(a, f)
      BY <1>1, <1>5, <2>1, <2>4, ClaimPending DEF HoldsClaim, Holding, Receiving, Calls
    <3>2. \A v \in Workers, f \in claims' : HoldsClaim(v, f) => HoldsClaim(v, f)'
      BY <1>2, <3>1 DEF HoldsClaim
    <3> QED BY <1>3, <3>2, KeepClaims
  <2> QED BY <1>1, <2>2, <2>3, <2>4 DEF Calls
<1> QED BY <1>4, <1>5

LEMMA HeldOthers ==
    ASSUME TypeOK, ClaimsHeld,
           \/ Clients \/ Main \/ Forward \/ UNCHANGED vars
           \/ \E k \in Closers, f \in Fds :
                  Expire(k, f) \/ SendFailed(k, f) \/ TimeoutSendFailed(k, f)
    PROVE ClaimsHeld'
<1>1. claims' = claims /\ pc' = pc /\ sock' = sock /\ \A w \in Workers : td'[w] = td[w]
  BY Constants DEF Clients, ClientSend, ClientClose, Main, EpollWait, MainSignal, Register,
     InsertHeartbeatDetectItem, RefreshHeartbeat, Enqueue, AcceptConn, Forward, Expire,
     SendFailed, TimeoutSendFailed, Begin, vars, poolVars, workerVars, TypeOK, TeardownType
<1> QED BY <1>1, GoOn

\* A claim is never left behind: a worker that will delete it exists for every claim,
\* whoever tears at whatever descriptor in the meantime.
THEOREM ClaimsNeverLeak == Spec => []ClaimsHeld
<1>1. Init => ClaimsHeld
  BY DEF Init, ClaimsHeld
<1>2. TypeOK /\ ClaimsHeld /\ [Next]_vars => ClaimsHeld'
  <2> SUFFICES ASSUME TypeOK, ClaimsHeld, [Next]_vars PROVE ClaimsHeld'
    OBVIOUS
  <2>1. ASSUME NEW w \in Workers, Worker(w) PROVE ClaimsHeld'
    BY <2>1, HeldQueueing, HeldReceiving, HeldFailing, HeldRelease, HeldTeardown
       DEF Worker, Actors
  <2>2. ASSUME NEW k \in Closers, Closer(k) PROVE ClaimsHeld'
    BY <2>2, HeldOthers, HeldTeardown DEF Closer, Actors
  <2> QED BY <2>1, <2>2, HeldOthers DEF Next
<1> QED BY <1>1, <1>2, TypeCorrect, PTL DEF Spec

=============================================================================
