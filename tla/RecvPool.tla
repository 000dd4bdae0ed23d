------------------------------ MODULE RecvPool ------------------------------
(***************************************************************************)
(* The receive side of the access server in epoll mode.                     *)
(*                                                                          *)
(* The main thread (ProcessClientRequest) turns edge-triggered epoll events *)
(* into entries of g_clientsocket_queue.  A pool of WorkThreads takes       *)
(* sockets from that queue; a worker claims a socket in                     *)
(* g_tmp_clientsock_hash before it reads from it, collects the pieces of a  *)
(* message in a buffer kept in g_msgbuf_hashtable between two readings, and *)
(* hands a complete message to g_msg_queue.  Whoever finds a connection     *)
(* dead tears it down step by step: a worker, the heartbeat detector, a     *)
(* thread that sends to clients, or the checker of timed out requests.      *)
(*                                                                          *)
(* A socket is a file descriptor: the kernel may give a closed descriptor   *)
(* to the next connection.  Connections are numbered in the order they are  *)
(* accepted, 1..MaxConns; bytes are grouped in pieces, MsgPieces of which   *)
(* make a message.                                                          *)
(***************************************************************************)
EXTENDS Integers, Sequences, FiniteSets

CONSTANTS
    Workers,    \* the threads of the receive pool (CreateThreadPool)
    Detectors,  \* HeartBeatDetectThread: one element, or none
    Senders,    \* SndMsgToClientThread threads, seen only when they tear down
    Checkers,   \* the CheckTimeoutMsg thread, seen only when it tears down
    Fds,        \* the descriptors the kernel hands out
    MaxConns,   \* bound: connections accepted in a behaviour
    MaxPieces,  \* bound: pieces a client sends on one connection
    MsgPieces,  \* pieces that make one message
    MsgQueueCap,\* capacity of g_msg_queue
    Bufs,       \* addresses malloc can return, numbered
    None        \* no thread, no descriptor, no buffer

Closers == Detectors \cup Senders \cup Checkers
Actors == Workers \cup Closers

ASSUME RecvPoolAssumption ==
    /\ Workers \cap Closers = {}
    /\ Detectors \cap (Senders \cup Checkers) = {}
    /\ Senders \cap Checkers = {}
    /\ Bufs \subseteq Nat
    /\ MaxConns \in Nat /\ MaxPieces \in Nat
    /\ MsgPieces \in Nat \ {0} /\ MsgQueueCap \in Nat
    /\ None \notin Actors \cup Fds \cup Bufs

VARIABLES
    conn,     \* [Fds -> 0..MaxConns]: the connection a descriptor stands for, 0 if closed
    nconn,    \* connections accepted so far
    unread,   \* [Fds -> Nat]: pieces in the kernel's receive buffer
    taken,    \* [Fds -> Nat]: pieces already read from the current connection
    fin,      \* [Fds -> BOOLEAN]: the client has closed or died
    epoll,    \* descriptors registered in g_epoll_fd
    ready,    \* registered descriptors with an edge not yet reported
    batch,    \* descriptors reported by the last epoll_wait, not yet handled
    mpc, mfd, \* program counter and current descriptor of the main thread
    queue,    \* g_clientsocket_queue.stLink_queue
    qlock,    \* holder of g_clientsocket_queue.queue_mutex
    waiters,  \* threads blocked in pthread_cond_wait on its queue_cond
    claims,   \* g_tmp_clientsock_hash
    pc,       \* [Workers -> program counter]
    sock,     \* [Workers -> nSock]
    buf,      \* [Workers -> pMsg_buf of RcvMsgFromClient]
    isnew,    \* [Workers -> BOOLEAN]: pValue was NULL, the buffer was just allocated
    store,    \* g_msgbuf_hashtable: [Fds -> Bufs or None]
    live,     \* buffers allocated and not freed
    bytes,    \* [Bufs -> sequence of pieces <<connection, index>>]
    msgs,     \* g_msg_queue: sequence of buffers
    beat,     \* descriptors with an entry in g_heartbeatdetect_table
    td,       \* [Actors -> the teardown under way: descriptor and next call, 0 if none]
    robbed,   \* history: workers whose socket another thread tore at while they held it
    victims   \* history: connections a thread meddled with that had no business with them

kernelVars == <<conn, nconn, unread, taken, fin, epoll, ready>>
mainVars == <<batch, mpc, mfd>>
poolVars == <<queue, qlock, waiters, claims>>
workerVars == <<pc, sock, buf, isnew>>
bufVars == <<store, live, bytes, msgs>>
ghostVars == <<robbed, victims>>
vars == <<kernelVars, mainVars, poolVars, workerVars, bufVars, beat, td, ghostVars>>

Idle == [fd |-> None, conn |-> 0, at |-> 0]

(***************************************************************************)
(* The teardown of a connection, one call per entry.  The four threads do   *)
(* the same calls in three different orders.                                *)
(***************************************************************************)
\* A worker that does not delete its claim.
ScriptWithoutClaim == <<"epoll", "queue", "queue", "store", "beat", "close">>
\* A detector or a checker that leaves the socket open.
ScriptWithoutClose == <<"epoll", "queue", "claim", "store", "beat", "beat">>

\* RecvClientMsgErrorProcess, run by a worker.
WorkerScript == <<"epoll", "queue", "claim", "store", "beat", "close">>
\* The expiry branch of HeartBeatDetectThread.
DetectorScript == <<"epoll", "queue", "claim", "store", "close", "beat">>
\* DelClientSockInfo followed by close in SndMsgToClientThread.
SenderScript == <<"epoll", "queue", "claim", "store", "beat", "close">>
\* close in CheckTimeoutMsg followed by C_DelCloseClientSockInfo.
CheckerScript == <<"close", "epoll", "queue", "claim", "store", "beat">>

Calls == 6

Script(a) ==
    IF a \in Detectors THEN DetectorScript
    ELSE IF a \in Senders THEN SenderScript
    ELSE IF a \in Checkers THEN CheckerScript
    ELSE WorkerScript

\* A worker may read from its socket or hold its buffer in these states.
Receiving == {"fetch", "recv", "insert", "put", "remove", "beat", "peek"}
\* A worker has claimed its socket and not yet given the claim back.
Holding == Receiving \cup {"release", "releaseAgain"}

HoldsClaim(w, f) ==
    /\ sock[w] = f
    /\ \/ pc[w] \in Holding
       \/ /\ pc[w] = "teardown"
          /\ \E i \in td[w].at..Calls : WorkerScript[i] = "claim"

\* heartbeat_detect_mutex is held by the detector for the whole sweep.
Sweeping == \E d \in Detectors : td[d] # Idle

Referenced ==
    {buf[w] : w \in Workers} \cup {store[f] : f \in Fds} \cup {msgs[i] : i \in 1..Len(msgs)}

\* The contents of memory nobody can reach any more need not be remembered.
Remembered == [b \in Bufs |-> IF b \in live' \cup Referenced' THEN bytes[b] ELSE <<>>]

Pcs == Holding \cup {"start", "test", "sleep", "asleep", "lockAgain", "sleepAgain",
                      "asleepAgain", "requeue", "signal", "teardown"}

KernelType ==
    /\ conn \in [Fds -> 0..MaxConns]
    /\ nconn \in 0..MaxConns
    /\ unread \in [Fds -> Nat]
    /\ taken \in [Fds -> Nat]
    /\ fin \in [Fds -> BOOLEAN]
    /\ epoll \subseteq Fds /\ ready \subseteq Fds

PoolType ==
    /\ batch \subseteq Fds
    /\ mpc \in {"idle", "signal", "register", "insert", "refresh"}
    /\ mfd \in IF mpc \in {"idle", "signal"} THEN {None} ELSE Fds
    /\ queue \in Seq(Fds)
    /\ qlock \in Workers \cup {None}
    /\ waiters \subseteq Workers
    /\ claims \subseteq Fds
    /\ beat \subseteq Fds

WorkerType ==
    /\ pc \in [Workers -> Pcs]
    /\ sock \in [Workers -> Fds \cup {None}]
    /\ \A w \in Workers : pc[w] \in Holding \cup {"requeue", "teardown"} => sock[w] \in Fds

BufType ==
    /\ buf \in [Workers -> Bufs \cup {None}]
    /\ isnew \in [Workers -> BOOLEAN]
    /\ \A w \in Workers : pc[w] \in {"recv", "insert", "put"} => buf[w] \in Bufs
    /\ store \in [Fds -> Bufs \cup {None}]
    /\ live \subseteq Bufs
    /\ bytes \in [Bufs -> Seq((0..MaxConns) \X Nat)]
    /\ msgs \in Seq(Bufs)

TeardownType ==
    /\ td \in [Actors -> [fd : Fds \cup {None}, conn : 0..MaxConns, at : 0..Calls]]
    /\ \A a \in Actors : td[a].at > 0 => td[a].fd \in Fds
    /\ \A w \in Workers : td[w].at > 0 <=> pc[w] = "teardown"
    /\ \A w \in Workers : td[w].at > 0 => td[w].fd = sock[w]

HistoryType ==
    /\ robbed \subseteq Workers
    /\ victims \subseteq 0..MaxConns

TypeOK == KernelType /\ PoolType /\ WorkerType /\ BufType /\ TeardownType /\ HistoryType

Init ==
    /\ conn = [f \in Fds |-> 0] /\ nconn = 0
    /\ unread = [f \in Fds |-> 0] /\ taken = [f \in Fds |-> 0]
    /\ fin = [f \in Fds |-> FALSE]
    /\ epoll = {} /\ ready = {} /\ batch = {}
    /\ mpc = "idle" /\ mfd = None
    /\ queue = <<>> /\ qlock = None /\ waiters = {} /\ claims = {}
    /\ pc = [w \in Workers |-> "start"] /\ sock = [w \in Workers |-> None]
    /\ buf = [w \in Workers |-> None] /\ isnew = [w \in Workers |-> FALSE]
    /\ store = [f \in Fds |-> None] /\ live = {}
    /\ bytes = [b \in Bufs |-> <<>>] /\ msgs = <<>>
    /\ beat = {}
    /\ td = [a \in Actors |-> Idle]
    /\ robbed = {} /\ victims = {}

(***************************************************************************)
(* The clients and the kernel.                                              *)
(***************************************************************************)
\* A piece arrives; the edge is reported once, to a registered descriptor.
ClientSend(f) ==
    /\ conn[f] # 0 /\ ~fin[f]
    /\ taken[f] + unread[f] < MaxPieces
    /\ unread' = [unread EXCEPT ![f] = @ + 1]
    /\ ready' = IF f \in epoll THEN ready \cup {f} ELSE ready
    /\ UNCHANGED <<conn, nconn, taken, fin, epoll, mainVars, poolVars, workerVars, bufVars,
                   beat, td, ghostVars>>

\* The client closes its end, or its host dies.
ClientClose(f) ==
    /\ conn[f] # 0 /\ ~fin[f]
    /\ fin' = [fin EXCEPT ![f] = TRUE]
    /\ ready' = IF f \in epoll THEN ready \cup {f} ELSE ready
    /\ UNCHANGED <<conn, nconn, unread, taken, epoll, mainVars, poolVars, workerVars, bufVars,
                   beat, td, ghostVars>>

(***************************************************************************)
(* The main thread: ProcessClientRequest.                                   *)
(***************************************************************************)
\* epoll_wait returns every edge not yet reported.
EpollWait ==
    /\ mpc = "idle" /\ batch = {} /\ ready # {}
    /\ batch' = ready /\ ready' = {}
    /\ UNCHANGED <<conn, nconn, unread, taken, fin, epoll, mpc, mfd, poolVars, workerVars,
                   bufVars, beat, td, ghostVars>>

\* EPOLLIN on a client: InsertItemToQueue, under the queue's own lock only.
Enqueue(f) ==
    /\ mpc = "idle" /\ f \in batch
    /\ batch' = batch \ {f}
    /\ queue' = Append(queue, f)
    /\ mpc' = "signal"
    /\ UNCHANGED <<kernelVars, mfd, qlock, waiters, claims, workerVars, bufVars, beat, td,
                   ghostVars>>

\* pthread_cond_signal on queue_cond: some thread blocked there, if any, is woken.
Signalled == IF waiters = {} THEN {{}} ELSE {waiters \ {w} : w \in waiters}

\* The signal after InsertItemToQueue; queue_mutex is not held.
MainSignal ==
    /\ mpc = "signal"
    /\ waiters' \in Signalled
    /\ mpc' = "idle"
    /\ UNCHANGED <<kernelVars, batch, mfd, queue, qlock, claims, workerVars, bufVars, beat, td,
                   ghostVars>>

\* Accept and SetNonBlocking: the kernel picks a closed descriptor.
AcceptConn(f) ==
    /\ mpc = "idle" /\ conn[f] = 0 /\ nconn < MaxConns
    /\ nconn' = nconn + 1
    /\ conn' = [conn EXCEPT ![f] = nconn + 1]
    /\ mfd' = f /\ mpc' = "register"
    /\ UNCHANGED <<unread, taken, fin, epoll, ready, batch, poolVars, workerVars, bufVars, beat, td, ghostVars>>

\* PutSockIntoEpoll: EPOLL_CTL_ADD reports what is already there; on a closed descriptor
\* it fails and the new connection is dropped from the loop.
Register ==
    /\ mpc = "register"
    /\ IF conn[mfd] # 0
       THEN /\ epoll' = epoll \cup {mfd}
            /\ ready' = IF unread[mfd] > 0 \/ fin[mfd] THEN ready \cup {mfd} ELSE ready
            /\ mpc' = "insert" /\ mfd' = mfd
       ELSE /\ UNCHANGED <<epoll, ready>>
            /\ mpc' = "idle" /\ mfd' = None
    /\ UNCHANGED <<conn, nconn, unread, taken, fin, batch, poolVars, workerVars, bufVars, beat,
                   td, ghostVars>>

\* InsertHeartbeatDetectItem: a new entry, or an old one whose time is set again
\* under heartbeat_detect_mutex.
InsertHeartbeatDetectItem ==
    /\ mpc = "insert"
    /\ IF mfd \in beat
       THEN mpc' = "refresh" /\ UNCHANGED <<beat, mfd>>
       ELSE mpc' = "idle" /\ mfd' = None /\ beat' = beat \cup {mfd}
    /\ UNCHANGED <<kernelVars, batch, poolVars, workerVars, bufVars, td, ghostVars>>

RefreshHeartbeat ==
    /\ mpc = "refresh" /\ ~Sweeping
    /\ mpc' = "idle" /\ mfd' = None
    /\ UNCHANGED <<kernelVars, batch, poolVars, workerVars, bufVars, beat, td, ghostVars>>

(***************************************************************************)
(* WorkThread: take a socket from the queue and claim it.                   *)
(***************************************************************************)
LockQueue(w) ==
    /\ pc[w] \in {"start", "lockAgain"} /\ qlock = None
    /\ qlock' = w
    /\ pc' = [pc EXCEPT ![w] = IF pc[w] = "start" THEN "test" ELSE "sleepAgain"]
    /\ UNCHANGED <<kernelVars, mainVars, queue, waiters, claims, sock, buf, isnew, bufVars,
                   beat, td, ghostVars>>

\* IsLinkQueueEmpty is TRUE: the next call is pthread_cond_wait.
FindEmpty(w) ==
    /\ pc[w] = "test" /\ queue = <<>>
    /\ pc' = [pc EXCEPT ![w] = "sleep"]
    /\ UNCHANGED <<kernelVars, mainVars, poolVars, sock, buf, isnew, bufVars, beat, td,
                   ghostVars>>

\* A worker that takes the front of the queue without a look at the claims.
FrontOfQueue(i) == i = 1

\* The index of the first entry no other worker has claimed.
FirstFree(i) == queue[i] \notin claims /\ \A j \in 1..(i - 1) : queue[j] \in claims

Without(q, i) == SubSeq(q, 1, i - 1) \o SubSeq(q, i + 1, Len(q))

\* HandleClientSock returns TRUE for the entry: claimed and taken out of the queue.
ClaimSock(w, i) ==
    /\ pc[w] = "test" /\ FirstFree(i)
    /\ claims' = claims \cup {queue[i]}
    /\ queue' = Without(queue, i)
    /\ qlock' = None
    /\ sock' = [sock EXCEPT ![w] = queue[i]]
    /\ pc' = [pc EXCEPT ![w] = "fetch"]
    /\ robbed' = robbed \ {w}
    /\ UNCHANGED <<kernelVars, mainVars, waiters, buf, isnew, bufVars, beat, td, victims>>

\* CLIENT_SOCK_EXIST for every entry: leave, and wait for a signal whatever happens.
FindNone(w) ==
    /\ pc[w] = "test" /\ queue # <<>>
    /\ \A i \in 1..Len(queue) : queue[i] \in claims
    /\ qlock' = None
    /\ pc' = [pc EXCEPT ![w] = "lockAgain"]
    /\ UNCHANGED <<kernelVars, mainVars, queue, waiters, claims, sock, buf, isnew, bufVars,
                   beat, td, ghostVars>>

CondWait(w) ==
    /\ pc[w] \in {"sleep", "sleepAgain"}
    /\ qlock' = None
    /\ waiters' = waiters \cup {w}
    /\ pc' = [pc EXCEPT ![w] = IF pc[w] = "sleep" THEN "asleep" ELSE "asleepAgain"]
    /\ UNCHANGED <<kernelVars, mainVars, queue, claims, sock, buf, isnew, bufVars, beat, td,
                   ghostVars>>

\* pthread_cond_wait returns with queue_mutex; after the second wait it is given back at once.
WakeUp(w) ==
    /\ pc[w] \in {"asleep", "asleepAgain"} /\ w \notin waiters /\ qlock = None
    /\ IF pc[w] = "asleep"
       THEN qlock' = w /\ pc' = [pc EXCEPT ![w] = "test"]
       ELSE qlock' = None /\ pc' = [pc EXCEPT ![w] = "start"]
    /\ UNCHANGED <<kernelVars, mainVars, queue, waiters, claims, sock, buf, isnew, bufVars,
                   beat, td, ghostVars>>

(***************************************************************************)
(* RcvMsgFromClient: read pieces until a message is complete.               *)
(***************************************************************************)
\* History: thread a tears at descriptor f while other workers hold it.
Rob(a, f) == robbed \cup {w \in Workers \ {a} : sock[w] = f /\ pc[w] \in Holding}

\* History: a worker that was robbed goes on as if the connection were still its own.
MeddleIfRobbed(w) ==
    IF w \in robbed /\ conn[sock[w]] # 0 THEN victims \cup {conn[sock[w]]} ELSE victims

\* Off by one: the last piece is not waited for.
AlmostComplete(b) == Len(bytes[b]) >= MsgPieces - 1

Complete(b) == Len(bytes[b]) >= MsgPieces

\* HashData, and MM_MALLOC if there is no buffer yet.  The address is one that nobody
\* holds any more, so that a use after free stays visible in the model.
Fetch(w) ==
    /\ pc[w] = "fetch"
    /\ IF store[sock[w]] # None
       THEN /\ buf' = [buf EXCEPT ![w] = store[sock[w]]]
            /\ isnew' = [isnew EXCEPT ![w] = FALSE]
            /\ UNCHANGED <<live, bytes>>
       ELSE \E b \in Bufs \ (live \cup Referenced) :
            /\ \A other \in Bufs \ (live \cup Referenced) : b <= other
            /\ buf' = [buf EXCEPT ![w] = b]
            /\ isnew' = [isnew EXCEPT ![w] = TRUE]
            /\ live' = live \cup {b}
            /\ bytes' = [bytes EXCEPT ![b] = <<>>]
    /\ pc' = [pc EXCEPT ![w] = "recv"]
    /\ UNCHANGED <<kernelVars, mainVars, poolVars, sock, store, msgs, beat, td, ghostVars>>

\* recv returns data: one more piece of the header or the body.
RecvPiece(w) ==
    LET f == sock[w] IN
    /\ pc[w] = "recv" /\ conn[f] # 0 /\ unread[f] > 0
    /\ unread' = [unread EXCEPT ![f] = @ - 1]
    /\ taken' = [taken EXCEPT ![f] = @ + 1]
    /\ bytes' = [bytes EXCEPT ![buf[w]] = Append(@, <<conn[f], taken[f] + 1>>)]
    /\ pc' = [pc EXCEPT ![w] = IF Len(bytes[buf[w]]) + 1 >= MsgPieces THEN "insert" ELSE "recv"]
    /\ victims' = MeddleIfRobbed(w)
    /\ UNCHANGED <<conn, nconn, fin, epoll, ready, mainVars, poolVars, sock, buf, isnew,
                   store, live, msgs, beat, td, robbed>>

\* recv is tried again for ever instead of giving the socket back.
RecvAgain(w) ==
    /\ pc[w] = "recv" /\ conn[sock[w]] # 0 /\ unread[sock[w]] = 0 /\ ~fin[sock[w]]
    /\ UNCHANGED vars

\* The buffer is freed even if it holds a part of a message and stays in the table.
FreePartial(w) ==
    /\ pc[w] = "recv" /\ conn[sock[w]] # 0 /\ unread[sock[w]] = 0 /\ ~fin[sock[w]]
    /\ live' = live \ {buf[w]}
    /\ pc' = [pc EXCEPT ![w] = IF bytes[buf[w]] = <<>> THEN "release" ELSE "insert"]
    /\ UNCHANGED <<kernelVars, mainVars, poolVars, sock, buf, isnew, store, bytes, msgs, beat,
                   td, ghostVars>>

\* recv returns -1 with EAGAIN: RECV_MSG_EMPTY frees a buffer that holds nothing;
\* otherwise the buffer stays in the table for the next reading.
RecvNothing(w) ==
    LET f == sock[w] IN
    /\ pc[w] = "recv" /\ conn[f] # 0 /\ unread[f] = 0 /\ ~fin[f]
    /\ IF bytes[buf[w]] = <<>>
       THEN /\ live' = live \ {buf[w]}
            /\ buf' = [buf EXCEPT ![w] = None]
            /\ isnew' = [isnew EXCEPT ![w] = FALSE]
            /\ pc' = [pc EXCEPT ![w] = "release"]
       ELSE /\ pc' = [pc EXCEPT ![w] = "insert"]
            /\ UNCHANGED <<live, buf, isnew>>
    /\ UNCHANGED <<kernelVars, mainVars, poolVars, sock, store, msgs, beat, td, ghostVars>>
    /\ bytes' = Remembered

\* Thread a begins to tear descriptor f down: the first call of its script is next.
Begin(a, f) == td' = [td EXCEPT ![a] = [fd |-> f, conn |-> conn[f], at |-> 1]]

\* recv returns 0, or -1 because the descriptor was closed: RECV_CLOSE_SOCKET or
\* RECV_MSG_ERROR.  A buffer that is not in the table is freed.
RecvError(w) ==
    LET f == sock[w] IN
    /\ pc[w] = "recv"
    /\ conn[f] = 0 \/ (unread[f] = 0 /\ fin[f])
    /\ live' = IF isnew[w] THEN live \ {buf[w]} ELSE live
    /\ buf' = [buf EXCEPT ![w] = None]
    /\ isnew' = [isnew EXCEPT ![w] = FALSE]
    /\ pc' = [pc EXCEPT ![w] = "teardown"]
    /\ Begin(w, f)
    /\ UNCHANGED <<kernelVars, mainVars, poolVars, sock, store, msgs, beat, ghostVars>>
    /\ bytes' = Remembered

\* InsertClientMsgBufToHash: a buffer already there under the same key is freed.
InsertClientMsgBufToHash(w) ==
    LET f == sock[w] IN
    /\ pc[w] = "insert"
    /\ IF isnew[w]
       THEN /\ live' = live \ ({store[f]} \ {None})
            /\ store' = [store EXCEPT ![f] = buf[w]]
            /\ victims' = MeddleIfRobbed(w)
       ELSE UNCHANGED <<live, store, victims>>
    /\ isnew' = [isnew EXCEPT ![w] = FALSE]
    /\ IF Complete(buf[w])
       THEN pc' = [pc EXCEPT ![w] = "put"] /\ buf' = buf
       ELSE pc' = [pc EXCEPT ![w] = "release"] /\ buf' = [buf EXCEPT ![w] = None]
    /\ UNCHANGED <<kernelVars, mainVars, poolVars, sock, msgs, beat, td, robbed>>
    /\ bytes' = Remembered

\* PutMessageToQueue: a full g_msg_queue means the message is dropped and freed.
PutMessageToQueue(w) ==
    /\ pc[w] = "put"
    /\ IF Len(msgs) < MsgQueueCap
       THEN msgs' = Append(msgs, buf[w]) /\ live' = live
       ELSE msgs' = msgs /\ live' = live \ {buf[w]}
    /\ buf' = [buf EXCEPT ![w] = None]
    /\ pc' = [pc EXCEPT ![w] = "remove"]
    /\ UNCHANGED <<kernelVars, mainVars, poolVars, sock, isnew, store, beat, td, ghostVars>>
    /\ bytes' = Remembered

\* The buffer is freed with its entry, as DelClientMsgBufFromHash does.
RemoveAndFree(w) ==
    /\ pc[w] = "remove"
    /\ live' = live \ {store[sock[w]]}
    /\ store' = [store EXCEPT ![sock[w]] = None]
    /\ pc' = [pc EXCEPT ![w] = "beat"]
    /\ UNCHANGED <<kernelVars, mainVars, poolVars, sock, buf, isnew, bytes, msgs, beat, td,
                   ghostVars>>

\* HashDel takes the entry out of g_msgbuf_hashtable and frees nothing.
RemoveMsgBuf(w) ==
    /\ pc[w] = "remove"
    /\ store' = [store EXCEPT ![sock[w]] = None]
    /\ victims' = MeddleIfRobbed(w)
    /\ pc' = [pc EXCEPT ![w] = "beat"]
    /\ UNCHANGED <<kernelVars, mainVars, poolVars, sock, buf, isnew, live, msgs, beat, td,
                   robbed>>
    /\ bytes' = Remembered

\* ChangeHeartBeatPacketTime: refreshes the entry, or makes a new one.
ChangeHeartBeatPacketTime(w) ==
    /\ pc[w] = "beat" /\ ~Sweeping
    /\ beat' = beat \cup {sock[w]}
    /\ pc' = [pc EXCEPT ![w] = "peek"]
    /\ UNCHANGED <<kernelVars, mainVars, poolVars, sock, buf, isnew, bufVars, td, ghostVars>>

\* The socket is given back without a look at what else has come.
PeekNothing(w) ==
    /\ pc[w] = "peek"
    /\ pc' = [pc EXCEPT ![w] = "release"]
    /\ UNCHANGED <<kernelVars, mainVars, poolVars, sock, buf, isnew, bufVars, beat, td,
                   ghostVars>>

\* RECV_MSG_FINISH: recv with MSG_PEEK decides what becomes of the socket.
Peek(w) ==
    LET f == sock[w] IN
    /\ pc[w] = "peek"
    /\ IF conn[f] # 0 /\ unread[f] > 0
       THEN pc' = [pc EXCEPT ![w] = "releaseAgain"] /\ UNCHANGED td
       ELSE IF conn[f] # 0 /\ ~fin[f]
       THEN pc' = [pc EXCEPT ![w] = "release"] /\ UNCHANGED td
       ELSE pc' = [pc EXCEPT ![w] = "teardown"] /\ Begin(w, f)
    /\ UNCHANGED <<kernelVars, mainVars, poolVars, sock, buf, isnew, bufVars, beat, ghostVars>>

\* The socket is forgotten before it is put back in the queue.
ReleaseAndForget(w) ==
    /\ pc[w] \in {"release", "releaseAgain"}
    /\ claims' = claims \ {sock[w]}
    /\ sock' = [sock EXCEPT ![w] = None]
    /\ pc' = [pc EXCEPT ![w] = IF pc[w] = "release" THEN "start" ELSE "requeue"]
    /\ UNCHANGED <<kernelVars, mainVars, queue, qlock, waiters, buf, isnew, bufVars, beat, td,
                   ghostVars>>

\* DelTmpClientSockFromHashtable by the worker that is done with the socket.
Release(w) ==
    /\ pc[w] \in {"release", "releaseAgain"}
    /\ claims' = claims \ {sock[w]}
    /\ robbed' = Rob(w, sock[w]) \ {w}
    /\ IF pc[w] = "release"
       THEN /\ pc' = [pc EXCEPT ![w] = "start"]
            /\ sock' = [sock EXCEPT ![w] = None]
       ELSE pc' = [pc EXCEPT ![w] = "requeue"] /\ sock' = sock
    /\ UNCHANGED <<kernelVars, mainVars, queue, qlock, waiters, buf, isnew, bufVars,
                   beat, td, victims>>

\* More data: the socket goes back to the end of the queue, then a thread is signalled.
Requeue(w) ==
    /\ pc[w] = "requeue"
    /\ queue' = Append(queue, sock[w])
    /\ sock' = [sock EXCEPT ![w] = None]
    /\ pc' = [pc EXCEPT ![w] = "signal"]
    /\ UNCHANGED <<kernelVars, mainVars, qlock, waiters, claims, buf, isnew, bufVars,
                   beat, td, ghostVars>>

WorkerSignal(w) ==
    /\ pc[w] = "signal"
    /\ waiters' \in Signalled
    /\ pc' = [pc EXCEPT ![w] = "start"]
    /\ UNCHANGED <<kernelVars, mainVars, queue, qlock, claims, sock, buf, isnew, bufVars,
                   beat, td, ghostVars>>

(***************************************************************************)
(* The teardown of a connection, one call at a time.                        *)
(***************************************************************************)
\* HeartBeatDetectThread finds an entry that has been silent for too long; how long a
\* client stays silent is the client's choice.
Expire(d, f) ==
    /\ d \in Detectors /\ td[d] = Idle /\ f \in beat
    /\ Begin(d, f)
    /\ UNCHANGED <<kernelVars, mainVars, poolVars, workerVars, bufVars, beat, ghostVars>>

\* SndMsgToClientThread: SendClientMsg failed, or the message was
\* NOTIFY_DISCONNECT_WITHCLIENT_MSG; the descriptor comes from a response that may be old.
SendFailed(s, f) ==
    /\ s \in Senders /\ td[s] = Idle /\ nconn > 0
    /\ Begin(s, f)
    /\ UNCHANGED <<kernelVars, mainVars, poolVars, workerVars, bufVars, beat, ghostVars>>

\* CheckTimeoutMsg: the error packet for a timed out request could not be sent.
TimeoutSendFailed(k, f) ==
    /\ k \in Checkers /\ td[k] = Idle /\ nconn > 0
    /\ conn[f] = 0 \/ fin[f]
    /\ Begin(k, f)
    /\ UNCHANGED <<kernelVars, mainVars, poolVars, workerVars, bufVars, beat, ghostVars>>

\* The next call of the script that thread a executes.
Calling(a, call) == td[a].at > 0 /\ Script(a)[td[a].at] = call

\* The call is made; the thread is done after the last one.
Advance(a) ==
    IF td[a].at < Calls
    THEN td' = [td EXCEPT ![a].at = @ + 1] /\ UNCHANGED <<pc, sock>>
    ELSE /\ td' = [td EXCEPT ![a] = Idle]
         /\ pc' = IF a \in Workers THEN [pc EXCEPT ![a] = "start"] ELSE pc
         /\ sock' = IF a \in Workers THEN [sock EXCEPT ![a] = None] ELSE sock

\* History: the descriptor stands for another connection than when the teardown began.
Strays(a) ==
    LET c == conn[td[a].fd] IN
    IF c # 0 /\ c # td[a].conn THEN victims \cup {c} ELSE victims

\* DelSockEventFromepoll
DelSockEvent(a) ==
    LET f == td[a].fd IN
    /\ Calling(a, "epoll") /\ Advance(a)
    /\ epoll' = epoll \ {f} /\ ready' = ready \ {f}
    /\ victims' = Strays(a)
    /\ UNCHANGED <<conn, nconn, unread, taken, fin, mainVars, poolVars, buf, isnew, bufVars,
                   beat, robbed>>

\* DelClientSockFromQueue removes the entries of the socket one by one, first to last,
\* without queue_mutex.
DelClientSockFromQueue(a) ==
    LET f == td[a].fd
        entries == {i \in 1..Len(queue) : queue[i] = f}
    IN
    /\ Calling(a, "queue")
    /\ \/ entries = {} /\ Advance(a) /\ queue' = queue
       \/ \E i \in entries :
            /\ \A j \in entries : i <= j
            /\ queue' = Without(queue, i)
            /\ UNCHANGED <<td, pc, sock>>
    /\ victims' = Strays(a)
    /\ UNCHANGED <<kernelVars, mainVars, qlock, waiters, claims, buf, isnew, bufVars, beat,
                   robbed>>

\* DelTmpClientSockFromHashtable, whoever made the claim.
DelTmpClientSock(a) ==
    LET f == td[a].fd IN
    /\ Calling(a, "claim") /\ Advance(a)
    /\ claims' = claims \ {f}
    /\ robbed' = Rob(a, f)
    /\ victims' = Strays(a)
    /\ UNCHANGED <<kernelVars, mainVars, queue, qlock, waiters, buf, isnew, bufVars, beat>>

\* DelClientMsgBufFromHash frees the buffer of the socket, in use or not.
DelClientMsgBuf(a) ==
    LET f == td[a].fd IN
    /\ Calling(a, "store") /\ Advance(a)
    /\ live' = live \ ({store[f]} \ {None})
    /\ store' = [store EXCEPT ![f] = None]
    /\ robbed' = Rob(a, f)
    /\ victims' = Strays(a)
    /\ UNCHANGED <<kernelVars, mainVars, poolVars, buf, isnew, msgs, beat>>
    /\ bytes' = Remembered

\* DeleteHeartbeatDetectItem, or the unlinking at the end of the detector's branch.
DeleteHeartbeatDetectItem(a) ==
    LET f == td[a].fd IN
    /\ Calling(a, "beat") /\ Advance(a)
    /\ beat' = beat \ {f}
    /\ victims' = Strays(a)
    /\ UNCHANGED <<kernelVars, mainVars, poolVars, buf, isnew, bufVars, robbed>>

\* close: the kernel drops the registration and may hand the descriptor out again.
CloseSock(a) ==
    LET f == td[a].fd IN
    /\ Calling(a, "close") /\ Advance(a)
    /\ conn' = [conn EXCEPT ![f] = 0]
    /\ unread' = [unread EXCEPT ![f] = 0]
    /\ taken' = [taken EXCEPT ![f] = 0]
    /\ fin' = [fin EXCEPT ![f] = FALSE]
    /\ epoll' = epoll \ {f} /\ ready' = ready \ {f}
    /\ robbed' = Rob(a, f)
    /\ victims' = Strays(a)
    /\ UNCHANGED <<nconn, mainVars, poolVars, buf, isnew, bufVars, beat>>

TeardownStep(a) ==
    \/ DelSockEvent(a) \/ DelClientSockFromQueue(a) \/ DelTmpClientSock(a)
    \/ DelClientMsgBuf(a) \/ DeleteHeartbeatDetectItem(a) \/ CloseSock(a)

\* The consumer of g_msg_queue takes a message, forwards it and frees it.
Forward ==
    /\ msgs # <<>>
    /\ msgs' = Tail(msgs)
    /\ live' = live \ {Head(msgs)}
    /\ UNCHANGED <<kernelVars, mainVars, poolVars, workerVars, store, beat, td, ghostVars>>
    /\ bytes' = Remembered

(***************************************************************************)
(* The system.                                                              *)
(***************************************************************************)
Clients == \E f \in Fds : ClientSend(f) \/ ClientClose(f)

Main ==
    \/ EpollWait \/ MainSignal \/ Register \/ InsertHeartbeatDetectItem \/ RefreshHeartbeat
    \/ \E f \in Fds : Enqueue(f) \/ AcceptConn(f)

Worker(w) ==
    \/ LockQueue(w) \/ FindEmpty(w) \/ FindNone(w) \/ CondWait(w) \/ WakeUp(w)
    \/ \E i \in 1..Len(queue) : ClaimSock(w, i)
    \/ Fetch(w) \/ RecvPiece(w) \/ RecvNothing(w) \/ RecvError(w)
    \/ InsertClientMsgBufToHash(w) \/ PutMessageToQueue(w) \/ RemoveMsgBuf(w)
    \/ ChangeHeartBeatPacketTime(w) \/ Peek(w)
    \/ Release(w) \/ Requeue(w) \/ WorkerSignal(w)
    \/ TeardownStep(w)

Closer(k) ==
    \/ \E f \in Fds : Expire(k, f) \/ SendFailed(k, f) \/ TimeoutSendFailed(k, f)
    \/ TeardownStep(k)

Next == Clients \/ Main \/ Forward \/ (\E w \in Workers : Worker(w)) \/ (\E k \in Closers : Closer(k))

Spec == Init /\ [][Next]_vars

\* Every thread that can go on eventually does; the mutexes are granted fairly; a
\* sweep of the detector visits every entry, and an entry nobody refreshes grows old.
Fairness ==
    /\ SF_vars(Main) /\ WF_vars(Forward)
    /\ \A w \in Workers : SF_vars(Worker(w))
    /\ \A k \in Closers : WF_vars(TeardownStep(k))
    /\ \A d \in Detectors, f \in Fds : SF_vars(Expire(d, f))

FairSpec == Spec /\ Fairness

-----------------------------------------------------------------------------
(***************************************************************************)
(* Properties.                                                              *)
(***************************************************************************)

\* A claim in g_tmp_clientsock_hash always belongs to a worker that will still delete it:
\* no interleaving of workers and teardowns leaves a socket claimed for good, which
\* would make every worker skip it (CLIENT_SOCK_EXIST) for ever.
ClaimsHeld == \A f \in claims : \E w \in Workers : HoldsClaim(w, f)

\* The workers that have an unbroken right to read from a descriptor.
Readers ==
    [f \in Fds |-> {w \in Workers : pc[w] \in Holding /\ sock[w] = f /\ w \notin robbed}]

\* What makes OneReader inductive: the readers are in the table of claims, so that a claim
\* HandleClientSock does not find means that nobody reads.
LockInv ==
    \A f \in Fds :
        /\ Readers[f] # {} => f \in claims
        /\ \A v, w \in Readers[f] : v = w

Lock == INSTANCE SockLock WITH readers <- Readers

\* The claims in g_tmp_clientsock_hash work as a lock per descriptor: whatever the
\* workers, the stale events and the teardowns do, a worker becomes the reader of a
\* descriptor only when it has no other unbroken reader.
ClaimsAreLocks == Lock!Spec

\* Two workers read from one socket at the same time only after another thread has
\* deleted the claim of one of them: HandleClientSock by itself lets one worker in.
OneReader ==
    \A v, w \in Workers :
        (v # w /\ pc[v] \in Holding /\ pc[w] \in Holding /\ sock[v] = sock[w])
        => v \in robbed \/ w \in robbed

\* A worker that no other thread has robbed and whose claim nobody else has as well.
Alone(w) == w \notin robbed /\ \A v \in Workers \ {w} : ~HoldsClaim(v, sock[w])

\* The buffer a worker fills is allocated as long as the worker is alone with its socket,
\* whatever the teardowns of other threads left in g_msgbuf_hashtable before it came.
BuffersLive == \A w \in Workers : (buf[w] # None /\ Alone(w)) => buf[w] \in live

\* Pieces of one connection, consecutive, from a message boundary on.
Aligned(p) ==
    /\ p # <<>> => (p[1][2] - 1) % MsgPieces = 0
    /\ \A i \in 1..Len(p) : p[i] = <<p[1][1], p[1][2] + i - 1>>

\* What is handed to the service side is exactly one message of one client, as long as its
\* connections are older than the first one that a thread with no business there meddled
\* with: what such a thread left in g_msgbuf_hashtable is continued by the next connection
\* with the same descriptor.
MessagesWhole ==
    \A i \in 1..Len(msgs) :
        LET p == bytes[msgs[i]] IN
        (\A j \in 1..Len(p) : \A c \in victims : p[j][1] < c) => Len(p) = MsgPieces /\ Aligned(p)

\* A message in g_msg_queue is in allocated memory, with the same reservation.
MessagesLive ==
    \A i \in 1..Len(msgs) :
        (\A j \in 1..Len(bytes[msgs[i]]) : bytes[msgs[i]][j][1] \notin victims)
        => msgs[i] \in live

\* A worker still to read from f, or to put it back in the queue.
WillLook(w, f) ==
    /\ sock[w] = f
    /\ \/ pc[w] \in {"fetch", "recv", "put", "remove", "beat", "peek", "releaseAgain", "requeue"}
       \/ (pc[w] = "insert" /\ Complete(buf[w]))

Tearing(f) == \E a \in Actors : td[a].fd = f

\* Edge-triggered epoll reports data once.  Data or a hang-up the server has not seen is
\* still on its way to a worker: reported, queued, or in the hands of one that looks again.
NothingForgotten ==
    \A f \in Fds :
        (conn[f] # 0 /\ conn[f] \notin victims /\ f # mfd /\ (unread[f] > 0 \/ fin[f]))
        => \/ f \in ready \cup batch
           \/ \E i \in 1..Len(queue) : queue[i] = f
           \/ \E w \in Workers : WillLook(w, f)
           \/ Tearing(f)

\* A connection that is up is registered in epoll and watched by the heartbeat
\* detector, or somebody is taking it down: nobody else ever reclaims a dead client.
EveryConnWatched ==
    \A f \in Fds :
        (conn[f] # 0 /\ conn[f] \notin victims /\ f # mfd)
        => Tearing(f) \/ (f \in epoll /\ f \in beat)

\* Somebody is awake, or about to be, to serve what is in the queue.
QueueServed ==
    (queue # <<>> /\ \A w \in Workers : pc[w] \in {"asleep", "asleepAgain"} /\ w \in waiters)
    => mpc = "signal" \/ batch # {}

\* A worker never keeps a socket for ever, however the other threads interleave.
ClaimsReleased == \A w \in Workers : pc[w] \in Holding ~> pc[w] = "start"

\* A connection whose client is gone is closed in the end, even when the signal that
\* should have woken a worker was lost: the heartbeat detector is the safety net.
DeadReclaimed ==
    \A f \in Fds, c \in 1..MaxConns :
        (conn[f] = c /\ fin[f]) ~> (conn[f] # c \/ c \in victims)

=============================================================================
