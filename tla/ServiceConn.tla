---------------------------- MODULE ServiceConn ----------------------------
(***************************************************************************)
(* One descriptor of a service server in thread-pool mode.                  *)
(*                                                                          *)
(* Every connection of an access server gets a resource (StThread_Resource) *)
(* with two queues, a receiver thread that fills stQueue_in, a pool of      *)
(* WorkThreads that answer into stQueue_out, and a sender thread that       *)
(* empties it.  The receiver or the sender that meets a dead socket raises  *)
(* the other's exit flag, waits until it has left, makes the workers leave, *)
(* destroys the queues, closes the socket and frees the resource.  The      *)
(* resource is found through a hash table keyed by the descriptor, which    *)
(* the kernel gives to the next connection as soon as it is closed.         *)
(*                                                                          *)
(* Memory that was freed keeps what it held until the end of a behaviour: a *)
(* thread left inside a freed resource goes on with it.                     *)
(***************************************************************************)
EXTENDS Integers, FiniteSets

CONSTANTS
    Workers,   \* the threads of a connection's pool (nMin_thread_num)
    Receiver, Sender, \* the two threads of CreateSndRecvThread
    MaxConns,  \* bound: connections accepted in a behaviour
    MaxMsgs,   \* bound: messages the access servers send in a behaviour
    QueueCap,  \* capacity of either queue
    Hasty      \* whether an access server may hang up during the set-up of its connection

ASSUME ServiceConnAssumption ==
    /\ Receiver # Sender /\ {Receiver, Sender} \cap Workers = {}
    /\ MaxConns \in Nat /\ MaxMsgs \in Nat /\ QueueCap \in Nat \ {0}
    /\ Hasty \in BOOLEAN

Threads == Workers \cup {Receiver, Sender}
Conns == 1..MaxConns
Ends == {Receiver, Sender}

VARIABLES
    sock,      \* the connection the descriptor stands for, 0 if it is closed
    nconn,     \* connections accepted so far; the last one is main's
    gone,      \* connections whose access server has closed or died
    sent,      \* messages sent by the access servers so far
    arrived,   \* [Conns -> messages in the kernel's receive buffer]
    table,     \* g_save_threadres_hash: the resource under the descriptor, or 0
    mpc,       \* program counter of RunThreadPoolModeServer
    ids,       \* [Conns -> threads whose thread_id is set in the resource]
    exit,      \* [Conns -> threads whose bIs_thread_exit is TRUE]
    left,      \* [Conns -> threads whose enThread_status is THREAD_EXIT]
    qin, qout, \* [Conns -> length of stQueue_in, stQueue_out]
    destroyed, \* resources whose queues and pThread_info are gone
    freed,     \* resources freed
    pc,        \* [Conns \X Threads -> program counter]
    res,       \* [Conns \X Threads -> pThread_resource, 0 if NULL]
    awaits,    \* ends that found the thread_id of their peer set
    early,     \* history: connections that failed before main had set them up
    robbed     \* history: connections a thread of another connection meddled with, or
               \* whose insertion a deletion of the entry came between

kernelVars == <<sock, nconn, gone, sent, arrived>>
resVars == <<ids, exit, left, qin, qout, destroyed, freed>>
threadVars == <<pc, res, awaits>>
ghostVars == <<early, robbed>>
vars == <<kernelVars, table, mpc, resVars, threadVars, ghostVars>>

\* From the first failed call of an end to the last call of its teardown.
Teardown == {"signal", "flag", "id", "look", "peer", "stop", "poll", "destroy", "close", "del"}
PCs == Teardown \cup {"none", "start", "loop", "recv", "failed", "doze", "asleep",
                      "woken", "send", "work", "leave", "end"}
Inserting == {"insert", "get", "replace"}
SetupPCs == Inserting \cup {"spawn", "pool", "pubR", "pubS"}

TypeOK ==
    /\ sock \in 0..MaxConns /\ nconn \in 0..MaxConns /\ table \in 0..MaxConns
    /\ mpc \in SetupPCs \cup {"accept"}
    /\ gone \subseteq Conns /\ destroyed \subseteq Conns /\ freed \subseteq Conns
    /\ early \subseteq Conns /\ robbed \subseteq Conns
    /\ sent \in 0..MaxMsgs /\ arrived \in [Conns -> 0..MaxMsgs]
    /\ qin \in [Conns -> 0..QueueCap] /\ qout \in [Conns -> 0..QueueCap]
    /\ ids \in [Conns -> SUBSET Threads] /\ exit \in [Conns -> SUBSET Threads]
    /\ left \in [Conns -> SUBSET Threads]
    /\ pc \in [Conns \X Threads -> PCs] /\ res \in [Conns \X Threads -> 0..MaxConns]
    /\ awaits \subseteq Conns \X Ends

Init ==
    /\ sock = 0 /\ nconn = 0 /\ table = 0 /\ mpc = "accept"
    /\ gone = {} /\ destroyed = {} /\ freed = {} /\ early = {} /\ robbed = {}
    /\ sent = 0 /\ arrived = [c \in Conns |-> 0]
    /\ qin = [c \in Conns |-> 0] /\ qout = [c \in Conns |-> 0]
    /\ ids = [c \in Conns |-> {}] /\ exit = [c \in Conns |-> {}]
    /\ left = [c \in Conns |-> {}]
    /\ pc = [x \in Conns \X Threads |-> "none"]
    /\ res = [x \in Conns \X Threads |-> 0]
    /\ awaits = {}

(***************************************************************************)
(* Condition variables and queue mutexes.                                   *)
(***************************************************************************)
\* The threads ts that sleep on a condition of resource r.
Sleepers(r, ts) == {x \in Conns \X ts : res[x] = r /\ pc[x] = "asleep"}

\* pthread_cond_signal: at most one sleeper wakes up; x goes on at label l.
SignalAndGoto(r, ts, x, l) ==
    IF Sleepers(r, ts) = {}
    THEN pc' = [pc EXCEPT ![x] = l]
    ELSE \E y \in Sleepers(r, ts) : pc' = [pc EXCEPT ![x] = l, ![y] = "woken"]

\* The mutex of the queue the threads ts take from: held from the test of the
\* queue to the wait, and from the status of a leaving thread to its unlock.
Unlocked(r, ts) == \A x \in Conns \X ts : ~(res[x] = r /\ pc[x] \in {"doze", "leave"})

Goto(x, l) == pc' = [pc EXCEPT ![x] = l]

\* The connection k, unless it is connection c itself or none.
Strange(c, k) == {k} \ {0, c}

(***************************************************************************)
(* The access server at the other end.                                      *)
(***************************************************************************)
PeerSends(c) ==
    /\ c = sock /\ c \notin gone /\ sent < MaxMsgs
    /\ sent' = sent + 1
    /\ arrived' = [arrived EXCEPT ![c] = @ + 1]
    /\ UNCHANGED <<sock, nconn, gone, table, mpc, resVars, threadVars, ghostVars>>

PeerGone(c) ==
    /\ c \in 1..nconn /\ c \notin gone
    /\ Hasty \/ c # nconn \/ mpc = "accept"
    /\ gone' = gone \cup {c}
    /\ UNCHANGED <<sock, nconn, sent, arrived, table, mpc, resVars, threadVars, ghostVars>>

(***************************************************************************)
(* RunThreadPoolModeServer: the set-up of connection nconn.                 *)
(***************************************************************************)
\* T_Accept, with the descriptor that was closed last.
Accept ==
    /\ mpc = "accept" /\ sock = 0 /\ nconn < MaxConns
    /\ nconn' = nconn + 1 /\ sock' = nconn + 1
    /\ mpc' = "insert"
    /\ UNCHANGED <<gone, sent, arrived, table, resVars, threadVars, ghostVars>>

\* InsertThreadResourceToHash, in three critical sections: the insertion fails
\* with HASH_SAMEKEY_EXIST where there is an entry under the descriptor.
HashInsert ==
    /\ mpc = "insert"
    /\ IF table = 0
       THEN table' = nconn /\ mpc' = "spawn"
       ELSE mpc' = "get" /\ UNCHANGED table
    /\ UNCHANGED <<kernelVars, resVars, threadVars, ghostVars>>

\* The entry may be deleted by now: the resource is not listed then, and the
\* set-up goes on.
HashGetItem ==
    /\ mpc = "get"
    /\ mpc' = IF table = 0 THEN "spawn" ELSE "replace"
    /\ UNCHANGED <<kernelVars, table, resVars, threadVars, ghostVars>>

\* The item keeps the resource that is freed.
ReplaceNothing ==
    /\ mpc = "replace"
    /\ freed' = freed \cup ({table} \ {0})
    /\ mpc' = "spawn"
    /\ UNCHANGED <<kernelVars, table, ids, exit, left, qin, qout, destroyed, threadVars,
                   ghostVars>>

\* The resource found is freed and replaced.  An entry deleted since the look is
\* memory that was given back: the write lists nothing.
ReplaceResource ==
    /\ mpc = "replace"
    /\ freed' = freed \cup ({table} \ {0})
    /\ table' = IF table = 0 THEN 0 ELSE nconn
    /\ mpc' = "spawn"
    /\ UNCHANGED <<kernelVars, ids, exit, left, qin, qout, destroyed, threadVars, ghostVars>>

\* CreateSndRecvThread.
SpawnEnds ==
    /\ mpc = "spawn"
    /\ pc' = [x \in Conns \X Threads |->
                IF x \in {nconn} \X Ends THEN "start" ELSE pc[x]]
    /\ mpc' = "pool"
    /\ UNCHANGED <<kernelVars, table, resVars, res, awaits, ghostVars>>

\* CreateThreadPool: without a resource under the descriptor it fails.  Then
\* DestroyQueues and DelThreadResFromHash find none either, and the descriptor is
\* closed.
CreatePool ==
    /\ mpc = "pool"
    /\ \/ /\ table # 0
          /\ ids' = [ids EXCEPT ![table] = @ \cup Workers]
          /\ pc' = [x \in Conns \X Threads |->
                      IF x \in {nconn} \X Workers THEN "start" ELSE pc[x]]
          /\ mpc' = "pubR"
          /\ UNCHANGED sock
       \/ /\ table = 0
          /\ sock' = 0
          /\ mpc' = "accept"
          /\ UNCHANGED <<ids, pc>>
    /\ UNCHANGED <<nconn, gone, sent, arrived, table, exit, left, qin, qout, destroyed,
                   freed, res, awaits, ghostVars>>

\* The thread ids are written, the flags and the status reset, once the threads
\* already run.
Publish(t, here, next) ==
    /\ mpc = here
    /\ ids' = [ids EXCEPT ![nconn] = @ \cup {t}]
    /\ exit' = [exit EXCEPT ![nconn] = @ \ {t}]
    /\ left' = [left EXCEPT ![nconn] = @ \ {t}]
    /\ mpc' = next
    /\ UNCHANGED <<kernelVars, table, qin, qout, destroyed, freed, threadVars, ghostVars>>

Main ==
    \/ HashInsert \/ HashGetItem \/ ReplaceResource \/ SpawnEnds \/ CreatePool
    \/ Publish(Receiver, "pubR", "pubS") \/ Publish(Sender, "pubS", "accept")

(***************************************************************************)
(* The receiver and the sender up to a failed call.                         *)
(***************************************************************************)
\* The resource is looked up by descriptor; without one the end closes the
\* descriptor and leaves.
StartEnd(c, t) ==
    /\ pc[<<c, t>>] = "start"
    /\ res' = [res EXCEPT ![<<c, t>>] = table]
    /\ IF table = 0
       THEN Goto(<<c, t>>, "end") /\ sock' = 0 /\ robbed' = robbed \cup Strange(c, sock)
       ELSE Goto(<<c, t>>, "loop") /\ robbed' = robbed \cup Strange(c, table) /\ UNCHANGED sock
    /\ UNCHANGED <<nconn, gone, sent, arrived, table, mpc, resVars, awaits, early>>

Leave(c, t) ==
    /\ left' = [left EXCEPT ![res[<<c, t>>]] = @ \cup {t}]
    /\ Goto(<<c, t>>, "end")
    /\ UNCHANGED <<kernelVars, table, mpc, ids, exit, qin, qout, destroyed, freed, res,
                   awaits, ghostVars>>

RecvLoop(c) ==
    /\ pc[<<c, Receiver>>] = "loop"
    /\ IF Receiver \in exit[res[<<c, Receiver>>]]
       THEN Leave(c, Receiver)
       ELSE /\ Goto(<<c, Receiver>>, "recv")
            /\ UNCHANGED <<kernelVars, table, mpc, resVars, res, awaits, ghostVars>>

\* A receiver that puts messages into a full queue.
ReceiveUnbounded(c) ==
    /\ pc[<<c, Receiver>>] = "recv" /\ sock # 0 /\ arrived[sock] > 0
    /\ arrived' = [arrived EXCEPT ![sock] = @ - 1]
    /\ LET r == res[<<c, Receiver>>] IN
       /\ qin' = [qin EXCEPT ![r] = @ + 1]
       /\ SignalAndGoto(r, Workers, <<c, Receiver>>, "loop")
    /\ UNCHANGED <<sock, nconn, gone, sent, table, mpc, ids, exit, left, qout, destroyed,
                   freed, res, awaits, ghostVars>>

\* RecvAccessSrvMsg, PutMsgToSeqQueue (a full queue drops the message) and the
\* signal for a worker, given without the mutex of the queue.
Receive(c) ==
    /\ pc[<<c, Receiver>>] = "recv" /\ sock # 0 /\ arrived[sock] > 0
    /\ arrived' = [arrived EXCEPT ![sock] = @ - 1]
    /\ LET r == res[<<c, Receiver>>] IN
       /\ qin' = [qin EXCEPT ![r] = IF @ < QueueCap THEN @ + 1 ELSE @]
       /\ SignalAndGoto(r, Workers, <<c, Receiver>>, "loop")
    /\ UNCHANGED <<sock, nconn, gone, sent, table, mpc, ids, exit, left, qout, destroyed,
                   freed, res, awaits, ghostVars>>

SocketDead == sock = 0 \/ sock \in gone

RecvFails(c) ==
    /\ pc[<<c, Receiver>>] = "recv" /\ SocketDead
    /\ Goto(<<c, Receiver>>, "failed")
    /\ UNCHANGED <<kernelVars, table, mpc, resVars, res, awaits, ghostVars>>

\* The sender: test of the queue, and the message taken from it.
SendLoop(c) ==
    LET r == res[<<c, Sender>>] IN
    /\ pc[<<c, Sender>>] = "loop" /\ Unlocked(r, {Sender})
    /\ IF qout[r] = 0
       THEN Goto(<<c, Sender>>, "doze") /\ UNCHANGED qout
       ELSE Goto(<<c, Sender>>, "send") /\ qout' = [qout EXCEPT ![r] = @ - 1]
    /\ UNCHANGED <<kernelVars, table, mpc, ids, exit, left, qin, destroyed, freed, res,
                   awaits, ghostVars>>

Sends(c) ==
    /\ pc[<<c, Sender>>] = "send"
    /\ \/ sock # 0 /\ Goto(<<c, Sender>>, "loop")
       \/ SocketDead /\ Goto(<<c, Sender>>, "failed")
    /\ UNCHANGED <<kernelVars, table, mpc, resVars, res, awaits, ghostVars>>

\* pthread_cond_wait, for the sender and the workers.
Sleep(c, t) ==
    /\ pc[<<c, t>>] = "doze" /\ Goto(<<c, t>>, "asleep")
    /\ UNCHANGED <<kernelVars, table, mpc, resVars, res, awaits, ghostVars>>

\* pthread_cond_wait has returned: the exit flag first, then the queue again.
\* The status is written before the mutex of the queue is unlocked.
Woken(c, t, ts) ==
    LET r == res[<<c, t>>] IN
    /\ pc[<<c, t>>] = "woken" /\ Unlocked(r, ts)
    /\ IF t \in exit[r]
       THEN left' = [left EXCEPT ![r] = @ \cup {t}] /\ Goto(<<c, t>>, "leave")
       ELSE Goto(<<c, t>>, "loop") /\ UNCHANGED left
    /\ UNCHANGED <<kernelVars, table, mpc, ids, exit, qin, qout, destroyed, freed, res,
                   awaits, ghostVars>>

Unlock(c, t) ==
    /\ pc[<<c, t>>] = "leave" /\ Goto(<<c, t>>, "end")
    /\ UNCHANGED <<kernelVars, table, mpc, resVars, res, awaits, ghostVars>>

(***************************************************************************)
(* The teardown, by the receiver or the sender.                             *)
(***************************************************************************)
Peer(t) == IF t = Receiver THEN Sender ELSE Receiver

\* After a failed call: an end that was told to exit does so, any other one
\* begins to tear the connection down.
Failed(c, t) ==
    /\ pc[<<c, t>>] = "failed"
    /\ IF t \in exit[res[<<c, t>>]]
       THEN Leave(c, t)
       ELSE /\ Goto(<<c, t>>, IF t = Receiver THEN "signal" ELSE "flag")
            /\ early' = IF c = nconn /\ mpc # "accept" THEN early \cup {c} ELSE early
            /\ UNCHANGED <<kernelVars, table, mpc, resVars, res, awaits, robbed>>

\* The receiver signals the sender before it raises the sender's flag.
SignalSender(c) ==
    /\ pc[<<c, Receiver>>] = "signal"
    /\ SignalAndGoto(res[<<c, Receiver>>], {Sender}, <<c, Receiver>>, "flag")
    /\ UNCHANGED <<kernelVars, table, mpc, resVars, res, awaits, ghostVars>>

RaiseFlag(c, t) ==
    /\ pc[<<c, t>>] = "flag"
    /\ exit' = [exit EXCEPT ![res[<<c, t>>]] = @ \cup {Peer(t)}]
    /\ Goto(<<c, t>>, "id")
    /\ UNCHANGED <<kernelVars, table, mpc, ids, left, qin, qout, destroyed, freed, res,
                   awaits, ghostVars>>

\* An end that does not read its peer's thread id and never waits for it.
ReadNoId(c, t) ==
    /\ pc[<<c, t>>] = "id"
    /\ Goto(<<c, t>>, "look")
    /\ UNCHANGED <<kernelVars, table, mpc, resVars, res, awaits, ghostVars>>

ReadId(c, t) ==
    /\ pc[<<c, t>>] = "id"
    /\ awaits' = IF Peer(t) \in ids[res[<<c, t>>]] THEN awaits \cup {<<c, t>>} ELSE awaits
    /\ Goto(<<c, t>>, "look")
    /\ UNCHANGED <<kernelVars, table, mpc, resVars, res, ghostVars>>

\* DestroyQueues looks the resource up again, and works on what it finds.
Lookup(c, t) ==
    /\ pc[<<c, t>>] = "look"
    /\ res' = [res EXCEPT ![<<c, t>>] = table]
    /\ robbed' = robbed \cup Strange(c, table)
    /\ Goto(<<c, t>>, IF table = 0 THEN "close"
                      ELSE IF <<c, t>> \in awaits THEN "peer" ELSE "stop")
    /\ UNCHANGED <<kernelVars, table, mpc, resVars, awaits, early>>

\* A receiver that trusts in the signal it gave before it raised the flag.
AwaitPeerSilently(c, t) ==
    /\ pc[<<c, t>>] = "peer"
    /\ Goto(<<c, t>>, IF Peer(t) \in left[res[<<c, t>>]] THEN "stop" ELSE "peer")
    /\ UNCHANGED <<kernelVars, table, mpc, resVars, res, awaits, ghostVars>>

\* A round of the wait for the other end, woken up if it is the sender.
AwaitPeer(c, t) ==
    LET r == res[<<c, t>>]
        l == IF Peer(t) \in left[r] THEN "stop" ELSE "peer"
    IN
    /\ pc[<<c, t>>] = "peer"
    /\ IF t = Receiver THEN SignalAndGoto(r, {Sender}, <<c, t>>, l) ELSE Goto(<<c, t>>, l)
    /\ UNCHANGED <<kernelVars, table, mpc, resVars, res, awaits, ghostVars>>

\* The workers' flags are raised one by one, each with a signal.
StopWorkers(c, t) ==
    LET r == res[<<c, t>>]
        unflagged == (ids[r] \cap Workers) \ exit[r]
    IN
    /\ pc[<<c, t>>] = "stop"
    /\ \/ \E w \in unflagged :
            /\ exit' = [exit EXCEPT ![r] = @ \cup {w}]
            /\ SignalAndGoto(r, Workers, <<c, t>>, "stop")
       \/ unflagged = {} /\ Goto(<<c, t>>, "poll") /\ UNCHANGED exit
    /\ UNCHANGED <<kernelVars, table, mpc, ids, left, qin, qout, destroyed, freed, res,
                   awaits, ghostVars>>

\* A poll that ends with the first worker found to have left.
AwaitOneWorker(c, t) ==
    LET r == res[<<c, t>>] IN
    /\ pc[<<c, t>>] = "poll"
    /\ IF ids[r] \cap Workers \cap left[r] # {}
       THEN Goto(<<c, t>>, "destroy")
       ELSE SignalAndGoto(r, Workers, <<c, t>>, "poll")
    /\ UNCHANGED <<kernelVars, table, mpc, resVars, res, awaits, ghostVars>>

\* A round of the poll of the workers' status.
AwaitWorkers(c, t) ==
    LET r == res[<<c, t>>] IN
    /\ pc[<<c, t>>] = "poll"
    /\ IF ids[r] \cap Workers \subseteq left[r]
       THEN Goto(<<c, t>>, "destroy")
       ELSE SignalAndGoto(r, Workers, <<c, t>>, "poll")
    /\ UNCHANGED <<kernelVars, table, mpc, resVars, res, awaits, ghostVars>>

DestroyQueues(c, t) ==
    /\ pc[<<c, t>>] = "destroy"
    /\ destroyed' = destroyed \cup {res[<<c, t>>]}
    /\ Goto(<<c, t>>, "close")
    /\ UNCHANGED <<kernelVars, table, mpc, ids, exit, left, qin, qout, freed, res, awaits,
                   ghostVars>>

Close(c, t) ==
    /\ pc[<<c, t>>] = "close"
    /\ sock' = 0
    /\ robbed' = robbed \cup Strange(c, sock)
    /\ Goto(<<c, t>>, "del")
    /\ UNCHANGED <<nconn, gone, sent, arrived, table, mpc, resVars, res, awaits, early>>

\* The new connection whose insertion has found an entry that is still there.
Overtaken == IF mpc \in {"get", "replace"} THEN {nconn} ELSE {}

\* The entry is deleted and its resource forgotten.
DelEntryOnly(c, t) ==
    /\ pc[<<c, t>>] = "del"
    /\ table' = 0
    /\ robbed' = robbed \cup Strange(c, table) \cup Overtaken
    /\ Goto(<<c, t>>, "end")
    /\ UNCHANGED <<kernelVars, mpc, resVars, res, awaits, early>>

\* DelThreadResFromHash frees whatever the descriptor leads to.
DelThreadRes(c, t) ==
    /\ pc[<<c, t>>] = "del"
    /\ freed' = freed \cup ({table} \ {0})
    /\ table' = 0
    /\ robbed' = robbed \cup Strange(c, table) \cup Overtaken
    /\ Goto(<<c, t>>, "end")
    /\ UNCHANGED <<kernelVars, mpc, ids, exit, left, qin, qout, destroyed, res, awaits, early>>

(***************************************************************************)
(* WorkThread.                                                              *)
(***************************************************************************)
\* A worker whose resource is not found, or does not list it, leaves at once.
StartWorker(c, w) ==
    /\ pc[<<c, w>>] = "start"
    /\ res' = [res EXCEPT ![<<c, w>>] = table]
    /\ Goto(<<c, w>>, IF table = c THEN "loop" ELSE "end")
    /\ UNCHANGED <<kernelVars, table, mpc, resVars, awaits, ghostVars>>

WorkerLoop(c, w) ==
    LET r == res[<<c, w>>] IN
    /\ pc[<<c, w>>] = "loop" /\ Unlocked(r, Workers)
    /\ IF qin[r] = 0
       THEN Goto(<<c, w>>, "doze") /\ UNCHANGED qin
       ELSE Goto(<<c, w>>, "work") /\ qin' = [qin EXCEPT ![r] = @ - 1]
    /\ UNCHANGED <<kernelVars, table, mpc, ids, exit, left, qout, destroyed, freed, res,
                   awaits, ghostVars>>

\* pProcessFunc may put an answer into stQueue_out and signal the sender.
Work(c, w) ==
    LET r == res[<<c, w>>] IN
    /\ pc[<<c, w>>] = "work"
    /\ \/ /\ Unlocked(r, {Sender})
          /\ qout' = [qout EXCEPT ![r] = IF @ < QueueCap THEN @ + 1 ELSE @]
          /\ SignalAndGoto(r, {Sender}, <<c, w>>, "loop")
       \/ Goto(<<c, w>>, "loop") /\ UNCHANGED qout
    /\ UNCHANGED <<kernelVars, table, mpc, ids, exit, left, qin, destroyed, freed, res,
                   awaits, ghostVars>>

End(c, t) ==
    \/ StartEnd(c, t) \/ Failed(c, t) \/ RaiseFlag(c, t) \/ ReadId(c, t) \/ Lookup(c, t)
    \/ AwaitPeer(c, t) \/ StopWorkers(c, t) \/ AwaitWorkers(c, t) \/ DestroyQueues(c, t)
    \/ Close(c, t) \/ DelThreadRes(c, t)

ReceiverStep(c) ==
    RecvLoop(c) \/ Receive(c) \/ RecvFails(c) \/ SignalSender(c) \/ End(c, Receiver)

SenderStep(c) ==
    SendLoop(c) \/ Sends(c) \/ Sleep(c, Sender) \/ Woken(c, Sender, {Sender})
    \/ Unlock(c, Sender) \/ End(c, Sender)

WorkerStep(c, w) ==
    StartWorker(c, w) \/ WorkerLoop(c, w) \/ Work(c, w) \/ Sleep(c, w)
    \/ Woken(c, w, Workers) \/ Unlock(c, w)

Next ==
    \/ Accept \/ Main
    \/ \E c \in Conns :
        \/ PeerSends(c) \/ PeerGone(c) \/ ReceiverStep(c) \/ SenderStep(c)
        \/ \E w \in Workers : WorkerStep(c, w)

Spec == Init /\ [][Next]_vars

\* Every thread runs; the sleep of two seconds in a round ends.
FairSpec ==
    /\ Spec
    /\ WF_vars(Main)
    /\ \A c \in Conns : WF_vars(ReceiverStep(c)) /\ WF_vars(SenderStep(c))
    /\ \A c \in Conns : \A w \in Workers : SF_vars(WorkerStep(c, w))

(***************************************************************************)
(* Properties                                                               *)
(***************************************************************************)
\* Connections that met neither a failure during their own set-up nor a thread
\* of another connection on the same descriptor.
Sound == (1..nconn) \ (early \cup robbed)

\* Threads between their start and their way out, a teardown of their own aside.
Inside(c, t) == pc[<<c, t>>] \notin Teardown \cup {"none", "leave", "end"}

\* Both ends tear the connection down at the same time.
Clash(c) == \A t \in Ends : pc[<<c, t>>] \in Teardown

\* When the queues and the pool of a connection are destroyed, and when its
\* resource is freed, its other threads have left their loops (DestroyQueues,
\* DelThreadResFromHash).  One that has reported THREAD_EXIT may still have the
\* mutex of a queue to unlock (SndMsgToAccessSrvThread, WorkThread), in memory that
\* is freed by then.
NobodyInside ==
    \A c \in Sound : c \in destroyed \cup freed => \A t \in Threads : ~Inside(c, t)

\* As long as an end of a connection may receive or send, the descriptor it uses
\* stands for this connection: no message goes to another access server (the
\* close in RecvAccessSrvMsgThread and SndMsgToAccessSrvThread).
SocketOwned ==
    \A c \in Sound : \A t \in Ends : Inside(c, t) => sock = c

\* A connection all threads of which have ended keeps neither its descriptor nor
\* its resource nor its place in the table.
NothingLeaks ==
    \A c \in Sound :
        (mpc = "accept" /\ \A t \in Threads : pc[<<c, t>>] = "end")
        => sock # c /\ table # c /\ c \in freed

\* A connection whose access server is gone is destroyed in the end, unless both
\* ends tear it down, which then wait for each other.
DestroyedInTheEnd ==
    \A c \in Conns :
        (c \in gone) ~> (c \notin Sound \/ c \in freed \/ Clash(c))

\* Sender and receiver never tear a connection down at the same time, as the
\* comment at the sender's test of its own flag has it.
OneDestroyer == \A c \in Sound : ~Clash(c)

\* A set-up goes on with the resource of its own connection: what CreateThreadPool
\* finds under the descriptor, and what is found there until the thread ids are
\* written, is that resource, though the old connection's entry was there before and
\* its threads still run (InsertThreadResourceToHash, RunThreadPoolModeServer).
SetupFinds == mpc \in {"spawn", "pool", "pubR", "pubS"} /\ nconn \in Sound => table = nconn
=============================================================================
