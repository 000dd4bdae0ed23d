------------------------ MODULE ServiceConn_proofs ------------------------
(***************************************************************************)
(* What holds of ServiceConn for every number of workers, connections and   *)
(* messages and every size of the queues, whether or not an access server   *)
(* hangs up while its connection is set up.                                 *)
(***************************************************************************)
EXTENDS ServiceConn, TLAPS

-----------------------------------------------------------------------------
(* What holds of every connection.                                            *)

\* No connection has got more messages than were sent.
Delivered == \A c \in Conns : arrived[c] =< sent

\* A thread that uses pThread_resource has one: NULL leads to the close or to the end.
HasResource ==
    \A c \in Conns, t \in Threads :
        /\ pc[<<c, t>>] \notin {"none", "start", "close", "del", "end"} => res[<<c, t>>] # 0
        /\ pc[<<c, t>>] \in {"none", "start"} => res[<<c, t>>] = 0

\* Resources, descriptor and table belong to connections that were accepted, and
\* during the set-up of a connection to that one or to none.
Known ==
    /\ sock =< nconn /\ table =< nconn
    /\ \A c \in Conns, t \in Threads : res[<<c, t>>] =< nconn
    /\ mpc # "accept" => nconn > 0 /\ sock \in {0, nconn}
    /\ mpc \in Inserting => table # nconn
    /\ mpc \in {"spawn", "pool", "pubR", "pubS"} => table \in {0, nconn}

\* Threads that were not created yet.
Unborn ==
    /\ \A c \in Conns, t \in Threads : c > nconn => pc[<<c, t>>] = "none"
    /\ mpc \in Inserting \cup {"spawn"} => \A t \in Threads : pc[<<nconn, t>>] = "none"
    /\ mpc = "pool" => \A w \in Workers : pc[<<nconn, w>>] = "none"

\* Connections that were not accepted yet.
Fresh ==
    \A c \in Conns : c > nconn =>
        c \notin destroyed \cup freed /\ ids[c] = {} /\ exit[c] = {} /\ left[c] = {}

Common == TypeOK /\ Delivered /\ HasResource /\ Known /\ Unborn /\ Fresh

-----------------------------------------------------------------------------
(* What holds of a sound connection.                                          *)

Running == {"loop", "recv", "failed", "doze", "asleep", "woken", "send", "work"}
Out == {"leave", "end"}

InSetup(c) == c = nconn /\ mpc # "accept"

\* During its set-up nobody has failed, flagged, left, closed or freed anything.
SetUp(c) ==
    InSetup(c) =>
        /\ exit[c] = {} /\ left[c] = {}
        /\ \A t \in Threads : pc[<<c, t>>] \in {"none", "start"} \cup Running
        /\ sock = c /\ c \notin destroyed \cup freed
        /\ mpc = "pool" => \A t \in Ends : pc[<<c, t>>] # "none"
        /\ mpc \in {"pubR", "pubS"} => \A t \in Threads : pc[<<c, t>>] # "none"
        /\ mpc \in {"pubR", "pubS"} => Workers \subseteq ids[c]
        /\ mpc = "pubS" => Receiver \in ids[c]

\* After it all the threads run and their ids are known.
Complete(c) ==
    ~InSetup(c) => Threads \subseteq ids[c] /\ \A t \in Threads : pc[<<c, t>>] # "none"

\* The threads of the connection use its resource, and nobody else does.
OwnResource(c) ==
    /\ \A t \in Threads : pc[<<c, t>>] \notin {"none", "start"} => res[<<c, t>>] = c
    /\ \A k \in Conns \ {c} : \A t \in Threads : res[<<k, t>>] = c => pc[<<k, t>>] = "end"

\* The resource is under the descriptor until it is freed, after the close.
Listed(c) ==
    /\ ~(c = nconn /\ mpc \in Inserting) => (table = c <=> c \notin freed)
    /\ c = nconn /\ mpc \in {"get", "replace"} => table # 0
    /\ c \in freed => sock # c

\* Who reports THREAD_EXIT is out of his loop.
LeftOut(c) == \A t \in left[c] : pc[<<c, t>>] \in Out

\* An end waits for its peer, whose id it knows, and then for all the workers.
Awaited(c) ==
    \A t \in Ends :
        /\ pc[<<c, t>>] \in {"look", "peer"} => <<c, t>> \in awaits
        /\ pc[<<c, t>>] \in {"stop", "poll", "destroy", "close", "del"} => pc[<<c, Peer(t)>>] \in Out
        /\ pc[<<c, t>>] \in {"destroy", "close", "del"} => \A w \in Workers : pc[<<c, w>>] \in Out
        /\ pc[<<c, t>>] = "del" => sock # c

\* Once the queues are gone, or the descriptor is closed, everybody else is out.
AllOut(c) ==
    /\ c \in destroyed => /\ \A w \in Workers : pc[<<c, w>>] \in Out
                          /\ \A t \in Ends : pc[<<c, t>>] \in Out \cup {"close", "del"}
    /\ sock # c => /\ \A w \in Workers : pc[<<c, w>>] \in Out
                   /\ \A t \in Ends : pc[<<c, t>>] \in Out \cup {"del"}

\* An end is told to exit, and leaves, only while its peer destroys the connection.
Relieved(c) ==
    \A t \in Ends :
        t \in exit[c] \/ pc[<<c, t>>] \in Out =>
            pc[<<c, Peer(t)>>] \in Teardown \ {"signal", "flag"} \/ c \in freed

Conn(c) ==
    /\ SetUp(c) /\ Complete(c) /\ OwnResource(c) /\ Listed(c)
    /\ LeftOut(c) /\ Awaited(c) /\ AllOut(c) /\ Relieved(c)

IInv == Common /\ \A c \in Sound : Conn(c)

-----------------------------------------------------------------------------
(* Steps of one thread.                                                       *)

Places == Conns \X Threads

\* Thread x goes on at label l; the others stay where they are, except that a
\* sleeper may be woken.
Moves(x, l) ==
    /\ pc' \in [Places -> PCs] /\ pc'[x] = l
    /\ \A c \in Conns, t \in Threads : <<c, t>> # x =>
           pc'[<<c, t>>] = pc[<<c, t>>] \/ (pc[<<c, t>>] = "asleep" /\ pc'[<<c, t>>] = "woken")

LEMMA Constants ==
    /\ MaxConns \in Nat /\ MaxMsgs \in Nat /\ QueueCap \in Nat \ {0}
    /\ Receiver # Sender /\ Receiver \notin Workers /\ Sender \notin Workers
    /\ Ends \subseteq Threads /\ Workers \subseteq Threads
    /\ Receiver \in Threads /\ Sender \in Threads /\ Ends = {Receiver, Sender}
    /\ \A t \in Ends : Peer(t) \in Ends /\ Peer(t) # t /\ Peer(Peer(t)) = t
    /\ 0 \notin Conns
BY ServiceConnAssumption DEF Ends, Threads, Conns, Peer

LEMMA Goes ==
    ASSUME pc \in [Places -> PCs], NEW x \in Places, NEW l \in PCs, Goto(x, l)
    PROVE  Moves(x, l)
BY DEF Goto, Moves, Places

\* Who signals does not sleep.
LEMMA Signals ==
    ASSUME pc \in [Places -> PCs], NEW x \in Places, NEW l \in PCs, pc[x] # "asleep",
           NEW ts \in SUBSET Threads, NEW r, SignalAndGoto(r, ts, x, l)
    PROVE  Moves(x, l)
<1>1. CASE Sleepers(r, ts) = {}
      BY <1>1 DEF SignalAndGoto, Moves, Places
<1>2. CASE Sleepers(r, ts) # {}
  <2>1. PICK y \in Sleepers(r, ts) : pc' = [pc EXCEPT ![x] = l, ![y] = "woken"]
        BY <1>2 DEF SignalAndGoto
  <2>2. y \in Places /\ pc[y] = "asleep" /\ y # x
        BY DEF Sleepers, Places
  <2>3. "woken" \in PCs
        BY DEF PCs
  <2>4. pc' \in [Places -> PCs] /\ pc'[x] = l
        BY <2>1, <2>2, <2>3
  <2> QED BY <2>1, <2>2, <2>4 DEF Moves, Places
<1> QED BY <1>1, <1>2

\* The labels of the program.
LEMMA Labels ==
    /\ Teardown \subseteq PCs /\ Running \subseteq PCs /\ Out \subseteq PCs
    /\ {"start", "none"} \subseteq PCs
BY DEF Teardown, PCs, Running, Out

\* The counts of messages keep to their bounds.
Counts ==
    /\ sent \in 0..MaxMsgs /\ arrived \in [Conns -> 0..MaxMsgs]
    /\ qin \in [Conns -> 0..QueueCap] /\ qout \in [Conns -> 0..QueueCap]
    /\ Delivered

\* Thread t of connection c takes a step to l: it changes only its own pThread_resource,
\* what belongs to that resource, and what is under the descriptor, where it robs the
\* connection the descriptor stands for.
Tame(c, t, l) ==
    /\ Moves(<<c, t>>, l) /\ pc[<<c, t>>] \notin {"none", "end"} /\ l \notin {"none", "start"}
    /\ UNCHANGED <<nconn, mpc, gone, ids>> /\ Counts'
    /\ sock' \in {sock, 0} /\ table' \in {table, 0}
    /\ res' = res \/ res' = [res EXCEPT ![<<c, t>>] = table]
    /\ l \in {"close", "del", "end"} \/ res'[<<c, t>>] # 0
    /\ freed' \in {freed, freed \cup ({table} \ {0})}
    /\ \/ destroyed' = destroyed
       \/ destroyed' = destroyed \cup {res[<<c, t>>]} /\ res[<<c, t>>] # 0
    /\ exit' \in [Conns -> SUBSET Threads] /\ left' \in [Conns -> SUBSET Threads]
    /\ \A d \in Conns \ {res[<<c, t>>]} : exit'[d] = exit[d] /\ left'[d] = left[d]
    /\ awaits' \subseteq Conns \X Ends /\ early' \subseteq Conns /\ robbed' \subseteq Conns
    /\ awaits \subseteq awaits' /\ early \subseteq early' /\ robbed \subseteq robbed'
    /\ sock' # sock => Strange(c, sock) \subseteq robbed'
    /\ table' # table \/ freed' # freed \/ (res' # res /\ l # "end")
           => Strange(c, table) \subseteq robbed'
    /\ table' # table => Overtaken \subseteq robbed'

\* Such a step keeps what holds of all connections.
LEMMA CommonStep ==
    ASSUME Common, NEW c \in Conns, NEW t \in Threads, NEW l \in PCs, Tame(c, t, l)
    PROVE  Common'
<1> USE DEF Tame
<1>1. c =< nconn /\ <<c, t>> \in Places /\ nconn \in Nat
      BY Constants DEF Common, TypeOK, Unborn, Places, Conns
<1>2. /\ table \in 0..MaxConns /\ table =< nconn
      /\ res[<<c, t>>] \in 0..MaxConns /\ res[<<c, t>>] =< nconn
      BY DEF Common, TypeOK, Known
<1>3. exit' \in [Conns -> SUBSET Threads] /\ left' \in [Conns -> SUBSET Threads]
      OBVIOUS
<1>4. /\ res' \in [Places -> 0..MaxConns]
      /\ \A d \in Conns, u \in Threads :
            /\ <<d, u>> # <<c, t>> => res'[<<d, u>>] = res[<<d, u>>]
            /\ res'[<<d, u>>] =< nconn
  <2>1. CASE res' = res
        BY <2>1 DEF Common, TypeOK, Known, Places
  <2>2. CASE res' = [res EXCEPT ![<<c, t>>] = table]
    <3>1. \A d \in Conns, u \in Threads :
              res'[<<d, u>>] = IF <<d, u>> = <<c, t>> THEN table ELSE res[<<d, u>>]
          BY <2>2, <1>1 DEF Common, TypeOK, Places
    <3> QED BY <2>2, <1>2, <3>1 DEF Common, TypeOK, Known, Places
  <2> QED BY <2>1, <2>2
<1>5. freed' \subseteq Conns /\ destroyed' \subseteq Conns
  <2>1. {table} \ {0} \subseteq Conns /\ (res[<<c, t>>] # 0 => res[<<c, t>>] \in Conns)
        BY <1>2, Constants DEF Conns
  <2> QED BY <2>1 DEF Common, TypeOK
<1>6. TypeOK'
  <2>1. /\ sock' \in 0..MaxConns /\ nconn' \in 0..MaxConns /\ table' \in 0..MaxConns
        /\ mpc' \in SetupPCs \cup {"accept"} /\ gone' \subseteq Conns
        /\ ids' \in [Conns -> SUBSET Threads] /\ pc' \in [Places -> PCs]
        BY Constants DEF Common, TypeOK, Moves
  <2> QED BY <1>3, <1>4, <1>5, <2>1 DEF TypeOK, Counts, Places
<1>7. HasResource'
  <2> SUFFICES ASSUME NEW d \in Conns, NEW u \in Threads
      PROVE  /\ pc'[<<d, u>>] \notin {"none", "start", "close", "del", "end"} => res'[<<d, u>>] # 0
             /\ pc'[<<d, u>>] \in {"none", "start"} => res'[<<d, u>>] = 0
      BY DEF HasResource
  <2>1. CASE <<d, u>> = <<c, t>>
        BY <2>1 DEF Moves
  <2>2. CASE <<d, u>> # <<c, t>>
        BY <2>2, <1>4 DEF Moves, Common, HasResource
  <2> QED BY <2>1, <2>2
<1>8. Known'
      BY <1>1, <1>2, <1>4, Constants DEF Common, TypeOK, Known
<1>9. Unborn'
  <2>1. \A d \in Conns, u \in Threads : pc[<<d, u>>] = "none" => pc'[<<d, u>>] = "none"
        BY DEF Moves
  <2>2. mpc # "accept" => nconn \in Conns
        BY DEF Common, TypeOK, Known, Conns
  <2> QED BY <2>1, <2>2, Constants DEF Inserting, Common, Unborn, TypeOK, SetupPCs
<1>10. Fresh'
  <2> SUFFICES ASSUME NEW d \in Conns, d > nconn
               PROVE  /\ d \notin destroyed' \cup freed'
                      /\ ids'[d] = {} /\ exit'[d] = {} /\ left'[d] = {}
      BY DEF Fresh
  <2>1. d # table /\ d # res[<<c, t>>]
        BY <1>1, <1>2 DEF Conns
  <2>2. exit'[d] = exit[d] /\ left'[d] = left[d]
        BY <2>1 DEF Common, TypeOK
  <2> QED BY <2>1, <2>2 DEF Common, Fresh
<1> QED BY <1>6, <1>7, <1>8, <1>9, <1>10 DEF Common, Counts

-----------------------------------------------------------------------------
(* Every step keeps what holds of all connections.                            *)

LEMMA Counted ==
    ASSUME Common, UNCHANGED <<sent, arrived, qin, qout>>
    PROVE  Counts'
BY DEF Common, TypeOK, Counts, Delivered

\* What a step of one thread starts from.
LEMMA Ready ==
    ASSUME Common, NEW c \in Conns, NEW t \in Threads
    PROVE  /\ pc \in [Places -> PCs] /\ <<c, t>> \in Places
           /\ awaits \subseteq Conns \X Ends /\ early \subseteq Conns /\ robbed \subseteq Conns
           /\ robbed \cup Strange(c, sock) \subseteq Conns
           /\ robbed \cup Strange(c, table) \subseteq Conns
           /\ robbed \cup Strange(c, table) \cup Overtaken \subseteq Conns
           /\ \A l \in PCs : Goto(<<c, t>>, l) => Moves(<<c, t>>, l)
           /\ exit \in [Conns -> SUBSET Threads] /\ left \in [Conns -> SUBSET Threads]
           /\ pc[<<c, t>>] \notin {"none", "start", "close", "del", "end"}
                  => res[<<c, t>>] \in Conns /\ res[<<c, t>>] # 0
<1>1. \A k \in 0..MaxConns : Strange(c, k) \subseteq Conns
      BY Constants DEF Strange, Conns
<1>4. Overtaken \subseteq Conns
      BY DEF Overtaken, Common, TypeOK, Known, Conns
<1>2. \A l \in PCs : Goto(<<c, t>>, l) => Moves(<<c, t>>, l)
      BY Goes DEF Common, TypeOK, Places
<1>3. res[<<c, t>>] # 0 => res[<<c, t>>] \in Conns
      BY DEF Common, TypeOK, Conns
<1> QED BY <1>1, <1>2, <1>3, <1>4 DEF Common, TypeOK, HasResource, Places

LEMMA EndTame ==
    ASSUME Common, NEW c \in Conns, NEW t \in Ends, End(c, t)
    PROVE  \E l \in PCs : Tame(c, t, l)
<1> DEFINE r == res[<<c, t>>]
<1>0. t \in Threads /\ Peer(t) \in Threads /\ {Sender} \in SUBSET Threads
      /\ Workers \in SUBSET Threads
      BY Constants
<1> USE Ready, <1>0 DEF kernelVars, resVars, threadVars, ghostVars, PCs, Teardown
<1>1. CASE StartEnd(c, t)
  <2>1. PICK l \in {"loop", "end"} :
            /\ Moves(<<c, t>>, l) /\ (l # "end" => table # 0)
            /\ res' = [res EXCEPT ![<<c, t>>] = table]
            /\ sock' \in {sock, 0}
            /\ robbed' \in {robbed \cup Strange(c, sock), robbed \cup Strange(c, table)}
        BY <1>1 DEF StartEnd
  <2>2. res'[<<c, t>>] = table
        BY <2>1 DEF Common, TypeOK, Places
  <2>9. Tame(c, t, l)
        BY <1>1, <2>1, <2>2, Counted DEF Tame, StartEnd
  <2> QED BY <2>9
<1>2. CASE Failed(c, t)
  <2>1. PICK l \in {"end", "signal", "flag"} : Moves(<<c, t>>, l)
        BY <1>2 DEF Failed, Leave
  <2>9. Tame(c, t, l)
        BY <1>2, <2>1, Counted DEF Tame, Failed, Leave
  <2> QED BY <2>9
<1>3. CASE RaiseFlag(c, t)
  <2>1. Moves(<<c, t>>, "id")
        BY <1>3 DEF RaiseFlag
  <2>9. Tame(c, t, "id")
        BY <1>3, <2>1, Counted DEF Tame, RaiseFlag
  <2> QED BY <2>9
<1>4. CASE ReadId(c, t)
  <2>1. Moves(<<c, t>>, "look")
        BY <1>4 DEF ReadId
  <2>2. awaits' \subseteq Conns \X Ends
        BY <1>4 DEF ReadId
  <2>9. Tame(c, t, "look")
        BY <1>4, <2>1, <2>2, Counted DEF Tame, ReadId
  <2> QED BY <2>9
<1>5. CASE Lookup(c, t)
  <2>1. PICK l \in {"close", "peer", "stop"} :
            Goto(<<c, t>>, l) /\ (l # "close" => table # 0)
    <3>1. CASE table = 0
          BY <1>5, <3>1 DEF Lookup
    <3>2. CASE table # 0 /\ <<c, t>> \in awaits
          BY <1>5, <3>2 DEF Lookup
    <3>3. CASE table # 0 /\ <<c, t>> \notin awaits
          BY <1>5, <3>3 DEF Lookup
    <3> QED BY <3>1, <3>2, <3>3
  <2>3. Moves(<<c, t>>, l)
        BY <2>1
  <2>2. res'[<<c, t>>] = table
        BY <1>5 DEF Lookup, Common, TypeOK, Places
  <2>9. Tame(c, t, l)
        BY <1>5, <2>1, <2>2, <2>3, Counted DEF Tame, Lookup
  <2> QED BY <2>9
<1>6. CASE AwaitPeer(c, t)
  <2>1. PICK l \in {"stop", "peer"} : Moves(<<c, t>>, l)
        BY <1>6, Signals DEF AwaitPeer
  <2>9. Tame(c, t, l)
        BY <1>6, <2>1, Counted DEF Tame, AwaitPeer
  <2> QED BY <2>9
<1>7. CASE StopWorkers(c, t)
  <2>1. PICK l \in {"stop", "poll"} : Moves(<<c, t>>, l)
        BY <1>7, Signals DEF StopWorkers
  <2>2. exit' = exit \/ (\E u \in Threads : exit' = [exit EXCEPT ![r] = @ \cup {u}])
        BY <1>7 DEF StopWorkers
  <2>9. Tame(c, t, l)
        BY <1>7, <2>1, <2>2, Counted DEF Tame, StopWorkers
  <2> QED BY <2>9
<1>8. CASE AwaitWorkers(c, t)
  <2>1. PICK l \in {"destroy", "poll"} : Moves(<<c, t>>, l)
        BY <1>8, Signals DEF AwaitWorkers
  <2>9. Tame(c, t, l)
        BY <1>8, <2>1, Counted DEF Tame, AwaitWorkers
  <2> QED BY <2>9
<1>9. CASE DestroyQueues(c, t)
  <2>1. Moves(<<c, t>>, "close")
        BY <1>9 DEF DestroyQueues
  <2>9. Tame(c, t, "close")
        BY <1>9, <2>1, Counted, Constants DEF Tame, DestroyQueues
  <2> QED BY <2>9
<1>10. CASE Close(c, t)
  <2>1. Moves(<<c, t>>, "del")
        BY <1>10 DEF Close
  <2>9. Tame(c, t, "del")
        BY <1>10, <2>1, Counted DEF Tame, Close
  <2> QED BY <2>9
<1>11. CASE DelThreadRes(c, t)
  <2>1. Moves(<<c, t>>, "end")
        BY <1>11 DEF DelThreadRes
  <2>9. Tame(c, t, "end")
        BY <1>11, <2>1, Counted DEF Tame, DelThreadRes
  <2> QED BY <2>9
<1> QED BY <1>1, <1>2, <1>3, <1>4, <1>5, <1>6, <1>7, <1>8, <1>9, <1>10, <1>11 DEF End

LEMMA ReceiverTame ==
    ASSUME Common, NEW c \in Conns, ReceiverStep(c)
    PROVE  \E l \in PCs : Tame(c, Receiver, l)
<1> DEFINE r == res[<<c, Receiver>>]
<1>0. Receiver \in Threads /\ Receiver \in Ends /\ {Sender} \in SUBSET Threads
      /\ Workers \in SUBSET Threads
      BY Constants
<1> USE Ready, <1>0 DEF kernelVars, resVars, threadVars, ghostVars, PCs, Teardown
<1>1. CASE RecvLoop(c)
  <2>1. PICK l \in {"end", "recv"} : Moves(<<c, Receiver>>, l)
        BY <1>1 DEF RecvLoop, Leave
  <2>9. Tame(c, Receiver, l)
        BY <1>1, <2>1, Counted DEF Tame, RecvLoop, Leave
  <2> QED BY <2>9
<1>2. CASE Receive(c)
  <2>1. Moves(<<c, Receiver>>, "loop")
        BY <1>2, Signals DEF Receive
  <2>2. sock \in Conns /\ r \in Conns
    <3>1. sock \in Conns
          BY <1>2, Constants DEF Receive, Common, TypeOK, Conns
    <3>2. r \in Conns
          BY <1>2 DEF Receive
    <3> QED BY <3>1, <3>2
  <2>3. Counts'
        BY <1>2, <2>2, Constants DEF Receive, Counts, Delivered, Common, TypeOK
  <2>9. Tame(c, Receiver, "loop")
        BY <1>2, <2>1, <2>3 DEF Tame, Receive
  <2> QED BY <2>9
<1>3. CASE RecvFails(c)
  <2>1. Moves(<<c, Receiver>>, "failed")
        BY <1>3 DEF RecvFails
  <2>9. Tame(c, Receiver, "failed")
        BY <1>3, <2>1, Counted DEF Tame, RecvFails
  <2> QED BY <2>9
<1>4. CASE SignalSender(c)
  <2>1. Moves(<<c, Receiver>>, "flag")
        BY <1>4, Signals DEF SignalSender
  <2>9. Tame(c, Receiver, "flag")
        BY <1>4, <2>1, Counted DEF Tame, SignalSender
  <2> QED BY <2>9
<1> QED BY <1>1, <1>2, <1>3, <1>4, EndTame DEF ReceiverStep

\* The steps the sender and the workers have in common.
LEMMA WaitTame ==
    ASSUME Common, NEW c \in Conns, NEW t \in Threads, NEW ts,
           Sleep(c, t) \/ Woken(c, t, ts) \/ Unlock(c, t)
    PROVE  \E l \in PCs : Tame(c, t, l)
<1> USE Ready DEF kernelVars, resVars, threadVars, ghostVars, PCs
<1>1. CASE Sleep(c, t)
  <2>1. Moves(<<c, t>>, "asleep")
        BY <1>1 DEF Sleep
  <2>9. Tame(c, t, "asleep")
        BY <1>1, <2>1, Counted DEF Tame, Sleep
  <2> QED BY <2>9
<1>2. CASE Woken(c, t, ts)
  <2>1. PICK l \in {"leave", "loop"} : Moves(<<c, t>>, l)
        BY <1>2 DEF Woken
  <2>9. Tame(c, t, l)
        BY <1>2, <2>1, Counted DEF Tame, Woken
  <2> QED BY <2>9
<1>3. CASE Unlock(c, t)
  <2>1. Moves(<<c, t>>, "end")
        BY <1>3 DEF Unlock
  <2>9. Tame(c, t, "end")
        BY <1>3, <2>1, Counted DEF Tame, Unlock
  <2> QED BY <2>9
<1> QED BY <1>1, <1>2, <1>3

LEMMA SenderTame ==
    ASSUME Common, NEW c \in Conns, SenderStep(c)
    PROVE  \E l \in PCs : Tame(c, Sender, l)
<1> DEFINE r == res[<<c, Sender>>]
<1>0. Sender \in Threads /\ Sender \in Ends
      BY Constants
<1> USE Ready, <1>0 DEF kernelVars, resVars, threadVars, ghostVars, PCs
<1>1. CASE SendLoop(c)
  <2>1. PICK l \in {"doze", "send"} : Moves(<<c, Sender>>, l)
        BY <1>1 DEF SendLoop
  <2>2. r \in Conns
        BY <1>1 DEF SendLoop
  <2>3. Counts'
    <3>1. CASE qout[r] = 0
          BY <1>1, <3>1, Counted DEF SendLoop
    <3>2. CASE qout[r] # 0
      <4>1. qout[r] \in 0..QueueCap /\ qout' = [qout EXCEPT ![r] = qout[r] - 1]
            BY <1>1, <2>2, <3>2 DEF SendLoop, Common, TypeOK
      <4>2. qout' \in [Conns -> 0..QueueCap]
        <5>1. qout[r] - 1 \in 0..QueueCap
              BY <3>2, <4>1, Constants
        <5> QED BY <2>2, <4>1, <5>1 DEF Common, TypeOK
      <4> QED BY <1>1, <4>2 DEF SendLoop, Counts, Delivered, Common, TypeOK
    <3> QED BY <3>1, <3>2
  <2>9. Tame(c, Sender, l)
        BY <1>1, <2>1, <2>3 DEF Tame, SendLoop
  <2> QED BY <2>9
<1>2. CASE Sends(c)
  <2>1. PICK l \in {"loop", "failed"} : Moves(<<c, Sender>>, l)
        BY <1>2 DEF Sends
  <2>9. Tame(c, Sender, l)
        BY <1>2, <2>1, Counted DEF Tame, Sends
  <2> QED BY <2>9
<1> QED BY <1>1, <1>2, WaitTame, EndTame DEF SenderStep

LEMMA WorkerTame ==
    ASSUME Common, NEW c \in Conns, NEW w \in Workers, WorkerStep(c, w)
    PROVE  \E l \in PCs : Tame(c, w, l)
<1> DEFINE r == res[<<c, w>>]
<1>0. w \in Threads /\ {Sender} \in SUBSET Threads
      BY Constants
<1> USE Ready, <1>0 DEF kernelVars, resVars, threadVars, ghostVars, PCs
<1>1. CASE StartWorker(c, w)
  <2>1. PICK l \in {"loop", "end"} : Moves(<<c, w>>, l) /\ (l = "loop" => table = c)
        BY <1>1 DEF StartWorker
  <2>2. res'[<<c, w>>] = table
        BY <1>1 DEF StartWorker, Common, TypeOK, Places
  <2>9. Tame(c, w, l)
        BY <1>1, <2>1, <2>2, Counted, Constants DEF Tame, StartWorker, Strange
  <2> QED BY <2>9
<1>2. CASE WorkerLoop(c, w)
  <2>1. PICK l \in {"doze", "work"} : Moves(<<c, w>>, l)
        BY <1>2 DEF WorkerLoop
  <2>2. r \in Conns
        BY <1>2 DEF WorkerLoop
  <2>3. Counts'
    <3>1. CASE qin[r] = 0
          BY <1>2, <3>1, Counted DEF WorkerLoop
    <3>2. CASE qin[r] # 0
      <4>1. qin[r] \in 0..QueueCap /\ qin' = [qin EXCEPT ![r] = qin[r] - 1]
            BY <1>2, <2>2, <3>2 DEF WorkerLoop, Common, TypeOK
      <4>2. qin' \in [Conns -> 0..QueueCap]
        <5>1. qin[r] - 1 \in 0..QueueCap
              BY <3>2, <4>1, Constants
        <5> QED BY <2>2, <4>1, <5>1 DEF Common, TypeOK
      <4> QED BY <1>2, <4>2 DEF WorkerLoop, Counts, Delivered, Common, TypeOK
    <3> QED BY <3>1, <3>2
  <2>9. Tame(c, w, l)
        BY <1>2, <2>1, <2>3 DEF Tame, WorkerLoop
  <2> QED BY <2>9
<1>3. CASE Work(c, w)
  <2>1. Moves(<<c, w>>, "loop")
        BY <1>3, Signals DEF Work
  <2>2. r \in Conns
        BY <1>3 DEF Work
  <2>3. Counts'
    <3>1. CASE qout' = qout
          BY <1>3, <3>1, Counted DEF Work
    <3>2. CASE qout' = [qout EXCEPT ![r] = IF @ < QueueCap THEN @ + 1 ELSE @]
      <4>1. qout[r] \in 0..QueueCap
            BY <2>2 DEF Common, TypeOK
      <4>2. qout' \in [Conns -> 0..QueueCap]
        BY <2>2, <3>2, <4>1, Constants DEF Common, TypeOK
      <4> QED BY <1>3, <4>2 DEF Work, Counts, Delivered, Common, TypeOK
    <3> QED BY <1>3, <3>1, <3>2 DEF Work
  <2>9. Tame(c, w, "loop")
        BY <1>3, <2>1, <2>3 DEF Tame, Work
  <2> QED BY <2>9
<1> QED BY <1>1, <1>2, <1>3, WaitTame DEF WorkerStep

LEMMA InitCommon == Init => Common
BY Constants DEF Inserting, Init, Common, TypeOK, Delivered, HasResource, Known, Unborn, Fresh, PCs,
             SetupPCs, Conns

LEMMA PeerCommon ==
    ASSUME Common, NEW c \in Conns, PeerSends(c) \/ PeerGone(c)
    PROVE  Common'
<1> USE DEF resVars, threadVars, ghostVars
<1>1. CASE PeerSends(c)
  <2>1. sent' \in 0..MaxMsgs
        BY <1>1, Constants DEF PeerSends, Common, TypeOK
  <2>2. arrived[c] + 1 \in 0..MaxMsgs /\ arrived[c] + 1 =< sent'
        BY <1>1, Constants DEF PeerSends, Common, TypeOK, Delivered
  <2>3. arrived' \in [Conns -> 0..MaxMsgs]
        BY <1>1, <2>2 DEF PeerSends, Common, TypeOK
  <2>4. Delivered'
        BY <1>1, <2>2, Constants DEF PeerSends, Common, TypeOK, Delivered
  <2>5. UNCHANGED <<sock, nconn, gone, table, mpc, resVars, threadVars, ghostVars>>
        BY <1>1 DEF PeerSends
  <2>6. TypeOK'
        BY <2>1, <2>3, <2>5 DEF Common, TypeOK
  <2> QED BY <2>4, <2>5, <2>6 DEF Common, HasResource, Known, Unborn, Fresh
<1>2. CASE PeerGone(c)
      BY <1>2 DEF PeerGone, Common, TypeOK, Delivered, HasResource, Known, Unborn, Fresh
<1> QED BY <1>1, <1>2

LEMMA MainCommon ==
    ASSUME Common, Accept \/ Main
    PROVE  Common'
<1> USE DEF kernelVars, resVars, threadVars, ghostVars
<1>1. CASE Accept
  <2>1. nconn + 1 \in 0..MaxConns /\ nconn \in Nat
        BY <1>1, Constants DEF Accept, Common, TypeOK
  <2>2. TypeOK' /\ Delivered'
        BY <1>1, <2>1 DEF Inserting, Accept, Common, TypeOK, SetupPCs, Delivered
  <2>3. nconn + 1 \in Conns
        BY <2>1 DEF Conns
  <2>4. Known' /\ HasResource'
        BY <1>1, <2>1 DEF Accept, Common, TypeOK, Known, HasResource
  <2>5. Unborn' /\ Fresh'
        BY <1>1, <2>1, <2>3, Constants DEF Accept, Common, TypeOK, Unborn, Fresh, Conns
  <2> QED BY <2>2, <2>4, <2>5 DEF Common
<1>2. CASE HashInsert
  <2>1. nconn \in 1..MaxConns
        BY <1>2, Constants DEF HashInsert, Common, TypeOK, Known, Inserting
  <2>2. /\ UNCHANGED <<kernelVars, resVars, threadVars, ghostVars>>
        /\ \/ table = 0 /\ table' = nconn /\ mpc' = "spawn"
           \/ mpc' = "get" /\ table' = table
        /\ mpc = "insert"
        BY <1>2 DEF HashInsert
  <2>3. TypeOK'
        BY <2>1, <2>2 DEF Common, TypeOK, SetupPCs, Inserting
  <2>4. Known' /\ HasResource' /\ Unborn' /\ Fresh' /\ Delivered'
        BY <2>1, <2>2 DEF Common, Known, HasResource, Unborn, Fresh, Delivered, Inserting
  <2> QED BY <2>3, <2>4 DEF Common
<1>7. CASE HashGetItem
  <2>1. /\ UNCHANGED <<kernelVars, table, resVars, threadVars, ghostVars>>
        /\ mpc = "get" /\ mpc' \in {"spawn", "replace"} /\ (mpc' = "spawn" => table = 0)
        BY <1>7 DEF HashGetItem
  <2>2. TypeOK'
        BY <2>1 DEF Common, TypeOK, SetupPCs, Inserting
  <2>3. Known' /\ HasResource' /\ Unborn' /\ Fresh' /\ Delivered'
        BY <2>1 DEF Common, Known, HasResource, Unborn, Fresh, Delivered, Inserting
  <2> QED BY <2>2, <2>3 DEF Common
<1>8. CASE ReplaceResource
  <2>1. {table} \ {0} \subseteq Conns /\ nconn \in 1..MaxConns /\ nconn \notin {table} \ {0}
        BY <1>8, Constants DEF ReplaceResource, Common, TypeOK, Known, Conns, Inserting
  <2>2. /\ UNCHANGED <<kernelVars, ids, exit, left, qin, qout, destroyed, threadVars, ghostVars>>
        /\ mpc = "replace" /\ mpc' = "spawn" /\ table' \in {0, nconn}
        /\ freed' = freed \cup ({table} \ {0})
        BY <1>8 DEF ReplaceResource
  <2>3. TypeOK' /\ Delivered'
    <3>1. table' \in 0..MaxConns /\ freed' \subseteq Conns /\ mpc' \in SetupPCs
          BY <2>1, <2>2, Constants DEF Common, TypeOK, SetupPCs
    <3> QED BY <2>2, <3>1 DEF Common, TypeOK, Delivered
  <2>4. Known' /\ HasResource' /\ Unborn'
        BY <2>1, <2>2 DEF Common, TypeOK, Known, HasResource, Unborn, Inserting
  <2>5. Fresh'
        BY <2>1, <2>2 DEF Common, TypeOK, Known, Fresh, Conns
  <2> QED BY <2>3, <2>4, <2>5 DEF Common
<1>3. CASE SpawnEnds
  <2>1. nconn \in Conns
        BY <1>3 DEF SpawnEnds, Common, TypeOK, Known, Conns
  <2>2. /\ pc' \in [Places -> PCs]
        /\ \A c \in Conns, t \in Threads :
              pc'[<<c, t>>] = IF c = nconn /\ t \in Ends THEN "start" ELSE pc[<<c, t>>]
        BY <1>3 DEF SpawnEnds, Common, TypeOK, Places, PCs
  <2>3. TypeOK' /\ Delivered'
        BY <1>3, <2>2 DEF SpawnEnds, Common, TypeOK, SetupPCs, Delivered, Places
  <2>4. HasResource'
    <3>1. \A t \in Threads : res[<<nconn, t>>] = 0
          BY <1>3, <2>1 DEF SpawnEnds, Common, HasResource, Unborn
    <3>2. res' = res
          BY <1>3 DEF SpawnEnds
    <3> QED BY <2>2, <3>1, <3>2, Constants DEF Common, HasResource
  <2>5. Known' /\ Fresh'
        BY <1>3 DEF Inserting, SpawnEnds, Common, Known, Fresh
  <2>6. Unborn'
        BY <1>3, <2>1, <2>2, Constants DEF Inserting, SpawnEnds, Common, TypeOK, Unborn
  <2> QED BY <2>3, <2>4, <2>5, <2>6 DEF Common
<1>4. CASE CreatePool
  <2>1. nconn \in Conns
        BY <1>4 DEF CreatePool, Common, TypeOK, Known, Conns
  <2>2. CASE table # 0
    <3>1. /\ pc' \in [Places -> PCs]
          /\ \A c \in Conns, t \in Threads :
              pc'[<<c, t>>] = IF c = nconn /\ t \in Workers THEN "start" ELSE pc[<<c, t>>]
          BY <1>4, <2>2 DEF CreatePool, Common, TypeOK, Places, PCs
    <3>2. ids' \in [Conns -> SUBSET Threads] /\ \A d \in Conns \ {nconn} : ids'[d] = ids[d]
      <4>1. table = nconn /\ ids' = [ids EXCEPT ![table] = @ \cup Workers]
            BY <1>4, <2>2 DEF CreatePool, Common, Known
      <4> QED BY <2>1, <4>1, Constants DEF Common, TypeOK
    <3>3. TypeOK' /\ Delivered'
          BY <1>4, <2>2, <3>1, <3>2 DEF CreatePool, Common, TypeOK, SetupPCs, Delivered, Places
    <3>4. HasResource'
          BY <1>4, <2>2, <3>1, Constants DEF CreatePool, Common, HasResource, Unborn
    <3>5. Known'
          BY <1>4, <2>2 DEF Inserting, CreatePool, Common, Known
    <3>6. Fresh'
          BY <1>4, <2>2, <3>2 DEF CreatePool, Common, TypeOK, Fresh
    <3>7. Unborn'
          BY <1>4, <2>1, <2>2, <3>1 DEF Inserting, CreatePool, Common, TypeOK, Unborn
    <3> QED BY <3>3, <3>4, <3>5, <3>6, <3>7 DEF Common
  <2>3. CASE table = 0
        BY <1>4, <2>3, Constants DEF Inserting, CreatePool, Common, TypeOK, Delivered, HasResource,
                                     Known, Unborn, Fresh
  <2> QED BY <2>2, <2>3
<1>5. ASSUME NEW t \in Ends, NEW here \in {"pubR", "pubS"}, NEW next \in {"pubS", "accept"},
             Publish(t, here, next)
      PROVE  Common'
  <2>1. nconn \in Conns /\ t \in Threads
        BY <1>5, Constants DEF Publish, Common, TypeOK, Known, Conns
  <2>2. /\ ids' \in [Conns -> SUBSET Threads] /\ exit' \in [Conns -> SUBSET Threads]
        /\ left' \in [Conns -> SUBSET Threads]
        /\ \A d \in Conns \ {nconn} : ids'[d] = ids[d] /\ exit'[d] = exit[d] /\ left'[d] = left[d]
        BY <1>5, <2>1 DEF Publish, Common, TypeOK
  <2>3. TypeOK' /\ Delivered'
        BY <1>5, <2>2 DEF Publish, Common, TypeOK, SetupPCs, Delivered
  <2>4. HasResource' /\ Known' /\ Unborn'
        BY <1>5 DEF Inserting, Publish, Common, HasResource, Known, Unborn
  <2>5. Fresh'
        BY <1>5, <2>2 DEF Publish, Common, TypeOK, Fresh
  <2> QED BY <2>3, <2>4, <2>5 DEF Common
<1>6. Receiver \in Ends /\ Sender \in Ends
      BY Constants
<1> QED BY <1>1, <1>2, <1>3, <1>4, <1>5, <1>6, <1>7, <1>8 DEF Main

\* Every step of a thread is tame.
Thread(c, t) ==
    \/ t = Receiver /\ ReceiverStep(c)
    \/ t = Sender /\ SenderStep(c)
    \/ t \in Workers /\ WorkerStep(c, t)

LEMMA ThreadTame ==
    ASSUME Common, NEW c \in Conns, NEW t \in Threads, Thread(c, t)
    PROVE  pc'[<<c, t>>] \in PCs /\ Tame(c, t, pc'[<<c, t>>])
<1>1. \E l \in PCs : Tame(c, t, l)
      BY ReceiverTame, SenderTame, WorkerTame DEF Thread
<1> QED BY <1>1 DEF Tame, Moves

LEMMA Steps ==
    ASSUME [Next]_vars
    PROVE  \/ UNCHANGED vars \/ Accept \/ Main
           \/ \E c \in Conns : PeerSends(c) \/ PeerGone(c) \/ \E t \in Threads : Thread(c, t)
<1>1. ASSUME NEW c \in Conns, ReceiverStep(c) \/ SenderStep(c) \/ \E w \in Workers : WorkerStep(c, w)
      PROVE  \E t \in Threads : Thread(c, t)
  <2>1. CASE ReceiverStep(c)
    <3>1. Receiver \in Threads /\ Thread(c, Receiver)
          BY <2>1, Constants DEF Thread
    <3> QED BY <3>1
  <2>2. CASE SenderStep(c)
    <3>1. Sender \in Threads /\ Thread(c, Sender)
          BY <2>2, Constants DEF Thread
    <3> QED BY <3>1
  <2>3. CASE \E w \in Workers : WorkerStep(c, w)
        BY <2>3, Constants DEF Thread
  <2> QED BY <1>1, <2>1, <2>2, <2>3
<1> QED BY <1>1 DEF Next

LEMMA NextCommon == Common /\ [Next]_vars => Common'
<1> SUFFICES ASSUME Common, [Next]_vars PROVE Common'
    OBVIOUS
<1>1. CASE UNCHANGED vars
      BY <1>1 DEF vars, kernelVars, resVars, threadVars, ghostVars, Common, TypeOK, Delivered,
                  HasResource, Known, Unborn, Fresh
<1>2. ASSUME NEW c \in Conns, NEW t \in Threads, Thread(c, t)
      PROVE  Common'
      BY <1>2, ThreadTame, CommonStep
<1> QED BY <1>1, <1>2, MainCommon, PeerCommon, Steps

-----------------------------------------------------------------------------
(* Steps that leave a sound connection as it is.                              *)

Busy == {"start"} \cup Running

\* A thread of connection c stays at its label or goes on in its loop.
Idle(c, t) ==
    \/ pc'[<<c, t>>] = pc[<<c, t>>]
    \/ pc[<<c, t>>] \in Busy /\ pc'[<<c, t>>] \in Running

\* The descriptor, the table and the resource of c are left alone.
Kept(c) ==
    /\ UNCHANGED <<nconn, mpc>>
    /\ ids'[c] = ids[c] /\ awaits \subseteq awaits'
    /\ destroyed' \cap {c} = destroyed \cap {c} /\ freed' \cap {c} = freed \cap {c}
    /\ sock' = c <=> sock = c
    /\ table' = c <=> table = c
    /\ c = nconn /\ mpc \in {"get", "replace"} => table' = table

Still(c) ==
    /\ Kept(c) /\ exit'[c] = exit[c] /\ left'[c] = left[c]
    /\ \A t \in Threads : Idle(c, t)

LEMMA StillConn ==
    ASSUME TypeOK, NEW c \in Conns, Conn(c), Still(c), OwnResource(c)'
    PROVE  Conn(c)'
<1>1. UNCHANGED <<nconn, mpc>> /\ ids'[c] = ids[c] /\ exit'[c] = exit[c] /\ left'[c] = left[c]
      /\ (c \in destroyed' <=> c \in destroyed) /\ (c \in freed' <=> c \in freed)
      /\ (sock' = c <=> sock = c) /\ (table' = c <=> table = c)
      /\ (c = nconn /\ mpc \in {"get", "replace"} => table' = table)
      BY DEF Still, Kept
<1>2. \A t \in Threads :
          \/ pc'[<<c, t>>] = pc[<<c, t>>]
          \/ pc[<<c, t>>] \in {"start"} \cup Running /\ pc'[<<c, t>>] \in Running
      BY DEF Still, Idle, Busy
<1>3. \A t \in Threads :
        /\ pc[<<c, t>>] # "none" => pc'[<<c, t>>] # "none"
        /\ pc[<<c, t>>] \in {"none", "start"} \cup Running
               => pc'[<<c, t>>] \in {"none", "start"} \cup Running
        /\ \A l \in Teardown \cup Out : pc'[<<c, t>>] = l <=> pc[<<c, t>>] = l
      BY <1>2 DEF Running, Teardown, Out
<1>4. SetUp(c)'
      BY <1>1, <1>3, Constants DEF Conn, SetUp, InSetup
<1>5. Complete(c)' /\ Listed(c)'
      BY <1>1, <1>3 DEF Conn, Complete, Listed, InSetup
<1>6. \A t \in Threads :
        /\ pc'[<<c, t>>] \in Out <=> pc[<<c, t>>] \in Out
        /\ pc'[<<c, t>>] \in Teardown <=> pc[<<c, t>>] \in Teardown
        /\ pc'[<<c, t>>] = "signal" <=> pc[<<c, t>>] = "signal"
        /\ pc'[<<c, t>>] = "flag" <=> pc[<<c, t>>] = "flag"
      BY <1>3 DEF Teardown
<1>7. LeftOut(c)'
      BY <1>1, <1>6 DEF TypeOK, Conn, LeftOut
<1>8. Awaited(c)'
      BY <1>1, <1>3, <1>6, Constants DEF Still, Kept, Conn, Awaited, Teardown
<1>9. AllOut(c)'
      BY <1>1, <1>3, <1>6, Constants DEF Conn, AllOut, Teardown
<1>10. Relieved(c)'
      BY <1>1, <1>6, Constants DEF Conn, Relieved
<1> QED BY <1>4, <1>5, <1>7, <1>8, <1>9, <1>10 DEF Conn

\* A step of a thread of another connection: it leaves c as it is, or robs it.
LEMMA Foreign ==
    ASSUME Common, NEW c \in Conns, Conn(c), c \notin robbed',
           NEW k \in Conns \ {c}, NEW t \in Threads, NEW l \in PCs, Tame(k, t, l)
    PROVE  Conn(c)'
<1> USE DEF Tame
<1>1. <<k, t>> \in Places /\ res[<<k, t>>] # c
      BY DEF Conn, OwnResource, Places
<1>2. exit'[c] = exit[c] /\ left'[c] = left[c] /\ ids'[c] = ids[c]
      BY <1>1
<1>3. c \notin Strange(k, sock) => sock # c
      BY Constants DEF Strange
<1>4. c \notin Strange(k, table) => table # c
      BY Constants DEF Strange
<1>5. /\ destroyed' \cap {c} = destroyed \cap {c}
      /\ freed' \cap {c} = freed \cap {c}
      /\ sock' = c <=> sock = c
      /\ table' = c <=> table = c
      BY <1>1, <1>3, <1>4, Constants
<1>6. \A u \in Threads : Idle(c, u)
      BY DEF Moves, Idle, Busy, Running
<1>11. c = nconn /\ mpc \in {"get", "replace"} => table' = table
      BY DEF Overtaken
<1>7. Still(c)
      BY <1>2, <1>5, <1>6, <1>11 DEF Still, Kept
<1>8. \A d \in Conns, u \in Threads : <<d, u>> # <<k, t>> => res'[<<d, u>>] = res[<<d, u>>]
      BY DEF Common, TypeOK
<1>9. res'[<<k, t>>] = c => l = "end"
      BY <1>1, <1>4 DEF Common, TypeOK, Places
<1>10. OwnResource(c)'
  <2>1. \A u \in Threads : pc'[<<c, u>>] \notin {"none", "start"} => res'[<<c, u>>] = c
    <3> SUFFICES ASSUME NEW u \in Threads, pc'[<<c, u>>] \notin {"none", "start"}
                 PROVE  res'[<<c, u>>] = c
        OBVIOUS
    <3>1. pc[<<c, u>>] \notin {"none", "start"}
          BY DEF Moves
    <3> QED BY <1>8, <3>1 DEF Conn, OwnResource
  <2>2. ASSUME NEW d \in Conns \ {c}, NEW u \in Threads, res'[<<d, u>>] = c
        PROVE  pc'[<<d, u>>] = "end"
    <3>1. CASE <<d, u>> = <<k, t>>
          BY <1>9, <2>2, <3>1 DEF Moves
    <3>2. CASE <<d, u>> # <<k, t>>
          BY <1>8, <2>2, <3>2 DEF Conn, OwnResource, Moves
    <3> QED BY <3>1, <3>2
  <2> QED BY <2>1, <2>2 DEF OwnResource
<1> QED BY <1>7, <1>10, StillConn DEF Common

-----------------------------------------------------------------------------
(* Steps of the threads of a sound connection.                                *)

\* A thread that is neither out nor deletes the entry finds its connection under the descriptor.
LEMMA Alive ==
    ASSUME Common, NEW c \in Conns, Conn(c), NEW t \in Threads,
           pc[<<c, t>>] \notin {"none", "leave", "end", "del"}
    PROVE  /\ sock = c /\ c \notin freed /\ table = c
           /\ pc[<<c, t>>] # "start" => res[<<c, t>>] = c
           /\ t \in Ends /\ pc[<<c, t>>] # "close" => c \notin destroyed
           /\ pc[<<c, t>>] \in Teardown => ~InSetup(c)
<1>1. sock = c
      BY Constants DEF Conn, AllOut, Out, Threads, Ends
<1>2. c \notin freed
      BY <1>1 DEF Conn, Listed
<1>3. ~(c = nconn /\ mpc \in Inserting)
      BY DEF Common, Unborn
<1>4. t \in Ends /\ pc[<<c, t>>] # "close" => c \notin destroyed
      BY DEF Conn, AllOut, Out
<1>5. pc[<<c, t>>] \in Teardown => ~InSetup(c)
      BY DEF Conn, SetUp, Teardown, Running
<1> QED BY <1>1, <1>2, <1>3, <1>4, <1>5 DEF Conn, Listed, OwnResource

LEMMA Own ==
    ASSUME Common, NEW c \in Conns, Conn(c), NEW t \in Threads, NEW l \in PCs, Tame(c, t, l),
           res'[<<c, t>>] = c
    PROVE  OwnResource(c)' /\ Complete(c)'
<1> USE DEF Tame
<1>1. \A d \in Conns, u \in Threads : <<d, u>> # <<c, t>> => res'[<<d, u>>] = res[<<d, u>>]
      BY DEF Common, TypeOK
<1>2. \A d \in Conns, u \in Threads :
          /\ pc[<<d, u>>] = "end" /\ d # c => pc'[<<d, u>>] = "end"
          /\ pc'[<<d, u>>] \notin {"none", "start"} /\ <<d, u>> # <<c, t>>
                => pc[<<d, u>>] \notin {"none", "start"}
          /\ pc[<<d, u>>] # "none" => pc'[<<d, u>>] # "none"
      BY DEF Moves
<1>3. OwnResource(c)'
      BY <1>1, <1>2 DEF Conn, OwnResource
<1>4. Complete(c)'
      BY <1>2 DEF Conn, Complete, InSetup
<1> QED BY <1>3, <1>4

\* A thread starts, or goes on in its loop.
LEMMA Loops ==
    ASSUME Common, NEW c \in Conns, Conn(c), NEW t \in Threads, NEW l \in Running,
           Tame(c, t, l), res'[<<c, t>>] = c, pc[<<c, t>>] \in Busy,
           UNCHANGED <<sock, table, destroyed, freed>>,
           exit'[c] = exit[c], left'[c] = left[c]
    PROVE  Conn(c)'
<1>1. l \in PCs
      BY Labels
<1>2. \A u \in Threads : Idle(c, u)
      BY DEF Tame, Moves, Idle, Busy, Running
<1>3. Still(c)
      BY <1>2, Constants DEF Still, Kept, Tame, Common, TypeOK
<1> QED BY <1>1, <1>3, Own, StillConn DEF Common

\* A thread that was told to exit leaves, or one that leaves ends.
LEMMA Quits ==
    ASSUME Common, NEW c \in Conns, Conn(c), NEW t \in Threads, NEW l \in Out,
           Tame(c, t, l), res'[<<c, t>>] = c,
           UNCHANGED <<sock, table, destroyed, freed>>, exit'[c] = exit[c],
           \/ /\ pc[<<c, t>>] \in Running /\ t \in exit[c]
              /\ left'[c] = left[c] \cup {t}
           \/ pc[<<c, t>>] = "leave" /\ left'[c] = left[c]
    PROVE  Conn(c)'
<1>1. l \in PCs /\ OwnResource(c)' /\ Complete(c)'
      BY Own, Labels
<1>2. UNCHANGED <<nconn, mpc>> /\ ids'[c] = ids[c] /\ awaits \subseteq awaits'
      /\ pc'[<<c, t>>] = l
      BY DEF Tame, Moves
<1>3. \A u \in Threads : u # t =>
          \/ pc'[<<c, u>>] = pc[<<c, u>>]
          \/ pc[<<c, u>>] = "asleep" /\ pc'[<<c, u>>] = "woken"
      BY DEF Tame, Moves
<1>4. /\ \A u \in Threads : pc[<<c, u>>] \in Out => pc'[<<c, u>>] \in Out
      /\ \A u \in Threads, m \in Teardown : pc[<<c, u>>] = m <=> pc'[<<c, u>>] = m
      BY <1>2, <1>3 DEF Out, Teardown, Running
<1>5. ~InSetup(c)
      BY DEF Conn, SetUp, Running
<1>6. SetUp(c)' /\ Listed(c)'
      BY <1>2, <1>5 DEF Conn, SetUp, Listed, InSetup
<1>7. LeftOut(c)'
      BY <1>2, <1>4 DEF Conn, LeftOut, Common, TypeOK
<1>8. Awaited(c)'
      BY <1>2, <1>4, Constants DEF Conn, Awaited, Teardown
<1>9. AllOut(c)'
      BY <1>2, <1>4, Constants DEF Conn, AllOut, Teardown
<1>10. Relieved(c)'
  <2> SUFFICES ASSUME NEW u \in Ends, u \in exit'[c] \/ pc'[<<c, u>>] \in Out
               PROVE  pc'[<<c, Peer(u)>>] \in Teardown \ {"signal", "flag"} \/ c \in freed'
      BY DEF Relieved
  <2>1. u \in exit[c] \/ pc[<<c, u>>] \in Out
        BY <1>2, <1>3, Constants DEF Out
  <2>2. pc[<<c, Peer(u)>>] \in Teardown \ {"signal", "flag"} \/ c \in freed
        BY <2>1 DEF Conn, Relieved
  <2> QED BY <1>4, <2>2, Constants DEF Teardown
<1> QED BY <1>1, <1>6, <1>7, <1>8, <1>9, <1>10 DEF Conn

\* An end goes on with the teardown, up to the destruction of the queues.
LEMMA Tears ==
    ASSUME Common, NEW c \in Conns, Conn(c), NEW t \in Ends,
           NEW l \in Teardown \ {"close", "del"}, Tame(c, t, l), res'[<<c, t>>] = c,
           ~InSetup(c), pc[<<c, t>>] \in {"failed"} \cup (Teardown \ {"destroy", "close", "del"}),
           UNCHANGED <<sock, table, destroyed, freed>>, left'[c] = left[c],
           t \in exit'[c] => t \in exit[c],
           Peer(t) \in exit'[c] => Peer(t) \in exit[c] \/ l \notin {"signal", "flag"},
           pc[<<c, t>>] \in {"failed", "signal", "flag"} \/ l \notin {"signal", "flag"},
           l \in {"look", "peer"} => <<c, t>> \in awaits',
           l \in {"stop", "poll", "destroy"} => pc[<<c, Peer(t)>>] \in Out,
           l = "destroy" => \A w \in Workers : pc[<<c, w>>] \in Out
    PROVE  Conn(c)'
<1>1. l \in PCs /\ t \in Threads
      BY Labels, Constants
<1>2. OwnResource(c)' /\ Complete(c)'
      BY <1>1, Own
<1>3. UNCHANGED <<nconn, mpc>> /\ ids'[c] = ids[c] /\ awaits \subseteq awaits'
      /\ pc'[<<c, t>>] = l
      BY DEF Tame, Moves
<1>4. \A u \in Threads : u # t =>
          \/ pc'[<<c, u>>] = pc[<<c, u>>]
          \/ pc[<<c, u>>] = "asleep" /\ pc'[<<c, u>>] = "woken"
      BY DEF Tame, Moves
<1>5. /\ \A u \in Threads : pc[<<c, u>>] \in Out => pc'[<<c, u>>] \in Out
      /\ \A u \in Threads : u # t /\ pc'[<<c, u>>] \in Out => pc[<<c, u>>] \in Out
      /\ \A u \in Threads, m \in Teardown : u # t => (pc[<<c, u>>] = m <=> pc'[<<c, u>>] = m)
      BY <1>3, <1>4 DEF Out, Teardown
<1>6. sock = c /\ c \notin freed /\ c \notin destroyed
      BY <1>1, Alive DEF Teardown
<1>7. SetUp(c)' /\ Listed(c)'
      BY <1>3 DEF Conn, SetUp, Listed, InSetup
<1>8. LeftOut(c)'
      BY <1>3, <1>5 DEF Conn, LeftOut, Common, TypeOK
<1>9. AllOut(c)'
      BY <1>6 DEF AllOut
<1>10. pc[<<c, t>>] \notin Out /\ Peer(t) \in Ends /\ Peer(t) # t /\ Peer(Peer(t)) = t
       /\ Peer(t) \in Threads
      BY Constants DEF Out, Teardown
<1>11. Awaited(c)'
  <2>1. \A w \in Workers : w \in Threads /\ w # t
        BY Constants
  <2>2. ASSUME NEW u \in Ends
        PROVE  /\ pc'[<<c, u>>] \in {"look", "peer"} => <<c, u>> \in awaits'
               /\ pc'[<<c, u>>] \in {"stop", "poll", "destroy", "close", "del"}
                     => pc'[<<c, Peer(u)>>] \in Out
               /\ pc'[<<c, u>>] \in {"destroy", "close", "del"}
                     => \A w \in Workers : pc'[<<c, w>>] \in Out
               /\ pc'[<<c, u>>] = "del" => sock' # c
    <3>1. CASE u = t
          BY <1>3, <1>5, <1>10, <2>1, <3>1
    <3>2. CASE u = Peer(t)
      <4>1. pc[<<c, u>>] \notin {"stop", "poll", "destroy", "close", "del"}
            BY <1>10, <3>2 DEF Conn, Awaited
      <4>2. pc'[<<c, u>>] \notin {"stop", "poll", "destroy", "close", "del"}
            BY <1>5, <1>10, <3>2, <4>1 DEF Teardown
      <4>3. pc'[<<c, u>>] \in {"look", "peer"} => pc[<<c, u>>] \in {"look", "peer"}
            BY <1>5, <1>10, <3>2 DEF Teardown
      <4> QED BY <1>3, <4>2, <4>3 DEF Conn, Awaited
    <3> QED BY <3>1, <3>2, Constants
  <2> QED BY <2>2 DEF Awaited
<1>12. Relieved(c)'
  <2> SUFFICES ASSUME NEW u \in Ends, u \in exit'[c] \/ pc'[<<c, u>>] \in Out
               PROVE  pc'[<<c, Peer(u)>>] \in Teardown \ {"signal", "flag"}
      BY DEF Relieved
  <2>1. CASE u = t
    <3>1. t \in exit[c]
          BY <1>3, <2>1 DEF Out, Teardown
    <3>2. pc[<<c, Peer(t)>>] \in Teardown \ {"signal", "flag"}
          BY <1>6, <3>1 DEF Conn, Relieved
    <3> QED BY <1>5, <1>10, <2>1, <3>2 DEF Teardown
  <2>2. CASE u = Peer(t)
    <3>1. CASE l \in {"signal", "flag"}
      <4>1. Peer(t) \in exit[c] \/ pc[<<c, Peer(t)>>] \in Out
            BY <1>5, <1>10, <2>2, <3>1
      <4>2. pc[<<c, t>>] \in Teardown \ {"signal", "flag"}
            BY <1>6, <1>10, <4>1 DEF Conn, Relieved
      <4> QED BY <3>1, <4>2 DEF Teardown
    <3>2. CASE l \notin {"signal", "flag"}
          BY <1>3, <1>10, <2>2, <3>2
    <3> QED BY <3>1, <3>2
  <2> QED BY <2>1, <2>2, Constants
<1> QED BY <1>2, <1>7, <1>8, <1>9, <1>11, <1>12 DEF Conn

\* What a step of an end of a sound connection does.
LEMMA EndConn ==
    ASSUME Common, NEW c \in Conns, Conn(c), NEW t \in Ends, End(c, t),
           c \notin early' \cup robbed'
    PROVE  Conn(c)'
<1> DEFINE l == pc'[<<c, t>>]
<1>0. /\ t \in Threads /\ Peer(t) \in Threads /\ Peer(t) # t
      /\ {Sender} \in SUBSET Threads /\ Workers \in SUBSET Threads /\ t \notin Workers
      /\ Peer(t) \notin Workers /\ 0 \notin Conns
      BY Constants
<1>1. l \in PCs /\ Tame(c, t, l)
  <2>1. \E m \in PCs : Tame(c, t, m)
        BY EndTame
  <2> QED BY <2>1 DEF Tame, Moves
<1>2. \A m \in PCs : Goto(<<c, t>>, m) => l = m
      BY Ready, <1>0 DEF Moves
<1>3. \A r : \A ts \in SUBSET Threads, m \in PCs :
          pc[<<c, t>>] # "asleep" /\ SignalAndGoto(r, ts, <<c, t>>, m) => l = m
      BY Ready, <1>0, Signals DEF Moves
<1>4. res' = [res EXCEPT ![<<c, t>>] = table] => res'[<<c, t>>] = table
      BY <1>0 DEF Common, TypeOK
<1>5. pc[<<c, t>>] \notin {"none", "leave", "end", "del"} =>
        /\ sock = c /\ c \notin freed /\ table = c
        /\ pc[<<c, t>>] # "start" => res[<<c, t>>] = c
        /\ pc[<<c, t>>] # "close" => c \notin destroyed
        /\ pc[<<c, t>>] \in Teardown => ~InSetup(c)
      BY <1>0, Alive
<1>6. /\ exit \in [Conns -> SUBSET Threads] /\ left \in [Conns -> SUBSET Threads]
      /\ ~InSetup(c) => Threads \subseteq ids[c]
      BY DEF Conn, Complete, Common, TypeOK
<1> USE <1>0 DEF kernelVars, resVars, threadVars, ghostVars, PCs
<1>10. CASE StartEnd(c, t)
  <2>1. l = "loop" /\ res'[<<c, t>>] = c /\ UNCHANGED <<sock, table, destroyed, freed, exit, left>>
        BY <1>2, <1>4, <1>5, <1>10 DEF StartEnd
  <2>2. pc[<<c, t>>] \in Busy /\ l \in Running
        BY <1>10, <2>1 DEF StartEnd, Busy, Running
  <2> QED BY <1>1, <2>1, <2>2, Loops
<1>11. CASE Failed(c, t)
  <2>0. pc[<<c, t>>] = "failed" /\ res[<<c, t>>] = c /\ res'[<<c, t>>] = c
        /\ UNCHANGED <<sock, table, destroyed, freed, exit>>
        BY <1>5, <1>11 DEF Failed, Leave
  <2>1. CASE t \in exit[c]
    <3>1. l = "end" /\ left'[c] = left[c] \cup {t}
          BY <1>2, <1>6, <1>11, <2>0, <2>1 DEF Failed, Leave
    <3> QED BY <1>1, <2>0, <2>1, <3>1, Quits DEF Out, Running
  <2>2. CASE t \notin exit[c]
    <3>1. l \in {"signal", "flag"} /\ left' = left /\ ~InSetup(c)
          BY <1>2, <1>11, <2>0, <2>2 DEF Failed, InSetup, Teardown
    <3>2. l \in Teardown \ {"close", "del"}
          BY <3>1 DEF Teardown
    <3> QED BY <1>1, <2>0, <3>1, <3>2, Tears
  <2> QED BY <2>1, <2>2
<1>12. CASE RaiseFlag(c, t)
  <2>1. /\ pc[<<c, t>>] = "flag" /\ l = "id" /\ res[<<c, t>>] = c /\ res'[<<c, t>>] = c
        /\ UNCHANGED <<sock, table, destroyed, freed, left>> /\ ~InSetup(c)
        BY <1>2, <1>5, <1>12 DEF RaiseFlag, Teardown
  <2>2. exit'[c] = exit[c] \cup {Peer(t)}
        BY <1>6, <1>12, <2>1 DEF RaiseFlag
  <2> QED BY <1>1, <2>1, <2>2, Tears DEF Teardown
<1>13. CASE ReadId(c, t)
  <2>1. /\ pc[<<c, t>>] = "id" /\ l = "look" /\ res[<<c, t>>] = c /\ res'[<<c, t>>] = c
        /\ UNCHANGED <<sock, table, destroyed, freed, exit, left>> /\ ~InSetup(c)
        BY <1>2, <1>5, <1>13 DEF ReadId, Teardown
  <2>2. <<c, t>> \in awaits'
        BY <1>6, <1>13, <2>1 DEF ReadId
  <2> QED BY <1>1, <2>1, <2>2, Tears DEF Teardown
<1>14. CASE Lookup(c, t)
  <2>1. /\ pc[<<c, t>>] = "look" /\ table = c /\ res'[<<c, t>>] = c
        /\ UNCHANGED <<sock, table, destroyed, freed, exit, left, awaits>> /\ ~InSetup(c)
        BY <1>4, <1>5, <1>14 DEF Lookup, Teardown
  <2>2. <<c, t>> \in awaits
        BY <2>1 DEF Conn, Awaited
  <2>3. l = "peer"
        BY <1>2, <1>14, <2>1, <2>2 DEF Lookup, Teardown
  <2> QED BY <1>1, <2>1, <2>2, <2>3, Tears DEF Teardown
<1>15. CASE AwaitPeer(c, t)
  <2>1. /\ pc[<<c, t>>] = "peer" /\ res[<<c, t>>] = c /\ res'[<<c, t>>] = c
        /\ UNCHANGED <<sock, table, destroyed, freed, exit, left, awaits>> /\ ~InSetup(c)
        BY <1>5, <1>15 DEF AwaitPeer, Teardown
  <2>2. l = IF Peer(t) \in left[c] THEN "stop" ELSE "peer"
        BY <1>2, <1>3, <1>15, <2>1 DEF AwaitPeer, Teardown
  <2>3. Peer(t) \in left[c] => pc[<<c, Peer(t)>>] \in Out
        BY DEF Conn, LeftOut
  <2>4. <<c, t>> \in awaits
        BY <2>1 DEF Conn, Awaited
  <2> QED BY <1>1, <2>1, <2>2, <2>3, <2>4, Tears DEF Teardown
<1>16. CASE StopWorkers(c, t)
  <2>1. /\ pc[<<c, t>>] = "stop" /\ res[<<c, t>>] = c /\ res'[<<c, t>>] = c
        /\ UNCHANGED <<sock, table, destroyed, freed, left, awaits>> /\ ~InSetup(c)
        BY <1>5, <1>16 DEF StopWorkers, Teardown
  <2>2. l \in {"stop", "poll"}
        BY <1>2, <1>3, <1>16, <2>1 DEF StopWorkers, Teardown
  <2>3. exit'[c] \cap Ends = exit[c] \cap Ends
        BY <1>6, <1>16, <2>1, Constants DEF StopWorkers
  <2>4. pc[<<c, Peer(t)>>] \in Out
        BY <2>1 DEF Conn, Awaited
  <2> QED BY <1>1, <2>1, <2>2, <2>3, <2>4, Tears, Constants DEF Teardown
<1>17. CASE AwaitWorkers(c, t)
  <2>1. /\ pc[<<c, t>>] = "poll" /\ res[<<c, t>>] = c /\ res'[<<c, t>>] = c
        /\ UNCHANGED <<sock, table, destroyed, freed, exit, left, awaits>> /\ ~InSetup(c)
        BY <1>5, <1>17 DEF AwaitWorkers, Teardown
  <2>2. l = IF ids[c] \cap Workers \subseteq left[c] THEN "destroy" ELSE "poll"
        BY <1>2, <1>3, <1>17, <2>1 DEF AwaitWorkers, Teardown
  <2>3. l = "destroy" => \A w \in Workers : pc[<<c, w>>] \in Out
        BY <1>6, <2>1, <2>2 DEF Conn, LeftOut
  <2>4. pc[<<c, Peer(t)>>] \in Out
        BY <2>1 DEF Conn, Awaited
  <2> QED BY <1>1, <2>1, <2>2, <2>3, <2>4, Tears DEF Teardown
<1>20. ASSUME pc[<<c, t>>] \in {"destroy", "close", "del"}, l \in {"close", "del", "end"},
              res'[<<c, t>>] = c, pc' = [pc EXCEPT ![<<c, t>>] = l],
              UNCHANGED <<exit, left>>, destroyed' \subseteq destroyed \cup {c},
              Listed(c)', l = "close" <=> sock' = c, l = "end" => c \in freed',
              c \in freed => c \in freed'
       PROVE  Conn(c)'
  <2>1. OwnResource(c)' /\ Complete(c)'
        BY <1>1, <1>20, Own
  <2>2. /\ UNCHANGED <<nconn, mpc>> /\ ids'[c] = ids[c] /\ awaits \subseteq awaits'
        /\ \A u \in Threads \ {t} : pc'[<<c, u>>] = pc[<<c, u>>]
        BY <1>1, <1>20 DEF Tame, Common, TypeOK
  <2>3. ~InSetup(c)
        BY <1>20 DEF Conn, SetUp, Running
  <2>4. /\ pc[<<c, Peer(t)>>] \in Out /\ \A w \in Workers : pc[<<c, w>>] \in Out
        BY <1>20 DEF Conn, Awaited
  <2>5. /\ pc'[<<c, Peer(t)>>] \in Out /\ \A w \in Workers : pc'[<<c, w>>] \in Out
        BY <2>2, <2>4, Constants
  <2>6. \A u \in Ends : u = t \/ u = Peer(t)
        BY Constants
  <2>7. SetUp(c)'
        BY <2>2, <2>3 DEF SetUp, InSetup
  <2>8. LeftOut(c)'
        BY <1>6, <1>20, <2>2 DEF Conn, LeftOut, Out
  <2>9. Awaited(c)'
        BY <1>20, <2>5, <2>6 DEF Awaited, Out
  <2>10. AllOut(c)'
    <3>1. pc'[<<c, t>>] \in {"close", "del", "end"} /\ (pc'[<<c, t>>] = "close" <=> sock' = c)
          BY <1>20
    <3> QED BY <2>5, <2>6, <3>1 DEF AllOut, Out
  <2>11. Relieved(c)'
    <3>1. \A u \in Ends : pc'[<<c, Peer(u)>>] \in Teardown \ {"signal", "flag"} \/ c \in freed'
                          \/ (u = t /\ u \notin exit'[c] /\ pc'[<<c, u>>] \notin Out)
      <4>1. pc'[<<c, t>>] \in Teardown \ {"signal", "flag"} \/ c \in freed'
            BY <1>20 DEF Teardown
      <4>2. Peer(Peer(t)) = t
            BY Constants
      <4>3. t \in exit[c] => c \in freed
            BY <2>4 DEF Conn, Relieved, Out, Teardown
      <4> QED BY <1>20, <2>6, <4>1, <4>2, <4>3 DEF Out
    <3> QED BY <3>1 DEF Relieved
  <2> QED BY <1>20, <2>1, <2>7, <2>8, <2>9, <2>10, <2>11 DEF Conn
<1>21. CASE DestroyQueues(c, t)
  <2>1. /\ pc[<<c, t>>] = "destroy" /\ l = "close" /\ res[<<c, t>>] = c /\ res'[<<c, t>>] = c
        /\ UNCHANGED <<sock, table, nconn, mpc, freed, exit, left>> /\ sock = c
        BY <1>2, <1>5, <1>21 DEF DestroyQueues, Teardown
  <2>2. pc' = [pc EXCEPT ![<<c, t>>] = l] /\ destroyed' = destroyed \cup {c}
        BY <1>21, <2>1 DEF DestroyQueues, Goto
  <2>3. Listed(c)'
        BY <2>1 DEF Conn, Listed
  <2> QED BY <1>20, <2>1, <2>2, <2>3
<1>22. CASE Close(c, t)
  <2>1. /\ pc[<<c, t>>] = "close" /\ l = "del" /\ res[<<c, t>>] = c /\ res'[<<c, t>>] = c
        /\ UNCHANGED <<table, nconn, mpc, destroyed, freed, exit, left>> /\ sock' = 0
        BY <1>2, <1>5, <1>22 DEF Close, Teardown
  <2>2. pc' = [pc EXCEPT ![<<c, t>>] = l]
        BY <1>22, <2>1 DEF Close, Goto
  <2>3. Listed(c)'
        BY <2>1 DEF Conn, Listed
  <2> QED BY <1>20, <2>1, <2>2, <2>3
<1>23. CASE DelThreadRes(c, t)
  <2>1. /\ pc[<<c, t>>] = "del" /\ l = "end" /\ res'[<<c, t>>] = res[<<c, t>>]
        /\ UNCHANGED <<sock, nconn, mpc, destroyed, exit, left>>
        /\ table' = 0 /\ freed' = freed \cup ({table} \ {0})
        BY <1>2, <1>23 DEF DelThreadRes
  <2>2. res[<<c, t>>] = c /\ sock # c
        BY <2>1 DEF Conn, OwnResource, Awaited
  <2>3. ~(c = nconn /\ mpc \in Inserting)
        BY <2>1 DEF Conn, SetUp, InSetup, Running, Inserting
  <2>4. c \in freed' /\ Listed(c)'
        BY <2>1, <2>2, <2>3 DEF Inserting, Conn, Listed
  <2>5. pc' = [pc EXCEPT ![<<c, t>>] = l]
        BY <1>23, <2>1 DEF DelThreadRes, Goto
  <2> QED BY <1>20, <2>1, <2>2, <2>4, <2>5
<1> QED BY <1>10, <1>11, <1>12, <1>13, <1>14, <1>15, <1>16, <1>17, <1>21, <1>22, <1>23 DEF End

\* What a step of any thread of a sound connection starts from.
LEMMA Facts ==
    ASSUME Common, NEW c \in Conns, Conn(c), NEW t \in Threads, Thread(c, t)
    PROVE  /\ pc'[<<c, t>>] \in PCs /\ Tame(c, t, pc'[<<c, t>>])
           /\ \A m \in PCs : Goto(<<c, t>>, m) => pc'[<<c, t>>] = m
           /\ \A r : \A ts \in SUBSET Threads, m \in PCs :
                 pc[<<c, t>>] # "asleep" /\ SignalAndGoto(r, ts, <<c, t>>, m) => pc'[<<c, t>>] = m
           /\ res' = [res EXCEPT ![<<c, t>>] = table] => res'[<<c, t>>] = table
           /\ pc[<<c, t>>] \in Busy =>
                 /\ table = c
                 /\ pc[<<c, t>>] # "start" => res[<<c, t>>] = c
           /\ pc[<<c, t>>] \in Teardown =>
                 /\ ~InSetup(c)
                 /\ pc[<<c, t>>] # "del" => res[<<c, t>>] = c
           /\ pc[<<c, t>>] = "leave" => res[<<c, t>>] = c
           /\ exit \in [Conns -> SUBSET Threads] /\ left \in [Conns -> SUBSET Threads]
<1>1. \A m \in PCs : Goto(<<c, t>>, m) => pc'[<<c, t>>] = m
      BY Ready DEF Moves
<1>2. \A r : \A ts \in SUBSET Threads, m \in PCs :
          pc[<<c, t>>] # "asleep" /\ SignalAndGoto(r, ts, <<c, t>>, m) => pc'[<<c, t>>] = m
      BY Ready, Signals DEF Moves
<1>3. res' = [res EXCEPT ![<<c, t>>] = table] => res'[<<c, t>>] = table
      BY DEF Common, TypeOK
<1>4. pc[<<c, t>>] = "leave" => res[<<c, t>>] = c
      BY DEF Conn, OwnResource
<1>5. pc[<<c, t>>] \in Teardown => ~InSetup(c)
      BY DEF Conn, SetUp, Teardown, Running
<1> QED BY <1>1, <1>2, <1>3, <1>4, <1>5, ThreadTame, Alive DEF Common, TypeOK, Busy, Running, Teardown

\* The receiver's own steps.
LEMMA ReceiverConn ==
    ASSUME Common, NEW c \in Conns, Conn(c), ReceiverStep(c), c \notin early' \cup robbed'
    PROVE  Conn(c)'
<1> DEFINE l == pc'[<<c, Receiver>>]
<1>0. Receiver \in Threads /\ Receiver \in Ends /\ Peer(Receiver) = Sender
      /\ {Sender} \in SUBSET Threads /\ Workers \in SUBSET Threads
      BY Constants DEF Peer
<1>1. Thread(c, Receiver)
      BY DEF Thread
<1> USE <1>0, <1>1, Facts DEF kernelVars, resVars, threadVars, ghostVars, PCs
<1>2. CASE RecvLoop(c)
  <2>1. /\ pc[<<c, Receiver>>] = "loop" /\ pc[<<c, Receiver>>] \in Busy
        /\ res[<<c, Receiver>>] = c /\ res'[<<c, Receiver>>] = c
        /\ UNCHANGED <<sock, table, destroyed, freed, exit>>
        BY <1>2 DEF RecvLoop, Leave, Busy, Running
  <2>2. CASE Receiver \in exit[c]
    <3>1. l = "end" /\ left'[c] = left[c] \cup {Receiver}
          BY <1>2, <2>1, <2>2 DEF RecvLoop, Leave
    <3> QED BY <2>1, <2>2, <3>1, Quits DEF Out, Running
  <2>3. CASE Receiver \notin exit[c]
    <3>1. l = "recv" /\ left' = left
          BY <1>2, <2>1, <2>3 DEF RecvLoop
    <3> QED BY <2>1, <3>1, Loops DEF Running
  <2> QED BY <2>2, <2>3
<1>3. CASE Receive(c)
  <2>1. /\ pc[<<c, Receiver>>] \in Busy
        /\ res'[<<c, Receiver>>] = c /\ l = "loop"
        /\ UNCHANGED <<sock, table, destroyed, freed, exit, left>>
        BY <1>3 DEF Receive, Busy, Running
  <2> QED BY <2>1, Loops DEF Running
<1>4. CASE RecvFails(c)
  <2>1. /\ pc[<<c, Receiver>>] \in Busy
        /\ res'[<<c, Receiver>>] = c /\ l = "failed"
        /\ UNCHANGED <<sock, table, destroyed, freed, exit, left>>
        BY <1>4 DEF RecvFails, Busy, Running
  <2> QED BY <2>1, Loops DEF Running
<1>5. CASE SignalSender(c)
  <2>1. /\ pc[<<c, Receiver>>] = "signal" /\ ~InSetup(c)
        /\ res'[<<c, Receiver>>] = c /\ l = "flag"
        /\ UNCHANGED <<sock, table, destroyed, freed, exit, left>>
        BY <1>5 DEF SignalSender, Teardown
  <2> QED BY <2>1, Tears DEF Teardown
<1> QED BY <1>2, <1>3, <1>4, <1>5, EndConn DEF ReceiverStep

\* The steps the sender and the workers have in common.
LEMMA WaitConn ==
    ASSUME Common, NEW c \in Conns, Conn(c), NEW t \in Threads, Thread(c, t), NEW ts,
           Sleep(c, t) \/ Woken(c, t, ts) \/ Unlock(c, t)
    PROVE  Conn(c)'
<1> DEFINE l == pc'[<<c, t>>]
<1> USE Facts DEF kernelVars, resVars, threadVars, ghostVars, PCs
<1>1. CASE Sleep(c, t)
  <2>1. /\ pc[<<c, t>>] \in Busy /\ res'[<<c, t>>] = c /\ l = "asleep"
        /\ UNCHANGED <<sock, table, destroyed, freed, exit, left>>
        BY <1>1 DEF Sleep, Busy, Running
  <2> QED BY <2>1, Loops DEF Running
<1>2. CASE Woken(c, t, ts)
  <2>1. /\ pc[<<c, t>>] = "woken" /\ pc[<<c, t>>] \in Busy /\ res[<<c, t>>] = c
        /\ res'[<<c, t>>] = c /\ UNCHANGED <<sock, table, destroyed, freed, exit>>
        BY <1>2 DEF Woken, Busy, Running
  <2>2. CASE t \in exit[c]
    <3>1. l = "leave" /\ left'[c] = left[c] \cup {t}
          BY <1>2, <2>1, <2>2 DEF Woken
    <3> QED BY <2>1, <2>2, <3>1, Quits DEF Out, Running
  <2>3. CASE t \notin exit[c]
    <3>1. l = "loop" /\ left' = left
          BY <1>2, <2>1, <2>3 DEF Woken
    <3> QED BY <2>1, <3>1, Loops DEF Running
  <2> QED BY <2>2, <2>3
<1>3. CASE Unlock(c, t)
  <2>1. /\ pc[<<c, t>>] = "leave" /\ res'[<<c, t>>] = c /\ l = "end"
        /\ UNCHANGED <<sock, table, destroyed, freed, exit, left>>
        BY <1>3 DEF Unlock
  <2> QED BY <2>1, Quits DEF Out
<1> QED BY <1>1, <1>2, <1>3

\* The sender's own steps.
LEMMA SenderConn ==
    ASSUME Common, NEW c \in Conns, Conn(c), SenderStep(c), c \notin early' \cup robbed'
    PROVE  Conn(c)'
<1> DEFINE l == pc'[<<c, Sender>>]
<1>0. Sender \in Threads /\ Sender \in Ends
      BY Constants
<1>1. Thread(c, Sender)
      BY DEF Thread
<1> USE <1>0, <1>1, Facts DEF kernelVars, resVars, threadVars, ghostVars, PCs
<1>2. CASE SendLoop(c)
  <2>1. /\ pc[<<c, Sender>>] \in Busy
        /\ res'[<<c, Sender>>] = c /\ l \in {"doze", "send"}
        /\ UNCHANGED <<sock, table, destroyed, freed, exit, left>>
        BY <1>2 DEF SendLoop, Busy, Running
  <2> QED BY <2>1, Loops DEF Running
<1>3. CASE Sends(c)
  <2>1. /\ pc[<<c, Sender>>] \in Busy
        /\ res'[<<c, Sender>>] = c /\ l \in {"loop", "failed"}
        /\ UNCHANGED <<sock, table, destroyed, freed, exit, left>>
        BY <1>3 DEF Sends, Busy, Running
  <2> QED BY <2>1, Loops DEF Running
<1> QED BY <1>2, <1>3, WaitConn, EndConn DEF SenderStep

\* A worker's own steps.
LEMMA WorkerConn ==
    ASSUME Common, NEW c \in Conns, Conn(c), NEW w \in Workers, WorkerStep(c, w)
    PROVE  Conn(c)'
<1> DEFINE l == pc'[<<c, w>>]
<1>0. w \in Threads /\ {Sender} \in SUBSET Threads
      BY Constants
<1>1. Thread(c, w)
      BY DEF Thread
<1> USE <1>0, <1>1, Facts DEF kernelVars, resVars, threadVars, ghostVars, PCs
<1>2. CASE StartWorker(c, w)
  <2>1. /\ pc[<<c, w>>] \in Busy
        /\ res'[<<c, w>>] = c /\ l = "loop"
        /\ UNCHANGED <<sock, table, destroyed, freed, exit, left>>
        BY <1>2 DEF StartWorker, Busy, Running
  <2> QED BY <2>1, Loops DEF Running
<1>3. CASE WorkerLoop(c, w)
  <2>1. /\ pc[<<c, w>>] \in Busy
        /\ res'[<<c, w>>] = c /\ l \in {"doze", "work"}
        /\ UNCHANGED <<sock, table, destroyed, freed, exit, left>>
        BY <1>3 DEF WorkerLoop, Busy, Running
  <2> QED BY <2>1, Loops DEF Running
<1>4. CASE Work(c, w)
  <2>1. /\ pc[<<c, w>>] \in Busy
        /\ res'[<<c, w>>] = c /\ l = "loop"
        /\ UNCHANGED <<sock, table, destroyed, freed, exit, left>>
        BY <1>4 DEF Work, Busy, Running
  <2> QED BY <2>1, Loops DEF Running
<1> QED BY <1>2, <1>3, <1>4, WaitConn DEF WorkerStep

-----------------------------------------------------------------------------
(* The steps of main and of the access servers.                               *)

\* A connection that main accepts is sound from the start.
LEMMA AcceptConn ==
    ASSUME Common, Accept, NEW c \in Conns, c < nconn' => Conn(c), c =< nconn'
    PROVE  Conn(c)'
<1> USE DEF kernelVars, resVars, threadVars, ghostVars
<1>1. nconn \in Nat /\ nconn' = nconn + 1 /\ sock' = nconn + 1 /\ sock = 0 /\ c \in Nat
      /\ mpc = "accept" /\ mpc' = "insert" /\ c # 0
      BY Constants DEF Accept, Common, TypeOK, Conns
<1>2. CASE c = nconn + 1
  <2>1. /\ \A t \in Threads : pc'[<<c, t>>] = "none"
        /\ exit'[c] = {} /\ left'[c] = {} /\ c \notin destroyed' \cup freed' /\ sock' = c
        /\ \A k \in Conns, t \in Threads : res'[<<k, t>>] # c
    <3>1. c > nconn /\ \A k \in Conns, t \in Threads : res[<<k, t>>] \in Nat /\ res[<<k, t>>] < c
          BY <1>1, <1>2 DEF Common, TypeOK, Known
    <3> QED BY <1>1, <1>2, <3>1 DEF Accept, Common, Unborn, Fresh
  <2> HIDE DEF kernelVars, resVars, threadVars, ghostVars
  <2>2. SetUp(c)' /\ Complete(c)' /\ OwnResource(c)' /\ Listed(c)'
        BY <1>1, <1>2, <2>1 DEF Inserting, SetUp, Complete, OwnResource, Listed, InSetup
  <2>3. LeftOut(c)' /\ Awaited(c)' /\ AllOut(c)' /\ Relieved(c)'
        BY <2>1, Constants DEF LeftOut, Awaited, AllOut, Relieved, Out
  <2> QED BY <2>2, <2>3 DEF Conn
<1>3. CASE c # nconn + 1
  <2>1. c < nconn' /\ c # nconn' /\ ~InSetup(c) /\ ~InSetup(c)' /\ sock # c /\ sock' # c
        BY <1>1, <1>3 DEF InSetup
  <2>2. UNCHANGED <<table, resVars, threadVars>>
        BY DEF Accept
  <2>3. SetUp(c)' /\ Complete(c)' /\ OwnResource(c)' /\ Listed(c)'
        BY <1>1, <2>1, <2>2 DEF Inserting, SetUp, Complete, OwnResource, Listed, InSetup, Conn
  <2>4. LeftOut(c)' /\ Awaited(c)' /\ AllOut(c)' /\ Relieved(c)'
        BY <2>1, <2>2 DEF LeftOut, Awaited, AllOut, Relieved, Conn
  <2> QED BY <2>3, <2>4 DEF Conn
<1> QED BY <1>2, <1>3

LEMMA PeerConn ==
    ASSUME Common, NEW c \in Conns, Conn(c), NEW k \in Conns, PeerSends(k) \/ PeerGone(k)
    PROVE  Conn(c)'
<1>1. Still(c)
      BY DEF PeerSends, PeerGone, resVars, threadVars, ghostVars, Still, Kept, Idle
<1>2. OwnResource(c)'
      BY DEF PeerSends, PeerGone, resVars, threadVars, ghostVars, Conn, OwnResource
<1> QED BY <1>1, <1>2, StillConn DEF Common

\* Main's steps for the connection it sets up, and for the earlier ones.
LEMMA MainConn ==
    ASSUME Common, NEW c \in Conns, Conn(c), c =< nconn, Main
    PROVE  Conn(c)'
<1> USE DEF kernelVars, resVars, threadVars, ghostVars
<1>0. /\ nconn \in Conns /\ nconn # 0 /\ 0 \notin Conns /\ sock \in {0, nconn}
      /\ mpc # "accept" /\ InSetup(c) <=> c = nconn
      BY Constants DEF Main, HashInsert, HashGetItem, ReplaceResource, SpawnEnds, CreatePool,
                       Publish, Common, TypeOK, Known, Conns, InSetup
<1>8. ASSUME mpc \in Inserting, mpc' \in Inserting \cup {"spawn"},
             UNCHANGED <<sock, nconn, ids, exit, left, destroyed, pc, res, awaits>>,
             c \in freed' <=> c \in freed \/ (table = c /\ mpc = "replace"),
             Listed(c)'
      PROVE  Conn(c)'
  <2>1. c = nconn => c \notin freed'
        BY <1>0, <1>8 DEF Conn, SetUp, Common, Known
  <2>2. SetUp(c)' /\ Complete(c)' /\ OwnResource(c)'
        BY <1>0, <1>8, <2>1 DEF Conn, SetUp, Complete, OwnResource, InSetup, Inserting
  <2>3. LeftOut(c)' /\ Awaited(c)' /\ AllOut(c)'
        BY <1>8 DEF Conn, LeftOut, Awaited, AllOut
  <2>4. Relieved(c)'
        BY <1>8 DEF Conn, Relieved
  <2> QED BY <1>8, <2>2, <2>3, <2>4 DEF Conn
<1>1. CASE HashInsert
  <2>1. /\ UNCHANGED <<sock, nconn, ids, exit, left, destroyed, freed, pc, res, awaits>>
        /\ mpc = "insert" /\ table # nconn
        /\ \/ table = 0 /\ table' = nconn /\ mpc' = "spawn"
           \/ table # 0 /\ table' = table /\ mpc' = "get"
        BY <1>1 DEF HashInsert, Common, Known, Inserting
  <2>2. Listed(c)'
        BY <1>0, <2>1 DEF Conn, SetUp, Listed, Inserting
  <2> QED BY <1>8, <2>1, <2>2 DEF Inserting
<1>9. CASE HashGetItem
  <2>1. /\ UNCHANGED <<sock, nconn, ids, exit, left, destroyed, freed, table, pc, res, awaits>>
        /\ mpc = "get" /\ mpc' = (IF table = 0 THEN "spawn" ELSE "replace")
        BY <1>9 DEF HashGetItem
  <2>2. Listed(c)'
        BY <1>0, <2>1 DEF Conn, Listed, Inserting
  <2> QED BY <1>8, <2>1, <2>2 DEF Inserting
<1>10. CASE ReplaceResource
  <2>1. /\ UNCHANGED <<sock, nconn, ids, exit, left, destroyed, pc, res, awaits>>
        /\ mpc = "replace" /\ mpc' = "spawn" /\ table # nconn
        /\ table' = (IF table = 0 THEN 0 ELSE nconn)
        /\ freed' = freed \cup ({table} \ {0})
        BY <1>10 DEF ReplaceResource, Common, Known, Inserting
  <2>2. Listed(c)'
    <3>1. CASE c = nconn
          BY <1>0, <2>1, <3>1 DEF Conn, SetUp, Listed
    <3>2. CASE c # nconn
          BY <1>0, <2>1, <3>2 DEF Conn, Listed
    <3> QED BY <3>1, <3>2
  <2> QED BY <1>0, <1>8, <2>1, <2>2 DEF Inserting
<1>2. ASSUME NEW ts \in SUBSET Threads, mpc \in {"spawn", "pool"},
             mpc' = (IF mpc = "spawn" THEN "pool" ELSE "pubR"),
             ts = IF mpc = "spawn" THEN Ends ELSE Workers,
             pc' = [x \in Conns \X Threads |-> IF x \in {nconn} \X ts THEN "start" ELSE pc[x]],
             UNCHANGED <<sock, nconn, table, exit, left, destroyed, freed, res, awaits>>,
             ids' = IF mpc = "spawn" THEN ids ELSE [ids EXCEPT ![nconn] = @ \cup Workers]
      PROVE  Conn(c)'
  <2>1. \A k \in Conns, t \in Threads :
            pc'[<<k, t>>] = IF k = nconn /\ t \in ts THEN "start" ELSE pc[<<k, t>>]
        BY <1>2
  <2>2. mpc' # "accept" /\ mpc' \notin Inserting /\ mpc \notin Inserting
        BY <1>2 DEF Inserting
  <2>3. ids \in [Conns -> SUBSET Threads] /\ left \in [Conns -> SUBSET Threads]
        BY DEF Common, TypeOK
  <2>4. CASE c = nconn
    <3>1. exit[c] = {} /\ left[c] = {} /\ sock = c /\ c \notin destroyed \cup freed
          BY <1>0, <2>4 DEF Conn, SetUp
    <3>2. \A t \in Threads : pc'[<<c, t>>] \in {"none", "start"} \cup Running
          BY <1>0, <2>1, <2>4 DEF Conn, SetUp
    <3>3. mpc' = "pool" => \A t \in Ends : pc'[<<c, t>>] # "none"
          BY <1>2, <2>1, <2>4, Constants
    <3>4. mpc' \in {"pubR", "pubS"} =>
              Workers \subseteq ids'[c] /\ \A t \in Threads : pc'[<<c, t>>] # "none"
      <4>1. ASSUME mpc = "pool", NEW t \in Threads
            PROVE  pc'[<<c, t>>] # "none"
        <5>1. CASE t \in Workers
              BY <1>2, <2>1, <2>4, <4>1, <5>1
        <5>2. CASE t \in Ends
              BY <1>0, <2>1, <2>4, <4>1, <5>2, Constants DEF Conn, SetUp
        <5> QED BY <5>1, <5>2 DEF Threads, Ends
      <4>2. mpc = "pool" => Workers \subseteq ids'[c]
            BY <1>0, <1>2, <2>3, <2>4
      <4> QED BY <1>2, <4>1, <4>2
    <3>5. SetUp(c)'
          BY <1>2, <3>1, <3>2, <3>3, <3>4 DEF SetUp
    <3>6. Complete(c)' /\ Listed(c)'
          BY <1>2, <2>2, <2>4 DEF Conn, Complete, Listed, InSetup
    <3>7. OwnResource(c)'
      <4>1. \A t \in Threads : pc'[<<c, t>>] \notin {"none", "start"}
                                  => pc[<<c, t>>] \notin {"none", "start"}
            BY <2>1
      <4>2. \A k \in Conns \ {c}, t \in Threads : pc'[<<k, t>>] = pc[<<k, t>>]
            BY <2>1, <2>4
      <4> QED BY <1>2, <4>1, <4>2 DEF Conn, OwnResource
    <3>8. \A t \in Threads : pc'[<<c, t>>] \notin Teardown \cup Out
          BY <3>2 DEF Teardown, Out, Running
    <3>9. LeftOut(c)' /\ AllOut(c)' /\ Relieved(c)'
          BY <1>2, <3>1, <3>8, Constants DEF LeftOut, AllOut, Relieved
    <3>10. Awaited(c)'
          BY <3>8, Constants DEF Awaited, Teardown
    <3> QED BY <3>5, <3>6, <3>7, <3>9, <3>10 DEF Conn
  <2>5. CASE c # nconn
    <3>1. /\ \A t \in Threads : pc'[<<c, t>>] = pc[<<c, t>>]
          /\ ids'[c] = ids[c] /\ ~InSetup(c) /\ ~InSetup(c)'
          BY <1>0, <1>2, <2>1, <2>3, <2>5 DEF InSetup
    <3>3. OwnResource(c)'
      <4>1. ASSUME NEW k \in Conns \ {c}, NEW t \in Threads, res'[<<k, t>>] = c
            PROVE  pc'[<<k, t>>] = "end"
        <5>1. res[<<k, t>>] = c /\ pc[<<k, t>>] = "end"
              BY <1>2, <4>1 DEF Conn, OwnResource
        <5>2. CASE k = nconn /\ t \in ts
              BY <1>2, <5>1, <5>2, Constants DEF Common, Unborn
        <5>3. CASE ~(k = nconn /\ t \in ts)
              BY <2>1, <5>1, <5>3
        <5> QED BY <5>2, <5>3
      <4> QED BY <1>2, <3>1, <4>1 DEF Conn, OwnResource
    <3>4. SetUp(c)' /\ Complete(c)' /\ Listed(c)'
          BY <1>2, <2>2, <2>5, <3>1 DEF Conn, SetUp, Complete, Listed
    <3>5. \A t \in Ends : pc'[<<c, t>>] = pc[<<c, t>>] /\ pc'[<<c, Peer(t)>>] = pc[<<c, Peer(t)>>]
          BY <3>1, Constants
    <3>6. \A w \in Workers : pc'[<<c, w>>] = pc[<<c, w>>]
          BY <3>1, Constants
    <3>7. LeftOut(c)'
          BY <1>2, <2>3, <3>1 DEF Conn, LeftOut
    <3>8. Awaited(c)' /\ Relieved(c)'
          BY <1>2, <3>5, <3>6 DEF Conn, Awaited, Relieved
    <3>9. AllOut(c)'
          BY <1>2, <3>5, <3>6 DEF Conn, AllOut
    <3> QED BY <3>3, <3>4, <3>7, <3>8, <3>9 DEF Conn
  <2> QED BY <2>4, <2>5
<1>3. CASE SpawnEnds
      BY <1>2, <1>3, Constants DEF SpawnEnds
<1>4. CASE CreatePool
  <2>1. CASE table # 0
    <3>1. table = nconn /\ mpc = "pool" /\ mpc' = "pubR" /\ UNCHANGED sock
          BY <1>4, <2>1 DEF CreatePool, Common, Known
    <3>2. /\ ids' = [ids EXCEPT ![nconn] = @ \cup Workers]
          /\ pc' = [x \in Conns \X Threads |->
                      IF x \in {nconn} \X Workers THEN "start" ELSE pc[x]]
          /\ UNCHANGED <<nconn, table, exit, left, destroyed, freed, res, awaits>>
          BY <1>4, <2>1, <3>1 DEF CreatePool
    <3> QED BY <1>2, <3>1, <3>2, Constants
  <2>2. CASE table = 0
    <3>1. c # nconn
          BY <1>0, <1>4, <2>2 DEF Inserting, CreatePool, Conn, SetUp, Listed
    <3>2. /\ UNCHANGED <<nconn, table, ids, exit, left, destroyed, freed, pc, res, awaits>>
          /\ sock # c /\ sock' # c /\ ~InSetup(c) /\ ~InSetup(c)'
          BY <1>0, <1>4, <2>2, <3>1 DEF CreatePool, InSetup
    <3>3. SetUp(c)' /\ Complete(c)' /\ OwnResource(c)' /\ Listed(c)'
          BY <3>1, <3>2 DEF Conn, SetUp, Complete, OwnResource, Listed
    <3>4. LeftOut(c)' /\ Awaited(c)' /\ AllOut(c)' /\ Relieved(c)'
          BY <3>2 DEF Conn, LeftOut, Awaited, AllOut, Relieved
    <3> QED BY <3>3, <3>4 DEF Conn
  <2> QED BY <2>1, <2>2
<1>5. ASSUME NEW t \in Ends, NEW here, NEW next, Publish(t, here, next),
             \/ t = Receiver /\ here = "pubR" /\ next = "pubS"
             \/ t = Sender /\ here = "pubS" /\ next = "accept"
      PROVE  Conn(c)'
  <2>1. /\ UNCHANGED <<sock, nconn, table, destroyed, freed, pc, res, awaits>>
        /\ mpc \in {"pubR", "pubS"} /\ mpc' \in {"pubS", "accept"}
        /\ mpc' = "pubS" => t = Receiver
        /\ mpc' = "accept" => t = Sender /\ mpc = "pubS"
        BY <1>5 DEF Publish
  <2>2. /\ ids'[c] = IF c = nconn THEN ids[c] \cup {t} ELSE ids[c]
        /\ exit'[c] \subseteq exit[c] /\ left'[c] \subseteq left[c]
        /\ c # nconn => exit'[c] = exit[c] /\ left'[c] = left[c]
        BY <1>0, <1>5 DEF Publish, Common, TypeOK
  <2>3. SetUp(c)'
        BY <1>0, <2>1, <2>2 DEF Conn, SetUp, InSetup
  <2>4. Complete(c)'
    <3>1. CASE c = nconn
      <4> SUFFICES ASSUME mpc' = "accept"
                   PROVE  Threads \subseteq ids'[c] /\ \A u \in Threads : pc'[<<c, u>>] # "none"
          BY <2>1, <3>1 DEF Complete, InSetup
      <4> QED BY <1>0, <2>1, <2>2, <3>1 DEF Conn, SetUp, InSetup, Threads
    <3>2. CASE c # nconn
          BY <2>1, <2>2, <3>2 DEF Conn, Complete, InSetup
    <3> QED BY <3>1, <3>2
  <2>5. OwnResource(c)' /\ Listed(c)'
        BY <2>1 DEF Inserting, Conn, OwnResource, Listed
  <2>6. LeftOut(c)' /\ Awaited(c)' /\ AllOut(c)' /\ Relieved(c)'
        BY <2>1, <2>2 DEF Conn, LeftOut, Awaited, AllOut, Relieved
  <2> QED BY <2>3, <2>4, <2>5, <2>6 DEF Conn
<1>6. Receiver \in Ends /\ Sender \in Ends
      BY Constants
<1> QED BY <1>1, <1>3, <1>4, <1>5, <1>6, <1>9, <1>10 DEF Main

-----------------------------------------------------------------------------
(* The inductive invariant.                                                   *)

LEMMA InitIInv == Init => IInv
<1>1. Init => Sound = {}
      BY DEF Init, Sound
<1> QED BY <1>1, InitCommon DEF IInv

LEMMA NextIInv == IInv /\ [Next]_vars => IInv'
<1> SUFFICES ASSUME IInv, [Next]_vars, NEW c \in Sound' PROVE Conn(c)'
    BY NextCommon DEF IInv
<1> USE DEF IInv
<1>0. c \in 1..nconn' /\ c \notin early' \cup robbed' /\ Common' /\ nconn \in Nat
      /\ nconn' \in 0..MaxConns
      BY NextCommon DEF Sound, Common, TypeOK
<1>1. c \in Conns
      BY <1>0, Constants DEF Conns
<1>2. CASE Accept
  <2>1. nconn' = nconn + 1 /\ early' = early /\ robbed' = robbed
        BY <1>2 DEF Accept, ghostVars
  <2>2. c < nconn' => Conn(c)
        BY <1>0, <2>1 DEF Sound
  <2> QED BY <1>0, <1>1, <1>2, <2>2, AcceptConn
<1>3. ASSUME UNCHANGED <<nconn, early, robbed>>
      PROVE  Conn(c) /\ c =< nconn
      BY <1>0, <1>3 DEF Sound
<1>4. CASE Main
  <2>1. UNCHANGED <<nconn, early, robbed>>
        BY <1>4 DEF Main, HashInsert, HashGetItem, ReplaceResource, SpawnEnds, CreatePool, Publish, kernelVars, ghostVars
  <2> QED BY <1>1, <1>3, <1>4, <2>1, MainConn
<1>5. ASSUME NEW k \in Conns, PeerSends(k) \/ PeerGone(k)
      PROVE  Conn(c)'
  <2>1. UNCHANGED <<nconn, early, robbed>>
        BY <1>5 DEF PeerSends, PeerGone, ghostVars
  <2> QED BY <1>1, <1>3, <1>5, <2>1, PeerConn
<1>6. ASSUME NEW k \in Conns, NEW t \in Threads, Thread(k, t)
      PROVE  Conn(c)'
  <2>1. pc'[<<k, t>>] \in PCs /\ Tame(k, t, pc'[<<k, t>>])
        BY <1>6, ThreadTame
  <2>2. Conn(c)
        BY <1>0, <2>1 DEF Tame, Sound
  <2>3. CASE k = c
        BY <1>0, <1>1, <1>6, <2>2, <2>3, ReceiverConn, SenderConn, WorkerConn DEF Thread
  <2>4. CASE k # c
        BY <1>0, <1>1, <2>1, <2>2, <2>4, Foreign
  <2> QED BY <2>3, <2>4
<1>7. CASE UNCHANGED vars
  <2>1. Conn(c)
        BY <1>3, <1>7 DEF vars, kernelVars, ghostVars
  <2> QED BY <1>7, <2>1 DEF vars, kernelVars, resVars, threadVars, ghostVars, Conn, SetUp,
             Complete, OwnResource, Listed, LeftOut, Awaited, AllOut, Relieved, InSetup
<1> QED BY <1>2, <1>4, <1>5, <1>6, <1>7, Steps

LEMMA Invariant == Spec => []IInv
BY InitIInv, NextIInv, PTL DEF Spec

\* The types, for every number of connections, workers and messages: every index of a
\* resource, of a queue and of a status is one of an accepted connection, and no queue
\* exceeds its capacity (StThread_Resource, PutMsgToSeqQueue).
THEOREM TypeCorrect == Spec => []TypeOK
<1>1. IInv => TypeOK
      BY DEF IInv, Common
<1> QED BY <1>1, Invariant, PTL

\* When the queues and the pool of a sound connection are destroyed, and when its resource
\* is freed, its other threads have left their loops (DestroyQueues, DelThreadResFromHash),
\* whatever the number of workers and however the signals fall.  Nothing is said of a
\* thread that has reported THREAD_EXIT and not yet unlocked its queue.
THEOREM NobodyUsesWhatIsFreed == Spec => []NobodyInside
<1>1. IInv => NobodyInside
  <2> SUFFICES ASSUME IInv, NEW c \in Sound, c \in destroyed \cup freed, NEW t \in Threads
               PROVE  ~Inside(c, t)
      BY DEF NobodyInside
  <2>1. Conn(c)
        BY DEF IInv
  <2>2. (t \in Workers => pc[<<c, t>>] \in Out)
        /\ (t \in Ends => pc[<<c, t>>] \in Out \cup {"close", "del"})
    <3>1. CASE c \in destroyed
          BY <2>1, <3>1 DEF Conn, AllOut
    <3>2. CASE c \in freed
          BY <2>1, <3>2 DEF Conn, AllOut, Listed
    <3> QED BY <3>1, <3>2
  <2> QED BY <2>2 DEF Inside, Threads, Ends, Out, Teardown
<1> QED BY <1>1, Invariant, PTL

\* No message goes to another access server: while an end of a sound connection may
\* receive or send, the descriptor it uses stands for this connection, though the kernel
\* hands the same descriptor to the next one, whose resource is inserted in three steps
\* (RecvAccessSrvMsgThread, SndMsgToAccessSrvThread, InsertThreadResourceToHash).
THEOREM DescriptorsAreNotMixedUp == Spec => []SocketOwned
<1>1. IInv => SocketOwned
  <2> SUFFICES ASSUME IInv, NEW c \in Sound, NEW t \in Ends, Inside(c, t)
               PROVE  sock = c
      BY DEF SocketOwned
  <2> QED BY DEF IInv, Conn, AllOut, Inside, Out, Teardown
<1> QED BY <1>1, Invariant, PTL

\* A sound connection whose threads have all ended leaves nothing behind: its descriptor
\* is closed, its resource freed, its entry gone from the table (DelThreadResFromHash), or
\* replaced by that of the next connection (InsertThreadResourceToHash).  A connection
\* whose insertion a deletion came between is not sound.
THEOREM TeardownLeavesNothing == Spec => []NothingLeaks
<1>1. IInv => NothingLeaks
  <2> SUFFICES ASSUME IInv, NEW c \in Sound, mpc = "accept",
                      \A t \in Threads : pc[<<c, t>>] = "end"
               PROVE  sock # c /\ table # c /\ c \in freed
      BY DEF NothingLeaks
  <2>1. Conn(c)
        BY DEF IInv
  <2>2. pc[<<c, Receiver>>] = "end" /\ pc[<<c, Peer(Receiver)>>] = "end"
        BY Constants
  <2>3. c \in freed
        BY <2>1, <2>2, Constants DEF Conn, Relieved, Out, Teardown
  <2> QED BY <2>1, <2>3 DEF Conn, Listed, Inserting
<1> QED BY <1>1, Invariant, PTL

\* The set-up of a sound connection goes on with its own resource: what CreateThreadPool
\* finds under the descriptor, and what is there until the thread ids are written, is the
\* resource of the connection, for every number of connections that went before it on the
\* descriptor (InsertThreadResourceToHash, RunThreadPoolModeServer).
THEOREM SetupFindsItsOwn == Spec => []SetupFinds
<1>1. IInv => SetupFinds
  <2> SUFFICES ASSUME IInv, mpc \in {"spawn", "pool", "pubR", "pubS"}, nconn \in Sound
               PROVE  table = nconn
      BY DEF SetupFinds
  <2>1. Conn(nconn)
        BY DEF IInv
  <2>2. nconn \notin freed
        BY <2>1 DEF Conn, SetUp, InSetup
  <2> QED BY <2>1, <2>2 DEF Conn, Listed, Inserting
<1> QED BY <1>1, Invariant, PTL
=============================================================================
