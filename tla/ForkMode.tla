------------------------------ MODULE ForkMode ------------------------------
(***************************************************************************)
(* The access server when it is configured to run without epoll             *)
(* (ProcessSimpleMode): processes that share two message queues, a table of *)
(* service servers in shared memory, and descriptors they inherit.          *)
(*                                                                          *)
(*   main       connects to the service servers (its routing thread), forks *)
(*              a receiver for each, then the two senders, then one process *)
(*              for each client that it accepts                             *)
(*   client     turns what its client sends into requests (g_iQid)          *)
(*   sender     takes requests, finds a server of their kind in the table   *)
(*              and sends them on (S_SndMsgToServer)                        *)
(*   receivers  put the answers of their server into g_iSndCliQid           *)
(*   returner   takes a client's descriptor and an answer (SndMsgToCli)     *)
(*                                                                          *)
(* A descriptor is a number that each process looks up in its own table,    *)
(* copied when it was forked; the table of servers holds the numbers of     *)
(* main.  External are the service servers and the kernel.                  *)
(***************************************************************************)
EXTENDS Integers, Sequences, FiniteSets, SequencesExt

CONSTANTS
    Configs,     \* server lists: the lines of the file in the order of the map
    Kinds,       \* pairs of main and sub codes
    Wants,       \* the kinds each client asks for
    MaxClients,  \* bound: clients accepted
    MaxAsks,     \* bound: requests of a client
    MaxWakes,    \* bound: new lines found by MaintainConfFile
    MaxFaults,   \* bound: failures in a behaviour
    MaxFd        \* bound: descriptors, those of the listener and the socket pair left out

ASSUME ForkAssumption ==
    /\ \A c \in Configs : c \in Seq([kind : Kinds, seq : Nat \ {0}]) /\ c # <<>>
    /\ Wants \in [1..MaxClients -> SUBSET Kinds]
    /\ MaxClients \in Nat /\ MaxAsks \in Nat /\ MaxWakes \in Nat
    /\ MaxFaults \in Nat
    /\ MaxFd \in Nat

VARIABLES
    conf,      \* the server list: m_mapSerConnInfo without the sockets
    sock,      \* vecConnInfo[i].nSock of main: a number, or 0
    files,     \* the descriptors of main: what each number stands for
    awake,     \* nAwake_thread_flg of main
    rpc, newfd,    \* routing thread: step, socket under construction
    mpc,       \* main thread: step
    size, shm, \* shared memory: the count and the entries
    sem,       \* the semaphore
    written,   \* history: the table of this run is in shared memory
    stale,     \* history: the table of an earlier run was there at the start
    twice,     \* history: a socket was closed whose number stays in vecConnInfo
    passed,    \* clients whose descriptors were written to the socket pair
    accepted,  \* clients accepted
    asked,     \* requests made by each client
    queue,     \* g_iQid
    spc, req, found, sfiles,    \* sender: step, request, entry found, descriptors
    sought,    \* the kind and number the sender looks for
    missed,    \* history: the sender left its search with the semaphore taken
    sent,      \* requests and the server each of them reached
    receivers, \* servers whose receiver runs
    rfiles,    \* the descriptors of each receiver
    answers,   \* g_iSndCliQid
    gave,      \* answers in the order they were sent, with the client each went to
    wakes, faults

routeVars == <<sock, files, awake, rpc, newfd, size, shm, written, twice>>
clientVars == <<passed, accepted, asked>>
senderVars == <<spc, req, found, sought, missed, sent>>
receiverVars == <<receivers, rfiles>>
returnVars == <<answers, gave>>
bounds == <<wakes, faults>>
forkVars == <<conf, routeVars, mpc, sem, stale, clientVars, queue, senderVars, sfiles,
              receiverVars, returnVars, bounds>>

Fds == 1..MaxFd
Lines == 1..Len(conf)
Entry(i) == [kind |-> conf[i].kind, seq |-> conf[i].seq, nSock |-> sock[i]]
\* g_mapSrvInfo has one element for each kind and number: its keys join the digits of
\* both, which tells them apart since the codes of a kind have one digit.
Keys == {conf[i] : i \in Lines}

None == <<"none", 0>>
Server(i) == <<"server", i>>
Client(c) == <<"client", c>>
\* The kernel gives out the lowest free number.
Free(n) == files[n] = None /\ \A m \in Fds : m < n => files[m] # None

Fault == faults < MaxFaults /\ faults' = faults + 1

\* The numbers of the table in shared memory, if an earlier run of the program left one:
\* the segment outlives it, and InitShm does not clear it.
EarlierTables(c) ==
    {[i \in 1..Len(c) |-> [kind |-> c[i].kind, seq |-> c[i].seq, nSock |-> i + 1]]}

\* A message that an earlier run left in a queue: InitMsgQueue opens the two queues by
\* fixed keys and does not empty them.  It stands for a client of that run.
Left(k, n) == [cli |-> 0, kind |-> k, n |-> n]
EarlierRequests == {<<>>} \cup {<<Left(k, 1)>> : k \in Kinds}
EarlierAnswers == {<<>>} \cup {<<Left(k, 2)>> : k \in Kinds}

ForkInit ==
    /\ conf \in Configs
    /\ sock = [i \in Lines |-> 0]
    /\ files = [n \in Fds |-> None]
    /\ awake = TRUE /\ mpc = "sleep"
    /\ rpc = "look" /\ newfd = 0
    /\ shm \in {<<>>} \cup EarlierTables(conf)
    /\ size = Len(shm) /\ stale = (shm # <<>>)
    /\ sem = 1
    /\ written = FALSE /\ twice = FALSE
    /\ passed = <<>> /\ accepted = 0 /\ asked = [c \in 1..MaxClients |-> 0]
    /\ queue \in EarlierRequests
    /\ spc = "none" /\ req = <<>> /\ found = 0 /\ sought = <<>>
    /\ missed = FALSE /\ sent = {}
    /\ sfiles = [n \in Fds |-> None]
    /\ receivers = {} /\ rfiles = [i \in Lines |-> [n \in Fds |-> None]]
    /\ answers \in EarlierAnswers
    /\ gave = <<>>
    /\ wakes = 0 /\ faults = 0

-----------------------------------------------------------------------------
(* The routing thread of main: RoutingMaintainThread, ConnectServiceServers.  *)

RouterKeeps ==
    UNCHANGED <<conf, mpc, stale, clientVars, queue, senderVars, sfiles, returnVars, wakes>>

\* A pass over vecConnInfo: a server that has a socket is passed over.
Unconnected == {i \in Lines : sock[i] = 0}
Next1 == CHOOSE i \in Unconnected : \A j \in Unconnected : i =< j

\* Socket, then connect until it succeeds.
ConnectSrv ==
    /\ rpc = "look" /\ awake /\ Unconnected # {}
    /\ \E n \in Fds :
          /\ Free(n)
          /\ files' = [files EXCEPT ![n] = Server(Next1)]
          /\ newfd' = n
    /\ rpc' = "connected"
    /\ RouterKeeps
    /\ UNCHANGED <<sock, awake, size, shm, sem, written, twice, receiverVars, faults>>

\* SndAfterConnSrvMsg fails: the descriptor stays open and the next pass makes another.
SndAfterConnSrvMsgFails ==
    /\ rpc = "connected"
    /\ Fault
    /\ rpc' = "look" /\ newfd' = 0
    /\ RouterKeeps
    /\ UNCHANGED <<sock, files, awake, size, shm, sem, written, twice, receiverVars>>

\* The receiver is forked with a copy of all that main has.
ForkReceiver ==
    /\ rpc = "connected"
    /\ sock' = [sock EXCEPT ![Next1] = newfd]
    /\ receivers' = receivers \cup {Next1}
    /\ rfiles' = [rfiles EXCEPT ![Next1] = files]
    /\ rpc' = "look" /\ newfd' = 0
    /\ RouterKeeps
    /\ UNCHANGED <<files, awake, size, shm, sem, written, twice, faults>>

\* No memory for its parameter: the socket is closed after its number was noted.
NoReceiver ==
    /\ rpc = "connected"
    /\ Fault
    /\ sock' = [sock EXCEPT ![Next1] = newfd]
    /\ files' = [files EXCEPT ![newfd] = None]
    /\ twice' = TRUE
    /\ rpc' = "look" /\ newfd' = 0
    /\ RouterKeeps
    /\ UNCHANGED <<awake, size, shm, sem, written, receiverVars>>

\* The count is set before the semaphore is taken.
SetSize ==
    /\ rpc = "look" /\ awake /\ Unconnected = {}
    /\ size' = Cardinality(Keys)
    /\ rpc' = "SemP"
    /\ RouterKeeps
    /\ UNCHANGED <<sock, files, awake, newfd, shm, sem, written, twice,
                   receiverVars, faults>>

\* SemP; the entries come next.
RouterSemP ==
    /\ rpc = "SemP" /\ sem = 1
    /\ sem' = 0
    /\ rpc' = "write"
    /\ RouterKeeps
    /\ UNCHANGED <<sock, files, awake, newfd, size, shm, written, twice,
                   receiverVars, faults>>

\* The last entry is left out.
OneShort ==
    /\ rpc = "write"
    /\ shm' = [i \in 1..Len(conf) - 1 |-> Entry(i)]
    /\ sem' = 1
    /\ written' = TRUE
    /\ rpc' = "done"
    /\ RouterKeeps
    /\ UNCHANGED <<sock, files, awake, newfd, size, twice, receiverVars, faults>>

\* The entries of vecConnInfo, then SemV.
WriteTable ==
    /\ rpc = "write"
    /\ shm' = [i \in Lines |-> Entry(i)]
    /\ sem' = 1
    /\ written' = TRUE
    /\ rpc' = "done"
    /\ RouterKeeps
    /\ UNCHANGED <<sock, files, awake, newfd, size, twice, receiverVars, faults>>

\* The flag is cleared whoever raised it meanwhile.
Asleep ==
    /\ rpc = "done"
    /\ awake' = FALSE
    /\ rpc' = "look"
    /\ RouterKeeps
    /\ UNCHANGED <<sock, files, newfd, size, shm, sem, written, twice,
                   receiverVars, faults>>

Router ==
    ConnectSrv \/ ForkReceiver \/ SetSize \/ RouterSemP \/ WriteTable \/ Asleep

\* MaintainConfFile has found a new line, which vecConnInfo does not get.
MaintainRoutingTable ==
    /\ wakes < MaxWakes /\ wakes' = wakes + 1
    /\ awake' = TRUE
    /\ UNCHANGED <<conf, sock, files, rpc, newfd, size, shm, written, twice, mpc,
                   sem, stale, clientVars, queue, senderVars, sfiles, receiverVars,
                   returnVars, faults>>

-----------------------------------------------------------------------------
(* The main thread. *)

MainKeeps ==
    UNCHANGED <<conf, sock, awake, rpc, newfd, size, shm, written, twice, sem, stale,
                queue, receiverVars, wakes>>

\* Two seconds after the start: the sender gets the descriptors that are open now.
ForkSenders ==
    /\ mpc = "sleep"
    /\ mpc' = "Accept"
    /\ spc' = "msgrcv" /\ sfiles' = files
    /\ MainKeeps
    /\ UNCHANGED <<files, clientVars, req, found, sought, missed, sent, returnVars, faults>>

\* Accept, fork, WriteFd: main keeps the descriptor of every client.
AcceptClient ==
    /\ mpc = "Accept" /\ accepted < MaxClients
    /\ accepted' = accepted + 1
    /\ passed' = Append(passed, accepted')
    /\ \E n \in Fds : Free(n) /\ files' = [files EXCEPT ![n] = Client(accepted')]
    /\ MainKeeps
    /\ UNCHANGED <<mpc, asked, senderVars, sfiles, returnVars, faults>>

\* The fork fails: the descriptor is closed, and WriteFd fails with it.
ClientNotForked ==
    /\ mpc = "Accept" /\ accepted < MaxClients
    /\ Fault
    /\ accepted' = accepted + 1
    /\ asked' = [asked EXCEPT ![accepted'] = MaxAsks]
    /\ MainKeeps
    /\ UNCHANGED <<mpc, files, passed, senderVars, sfiles, returnVars>>

\* S_RcvMsgFromClient: the process of the client queues what it has read.
S_RcvMsgFromClient(c, k) ==
    /\ c =< accepted /\ asked[c] < MaxAsks
    /\ asked' = [asked EXCEPT ![c] = @ + 1]
    /\ queue' = Append(queue, [cli |-> c, kind |-> k, n |-> asked'[c]])
    /\ UNCHANGED <<conf, routeVars, mpc, sem, stale, passed, accepted, senderVars, sfiles,
                   receiverVars, returnVars, bounds>>

-----------------------------------------------------------------------------
(* The sender: S_SndMsgToServer. *)

SenderKeeps ==
    UNCHANGED <<conf, routeVars, mpc, stale, clientVars, sfiles, receiverVars, returnVars, bounds>>

\* GetSrvSeq counts the lines of a kind and draws one of so many numbers.
OfKind(k) == {i \in Lines : conf[i].kind = k}
GetSrvSeq(k) == 1..Cardinality(OfKind(k))

\* A request of a kind without servers is dropped.
Msgrcv ==
    /\ spc = "msgrcv" /\ queue # <<>>
    /\ queue' = Tail(queue)
    /\ IF GetSrvSeq(Head(queue).kind) = {}
       THEN UNCHANGED <<spc, req, sought>>
       ELSE /\ req' = Head(queue)
            /\ \E seq \in GetSrvSeq(Head(queue).kind) :
                  sought' = [kind |-> Head(queue).kind, seq |-> seq]
            /\ spc' = "SemP"
    /\ SenderKeeps
    /\ UNCHANGED <<found, missed, sent, sem>>

SenderSemP ==
    /\ spc = "SemP" /\ sem = 1
    /\ sem' = 0
    /\ spc' = "search"
    /\ SenderKeeps
    /\ UNCHANGED <<queue, req, found, sought, missed, sent>>

Fits(e) == e.kind = sought.kind /\ e.seq = sought.seq
\* What lies behind the entries is zero and fits nothing.
Hits == {j \in 1..size : j =< Len(shm) /\ Fits(shm[j])}

\* The entry is taken and the semaphore kept.
FindKeeps ==
    /\ spc = "search"
    /\ \E j \in Hits :
          /\ \A i \in Hits : j =< i
          /\ found' = j
    /\ spc' = "Send"
    /\ SenderKeeps
    /\ UNCHANGED <<queue, req, sought, missed, sent, sem>>

\* The first entry that fits, then SemV.
Find ==
    /\ spc = "search"
    /\ \E j \in Hits :
          /\ \A i \in Hits : j =< i
          /\ found' = j
    /\ sem' = 1
    /\ spc' = "Send"
    /\ SenderKeeps
    /\ UNCHANGED <<queue, req, sought, missed, sent>>

NextMessage == spc' = "msgrcv" /\ req' = <<>> /\ found' = 0 /\ sought' = <<>>

\* No entry fits: the loop goes on without SemV.
Miss ==
    /\ spc = "search" /\ Hits = {}
    /\ missed' = TRUE
    /\ NextMessage
    /\ SenderKeeps
    /\ UNCHANGED <<queue, sem, sent>>

\* The number of the entry after the one that fits.
NextEntry(j) == shm[IF j < Len(shm) THEN j + 1 ELSE j].nSock

\* It is read from the table after SemV.
TheEntry(j) == shm[j].nSock

\* A send that fails is tried again.
TriesAgain ==
    /\ spc = "Send"
    /\ LET file == sfiles[TheEntry(found)]
       IN  IF file # None /\ file[2] \in receivers
           THEN /\ sent' = sent \cup {[req |-> req, to |-> file[2], as |-> sought]}
                /\ NextMessage
           ELSE UNCHANGED <<spc, req, found, sought, sent>>
    /\ SenderKeeps
    /\ UNCHANGED <<queue, sem, missed>>

\* The number is looked up among the descriptors the sender has.  What goes wrong is
\* noted in the sender's own copies of g_mapSrvInfo and of the flag: nobody reads them.
Send ==
    /\ spc = "Send"
    /\ LET file == sfiles[TheEntry(found)]
       IN  sent' = IF file # None /\ file[2] \in receivers
                   THEN sent \cup {[req |-> req, to |-> file[2], as |-> sought]}
                   ELSE sent
    /\ NextMessage
    /\ SenderKeeps
    /\ UNCHANGED <<queue, sem, missed>>

Sender == Msgrcv \/ SenderSemP \/ Find \/ Miss \/ Send

-----------------------------------------------------------------------------
(* The receivers: RecvMsgFromServiceSrv. *)

\* RecvResponseToClientMsg.  What RecvPushToClientMsg and RecvDisconWithClientMsg
\* receive goes to a queue of the receiver itself, which nobody serves.
Answered(r) == Contains(answers, r) \/ \E i \in 1..Len(gave) : gave[i].req = r
RecvResponseToClientMsg(i, s) ==
    /\ i \in receivers /\ s.to = i /\ ~Answered(s.req)
    /\ answers' = Append(answers, s.req)
    /\ UNCHANGED <<conf, routeVars, mpc, sem, stale, clientVars, queue, senderVars, sfiles,
                   receiverVars, gave, bounds>>

\* RecvForwardToClientMsg sends to the number a client has in main, which it looks up
\* among its own descriptors; when it has none it tells the server so.
ForwardedTo(i, n) == rfiles[i][n]

\* Recv fails: ResetSocketValue changes the receiver's copy, and the receiver ends.
ServerGone(i) ==
    /\ i \in receivers
    /\ Fault
    /\ receivers' = receivers \ {i}
    /\ UNCHANGED <<conf, routeVars, mpc, sem, stale, clientVars, queue, senderVars, sfiles,
                   rfiles, returnVars, wakes>>

-----------------------------------------------------------------------------
(* The returner: SndMsgToCli. *)

\* read_fd: the descriptor that comes after those the answers so far went to.
NextClient == passed[Len(gave) + 1]

\* The returner first waits for a descriptor and then for an answer.
SndMsgToCli ==
    /\ mpc = "Accept" /\ Len(gave) < Len(passed) /\ answers # <<>>
    /\ answers' = Tail(answers)
    /\ gave' = Append(gave, [req |-> Head(answers), to |-> NextClient])
    /\ UNCHANGED <<conf, routeVars, mpc, sem, stale, clientVars, queue, senderVars, sfiles,
                   receiverVars, bounds>>

-----------------------------------------------------------------------------

ForkNext ==
    \/ ConnectSrv
    \/ SndAfterConnSrvMsgFails
    \/ ForkReceiver
    \/ NoReceiver
    \/ SetSize
    \/ RouterSemP
    \/ WriteTable
    \/ Asleep
    \/ MaintainRoutingTable
    \/ ForkSenders
    \/ AcceptClient
    \/ ClientNotForked
    \/ \E c \in 1..MaxClients : \E k \in Wants[c] : S_RcvMsgFromClient(c, k)
    \/ Msgrcv
    \/ SenderSemP
    \/ Find
    \/ Miss
    \/ Send
    \/ \E i \in Lines, s \in sent : RecvResponseToClientMsg(i, s)
    \/ \E i \in Lines : ServerGone(i)
    \/ SndMsgToCli

\* The service servers accept in the end, and every process runs.
ForkFairness ==
    /\ WF_forkVars(Router) /\ WF_forkVars(ForkSenders) /\ WF_forkVars(Sender)

ForkSpec == ForkInit /\ [][ForkNext]_forkVars /\ ForkFairness

-----------------------------------------------------------------------------
(* Properties. *)

Requests == [cli : 0..MaxClients, kind : Kinds, n : Nat]
Files == {None} \cup {Server(i) : i \in Lines} \cup {Client(c) : c \in 1..MaxClients}

\* The types; an answer is given out to a request that was sent, unless an earlier run
\* left it; and the table of this run is the whole list.
ForkTypeOK ==
    /\ conf \in Configs /\ sock \in [Lines -> Fds \cup {0}]
    /\ files \in [Fds -> Files] /\ sfiles \in [Fds -> Files]
    /\ rfiles \in [Lines -> [Fds -> Files]] /\ receivers \subseteq Lines
    /\ {awake, written, stale, twice, missed} \subseteq BOOLEAN
    /\ sem \in {0, 1} /\ newfd \in Fds \cup {0}
    /\ asked \in [1..MaxClients -> 0..MaxAsks] /\ accepted \in 0..MaxClients
    /\ passed \in Seq(1..MaxClients) /\ queue \in Seq(Requests)
    /\ \A i \in 1..Len(gave) : gave[i].req.cli # 0 => gave[i].req \in {s.req : s \in sent}
    /\ written => size = Cardinality(Keys) /\ shm = [i \in Lines |-> Entry(i)]

\* A server list without a line twice in which the lines of a kind are numbered from 1.
WellNumbered ==
    /\ \A i, j \in Lines : conf[i] = conf[j] => i = j
    /\ \A i \in Lines : \A seq \in 1..Cardinality(OfKind(conf[i].kind)) :
            [kind |-> conf[i].kind, seq |-> seq] \in Keys

Inside(pc, step) == IF pc = step THEN 1 ELSE 0

\* The semaphore is taken by who is between SemP and SemV, and by nobody else, unless
\* the sender has looked for a server that is not in the table and left without SemV
\* (access_comm_service_srv_snd.c:560).  That happens only while main has not written
\* the table, or when the numbers of the file are not those GetSrvSeq counts.
SemAccounted ==
    /\ sem = 1 - Inside(rpc, "write") - Inside(spc, "search")
               - (IF missed /\ spc # "search" THEN 1 ELSE 0)
    /\ missed => spc # "search"
    /\ missed => ~written \/ ~WellNumbered

\* Who gets what was sent.  A request reaches a server of its kind with the number
\* drawn, although sender and main do not share their descriptors, unless the table is
\* that of an earlier run or a number was closed and used again.  A message for a client
\* reaches that client or nobody.
RightPeer ==
    /\ \A s \in sent :
          /\ s.as.kind = s.req.kind
          /\ conf[s.to] # s.as => stale \/ twice
    /\ \A i \in Lines, n \in Fds :
          files[n][1] = "client" => ForwardedTo(i, n) \in {files[n], None} \/ twice


Waits(c) == \E r \in {req} \cup ToSet(queue) : r # <<>> /\ r.cli = c

\* Every request, those an earlier run left included, is sent or dropped in the end, and
\* the table is written, unless the sender has left its search with the semaphore.
HandledInTheEnd ==
    /\ \A c \in 0..MaxClients : Waits(c) ~> (~Waits(c) \/ missed)
    /\ <>(written \/ missed)

=============================================================================
