-------------------------- MODULE ForkMode_proofs --------------------------
(* The invariants of ForkMode, for every server list, number of clients and    *)
(* bound on the failures.                                                      *)
EXTENDS ForkMode, FiniteSetTheorems, WellFoundedInduction, TLAPS

-----------------------------------------------------------------------------
(* The types of what is handed from process to process. *)

Types ==
    /\ accepted \in 0..MaxClients /\ asked \in [1..MaxClients -> 0..MaxAsks]
    /\ passed \in Seq(1..MaxClients)
    /\ queue \in Seq(Requests)
    /\ spc \in {"none", "msgrcv", "SemP", "search", "Send"}
    /\ spc \in {"SemP", "search", "Send"} => req \in Requests
    /\ \A s \in sent : s.req \in Requests
    /\ answers \in Seq(Requests)
    /\ gave \in Seq([req : Requests, to : 1..MaxClients])

\* What an earlier run left in the queues.
LEMMA LeftInQueues ==
    ASSUME ForkInit
    PROVE  /\ queue \in Seq(Requests) /\ answers \in Seq(Requests)
           /\ \A i \in 1..Len(answers) : answers[i].cli = 0
<1>1. ASSUME NEW k \in Kinds, NEW n \in Nat
      PROVE  Left(k, n) \in Requests /\ Left(k, n).cli = 0
      BY ForkAssumption DEF Left, Requests
<1>2. queue = <<>> \/ \E m \in Requests : queue = <<m>>
      BY <1>1 DEF ForkInit, EarlierRequests
<1>3. answers = <<>> \/ \E m \in Requests : answers = <<m>> /\ m.cli = 0
      BY <1>1 DEF ForkInit, EarlierAnswers
<1>4. <<>> \in Seq(Requests) /\ \A m \in Requests : <<m>> \in Seq(Requests)
      OBVIOUS
<1>5. \A m : Len(<<m>>) = 1 /\ <<m>>[1] = m
      OBVIOUS
<1>6. queue \in Seq(Requests)
      BY <1>2, <1>4, Zenon
<1>7. answers \in Seq(Requests)
      BY <1>3, <1>4, Zenon
<1>8. \A i \in 1..Len(answers) : answers[i].cli = 0
  <2>1. CASE answers = <<>>
        BY <2>1
  <2>2. ASSUME NEW m \in Requests, answers = <<m>>, m.cli = 0
        PROVE  \A i \in 1..Len(answers) : answers[i].cli = 0
        BY <1>5, <2>2
  <2> QED BY <1>3, <2>1, <2>2
<1> QED BY <1>6, <1>7, <1>8

LEMMA TypesInit == ForkInit => Types
<1> SUFFICES ASSUME ForkInit PROVE Types
    OBVIOUS
<1>1. queue \in Seq(Requests) /\ answers \in Seq(Requests)
      BY LeftInQueues
<1>2. gave = <<>> /\ passed = <<>> /\ sent = {} /\ spc = "none" /\ accepted = 0
      /\ asked = [c \in 1..MaxClients |-> 0]
      BY DEF ForkInit
<1>3. gave \in Seq([req : Requests, to : 1..MaxClients]) /\ passed \in Seq(1..MaxClients)
      BY <1>2
<1>4. accepted \in 0..MaxClients /\ asked \in [1..MaxClients -> 0..MaxAsks]
      BY <1>2, ForkAssumption
<1> QED BY <1>1, <1>2, <1>3, <1>4 DEF Types

LEMMA TypesStep == Types /\ [ForkNext]_forkVars => Types'
<1> SUFFICES ASSUME Types, [ForkNext]_forkVars PROVE Types'
    OBVIOUS
<1> USE ForkAssumption
<1>1. CASE UNCHANGED forkVars
      BY <1>1 DEF Types, forkVars, clientVars, senderVars, returnVars
<1>2. CASE ConnectSrv \/ SndAfterConnSrvMsgFails \/ ForkReceiver \/ NoReceiver \/ SetSize
           \/ RouterSemP \/ WriteTable \/ Asleep
      BY <1>2 DEF Types, ConnectSrv, SndAfterConnSrvMsgFails, ForkReceiver, NoReceiver,
                  SetSize, RouterSemP, WriteTable, Asleep, RouterKeeps, clientVars,
                  senderVars, returnVars
<1>3. CASE MaintainRoutingTable
      BY <1>3 DEF Types, MaintainRoutingTable, clientVars, senderVars, returnVars
<1>4. CASE ForkSenders
      BY <1>4 DEF Types, ForkSenders, MainKeeps, clientVars, returnVars
<1>5. CASE AcceptClient
  <2>1. accepted' \in 1..MaxClients
        BY <1>5 DEF Types, AcceptClient
  <2>2. passed' \in Seq(1..MaxClients)
        BY <1>5, <2>1 DEF Types, AcceptClient
  <2> QED BY <1>5, <2>1, <2>2 DEF Types, AcceptClient, MainKeeps, senderVars, returnVars
<1>6. CASE ClientNotForked
      BY <1>6 DEF Types, ClientNotForked, MainKeeps, senderVars, returnVars
<1>7. ASSUME NEW c \in 1..MaxClients, NEW k \in Wants[c], S_RcvMsgFromClient(c, k)
      PROVE  Types'
  <2>1. asked'[c] \in 1..MaxAsks /\ asked' \in [1..MaxClients -> 0..MaxAsks]
        BY <1>7 DEF Types, S_RcvMsgFromClient
  <2>2. k \in Kinds
        OBVIOUS
  <2>3. queue' \in Seq(Requests)
        BY <1>7, <2>1, <2>2 DEF Types, S_RcvMsgFromClient, Requests
  <2> QED BY <1>7, <2>1, <2>3 DEF Types, S_RcvMsgFromClient, senderVars, returnVars
<1>8. CASE Msgrcv
      BY <1>8 DEF Types, Msgrcv, SenderKeeps, clientVars, returnVars
<1>9. CASE SenderSemP \/ Find
      BY <1>9 DEF Types, SenderSemP, Find, SenderKeeps, clientVars, returnVars
<1>10. CASE Miss
      BY <1>10 DEF Types, Miss, NextMessage, SenderKeeps, clientVars, returnVars
<1>11. CASE Send
      BY <1>11 DEF Types, Send, NextMessage, SenderKeeps, clientVars, returnVars
<1>12. ASSUME NEW i \in Lines, NEW s \in sent, RecvResponseToClientMsg(i, s)
       PROVE  Types'
      BY <1>12 DEF Types, RecvResponseToClientMsg, clientVars, senderVars
<1>13. ASSUME NEW i \in Lines, ServerGone(i) PROVE Types'
      BY <1>13 DEF Types, ServerGone, clientVars, senderVars, returnVars
<1>14. CASE SndMsgToCli
  <2>1. Head(answers) \in Requests /\ answers' \in Seq(Requests)
        BY <1>14 DEF Types, SndMsgToCli
  <2>2. NextClient \in 1..MaxClients
        BY <1>14 DEF Types, SndMsgToCli, NextClient
  <2> QED BY <1>14, <2>1, <2>2 DEF Types, SndMsgToCli, clientVars, senderVars
<1> QED BY <1>1, <1>2, <1>3, <1>4, <1>5, <1>6, <1>7, <1>8, <1>9, <1>10, <1>11, <1>12,
           <1>13, <1>14 DEF ForkNext

-----------------------------------------------------------------------------
(* The semaphore.  A search fails only without the table of this run, because  *)
(* the number drawn is one of the numbers GetSrvSeq counts and the table has    *)
(* an entry for each line of the file.                                          *)

Rec == [kind : Kinds, seq : Nat \ {0}]

\* The number that is looked for is one GetSrvSeq can draw.
DrawnSeq == spc \in {"SemP", "search"} => sought.seq \in GetSrvSeq(sought.kind)

\* What the routing thread has counted and written.
Counted == rpc \in {"SemP", "write", "done"} => size = Cardinality(Keys)
Listed ==
    written => /\ size = Cardinality(Keys)
               /\ Len(shm) = Len(conf)
               /\ \A i \in Lines : shm[i].kind = conf[i].kind /\ shm[i].seq = conf[i].seq

SemInv ==
    /\ conf \in Configs /\ sem \in {0, 1}
    /\ mpc = "sleep" => spc = "none"
    /\ DrawnSeq /\ Counted /\ Listed
    /\ SemAccounted

\* The element count of g_mapSrvInfo is that of the lines, when no line is there twice.
LEMMA KeysCounted ==
    ASSUME conf \in Configs, WellNumbered
    PROVE  Cardinality(Keys) = Len(conf)
<1> DEFINE f == [i \in Lines |-> conf[i]]
<1>1. Len(conf) \in Nat
      BY ForkAssumption
<1>2. IsFiniteSet(Lines) /\ Cardinality(Lines) = Len(conf)
      BY <1>1, FS_Interval DEF Lines
<1>3. f \in Bijection(Lines, Keys)
      BY Zenon DEF WellNumbered, Keys, Bijection, Injection, Surjection, IsInjective
<1> QED BY <1>2, <1>3, FS_Bijection, Zenon DEF ExistsBijection

\* A number that GetSrvSeq can draw is found in the table of this run.
LEMMA Found ==
    ASSUME conf \in Configs, WellNumbered, Listed, written,
           sought.seq \in GetSrvSeq(sought.kind)
    PROVE  Hits # {}
<1>1. Len(conf) \in Nat /\ IsFiniteSet(Lines)
  <2>1. Len(conf) \in Nat
        BY ForkAssumption
  <2> QED BY <2>1, FS_Interval DEF Lines
<1>2. PICK i \in Lines : conf[i].kind = sought.kind
  <2>1. CASE OfKind(sought.kind) = {}
        BY <2>1, FS_EmptySet DEF GetSrvSeq
  <2> QED BY <2>1 DEF OfKind
<1>3. [kind |-> sought.kind, seq |-> sought.seq] \in Keys
      BY <1>2 DEF WellNumbered, GetSrvSeq
<1>4. PICK j \in Lines : conf[j] = [kind |-> sought.kind, seq |-> sought.seq]
      BY <1>3 DEF Keys
<1>5. size = Len(conf) /\ Len(shm) = Len(conf)
      BY KeysCounted DEF Listed
<1>6. Fits(shm[j])
      BY <1>4 DEF Listed, Fits
<1> QED BY <1>1, <1>4, <1>5, <1>6 DEF Hits, Lines

LEMMA SemInit == ForkInit => SemInv
BY DEF ForkInit, SemInv, DrawnSeq, Counted, Listed, SemAccounted, Inside

\* The steps that leave the sender and the semaphore alone.
LEMMA RouterSemStep ==
    ASSUME SemInv, UNCHANGED <<conf, mpc, spc, sought, missed, written, shm>>,
           \/ UNCHANGED <<sem, rpc, size>>
           \/ SetSize \/ RouterSemP
           \/ sem' = sem /\ size' = size /\ rpc # "write" /\ rpc' \in {"look", "connected"}
    PROVE  SemInv'
<1>1. DrawnSeq' /\ conf' \in Configs /\ WellNumbered' = WellNumbered /\ Keys' = Keys
      BY DEF SemInv, DrawnSeq, GetSrvSeq, OfKind, WellNumbered, Keys, Lines
<1>2. Counted' /\ Listed'
      BY <1>1 DEF SemInv, Counted, Listed, SetSize, RouterSemP, Lines
<1>3. sem' \in {0, 1} /\ SemAccounted'
      BY <1>1 DEF SemInv, SemAccounted, Inside, SetSize, RouterSemP
<1> QED BY <1>1, <1>2, <1>3 DEF SemInv

LEMMA SemStep == SemInv /\ [ForkNext]_forkVars => SemInv'
<1> SUFFICES ASSUME SemInv, [ForkNext]_forkVars PROVE SemInv'
    OBVIOUS
<1>1. CASE UNCHANGED forkVars
      BY <1>1, RouterSemStep DEF forkVars, routeVars, senderVars
<1>2. CASE ConnectSrv \/ SndAfterConnSrvMsgFails \/ ForkReceiver \/ NoReceiver
      BY <1>2, RouterSemStep DEF ConnectSrv, SndAfterConnSrvMsgFails, ForkReceiver, NoReceiver,
              RouterKeeps, senderVars
<1>3. CASE SetSize
      BY <1>3, RouterSemStep DEF SetSize, RouterKeeps, senderVars
<1>4. CASE RouterSemP
      BY <1>4, RouterSemStep DEF RouterSemP, RouterKeeps, senderVars
<1>5. CASE WriteTable
  <2>1. conf' = conf /\ Keys' = Keys /\ Lines' = Lines /\ WellNumbered' = WellNumbered
        BY <1>5 DEF WriteTable, RouterKeeps, WellNumbered, Keys, OfKind, Lines
  <2>2. DrawnSeq'
        BY <1>5, <2>1 DEF SemInv, DrawnSeq, WriteTable, RouterKeeps, senderVars, GetSrvSeq,
                  OfKind
  <2>3. Counted'
        BY <1>5, <2>1 DEF SemInv, Counted, WriteTable
  <2>4. Listed'
    <3>1. size' = Cardinality(Keys)
          BY <1>5 DEF SemInv, Counted, WriteTable
    <3>2. shm' = [i \in Lines |-> Entry(i)] /\ Len(conf) \in Nat
          BY <1>5, ForkAssumption DEF SemInv, WriteTable
    <3>3. Len(shm') = Len(conf)
          BY <3>2 DEF Lines
    <3> QED BY <2>1, <3>1, <3>2, <3>3 DEF Listed, Entry
  <2>5. ~missed /\ spc # "search"
        BY <1>5 DEF SemInv, SemAccounted, Inside, WriteTable
  <2>6. sem' = 1 /\ missed' = missed /\ spc' = spc /\ rpc' = "done" /\ mpc' = mpc
        BY <1>5 DEF WriteTable, RouterKeeps, senderVars
  <2>7. SemAccounted'
        BY <2>5, <2>6 DEF SemAccounted, Inside
  <2> QED BY <2>1, <2>2, <2>3, <2>4, <2>6, <2>7 DEF SemInv
<1>6. CASE Asleep
      BY <1>6, RouterSemStep DEF Asleep, RouterKeeps, senderVars
<1>7. CASE MaintainRoutingTable
      BY <1>7, RouterSemStep DEF MaintainRoutingTable, senderVars
<1>8. CASE ForkSenders
  <2>1. /\ UNCHANGED <<conf, sem, size, rpc, shm, written, missed, sought>>
        /\ spc' = "msgrcv" /\ spc = "none" /\ mpc' = "Accept"
        BY <1>8 DEF SemInv, ForkSenders, MainKeeps
  <2>2. /\ Keys' = Keys /\ Lines' = Lines /\ WellNumbered' = WellNumbered
        BY <2>1 DEF WellNumbered, Keys, Lines, OfKind
  <2>3. DrawnSeq' /\ Counted' /\ Listed'
        BY <2>1, <2>2 DEF SemInv, DrawnSeq, Counted, Listed
  <2>4. SemAccounted'
        BY <2>1, <2>2 DEF SemInv, SemAccounted, Inside
  <2> QED BY <2>1, <2>3, <2>4 DEF SemInv
<1>9. CASE AcceptClient \/ ClientNotForked
      BY <1>9, RouterSemStep DEF AcceptClient, ClientNotForked, MainKeeps, senderVars
<1>10. ASSUME NEW c \in 1..MaxClients, NEW k \in Wants[c], S_RcvMsgFromClient(c, k)
       PROVE  SemInv'
      BY <1>10, RouterSemStep DEF S_RcvMsgFromClient, routeVars, senderVars
<1>11. CASE Msgrcv \/ SenderSemP \/ Find \/ Miss \/ Send
  <2>1. /\ UNCHANGED <<conf, size, rpc, shm, written>>
        /\ mpc' = mpc /\ spc' # "none" /\ spc # "none"
        BY <1>11 DEF Msgrcv, SenderSemP, Find, Miss, Send, SenderKeeps, routeVars,
                     NextMessage
  <2>9. /\ Keys' = Keys /\ Lines' = Lines /\ WellNumbered' = WellNumbered
        /\ \A k : OfKind(k)' = OfKind(k)
        BY <2>1 DEF Keys, Lines, WellNumbered, OfKind
  <2>2. conf' \in Configs /\ Counted' /\ Listed' /\ (mpc' = "sleep" => spc' = "none")
        BY <2>1, <2>9 DEF SemInv, Counted, Listed
  <2>3. CASE Msgrcv
    <3>1. DrawnSeq'
          BY <2>1, <2>9, <2>3 DEF SemInv, DrawnSeq, Msgrcv, GetSrvSeq
    <3>2. sem' \in {0, 1} /\ SemAccounted'
          BY <2>1, <2>9, <2>3 DEF SemInv, SemAccounted, Inside, Msgrcv
    <3> QED BY <2>2, <3>1, <3>2 DEF SemInv
  <2>4. CASE SenderSemP
    <3>1. DrawnSeq'
          BY <2>1, <2>9, <2>4 DEF SemInv, DrawnSeq, SenderSemP, GetSrvSeq
    <3>2. sem = 1 /\ rpc # "write" /\ ~missed
          BY <2>4 DEF SemInv, SemAccounted, Inside, SenderSemP
    <3>3. sem' = 0 /\ spc' = "search" /\ rpc' # "write" /\ ~missed'
          BY <2>1, <2>4, <3>2 DEF SenderSemP
    <3>4. sem' \in {0, 1} /\ SemAccounted'
      <4>1. Inside(rpc, "write")' = 0 /\ Inside(spc, "search")' = 1
            BY <3>3 DEF Inside
      <4>2. (IF missed /\ spc # "search" THEN 1 ELSE 0)' = 0
            BY <3>3
      <4> QED BY <3>3, <4>1, <4>2 DEF SemAccounted
    <3> QED BY <2>2, <3>1, <3>4 DEF SemInv
  <2>5. CASE Find
    <3>1. DrawnSeq' /\ sem' \in {0, 1} /\ SemAccounted'
          BY <2>1, <2>9, <2>5 DEF SemInv, DrawnSeq, SemAccounted, Inside, Find
    <3> QED BY <2>2, <3>1 DEF SemInv
  <2>6. CASE Miss
    <3>1. ~written \/ ~WellNumbered
          BY <2>6, Found DEF SemInv, DrawnSeq, Miss
    <3>2. DrawnSeq' /\ sem' \in {0, 1} /\ SemAccounted'
          BY <2>1, <2>9, <2>6, <3>1 DEF SemInv, DrawnSeq, SemAccounted, Inside, Miss, NextMessage
    <3> QED BY <2>2, <3>2 DEF SemInv
  <2>7. CASE Send
    <3>1. DrawnSeq' /\ sem' \in {0, 1} /\ SemAccounted'
          BY <2>1, <2>9, <2>7 DEF SemInv, DrawnSeq, SemAccounted, Inside, Send, NextMessage
    <3> QED BY <2>2, <3>1 DEF SemInv
  <2> QED BY <1>11, <2>3, <2>4, <2>5, <2>6, <2>7
<1>12. ASSUME NEW i \in Lines, NEW s \in sent, RecvResponseToClientMsg(i, s)
       PROVE  SemInv'
      BY <1>12, RouterSemStep DEF RecvResponseToClientMsg, routeVars, senderVars
<1>13. ASSUME NEW i \in Lines, ServerGone(i) PROVE SemInv'
      BY <1>13, RouterSemStep DEF ServerGone, routeVars, senderVars
<1>14. CASE SndMsgToCli
      BY <1>14, RouterSemStep DEF SndMsgToCli, routeVars, senderVars
<1> QED BY <1>1, <1>2, <1>3, <1>4, <1>5, <1>6, <1>7, <1>8, <1>9, <1>10, <1>11, <1>12,
           <1>13, <1>14 DEF ForkNext

\* For every server list, earlier table and order of the processes, the semaphore is held
\* by who is between SemP and SemV, or was lost by a search (snd.c:560), and a search
\* finds its server once the table is written and the file is numbered from 1.
THEOREM SemAlwaysAccounted == ForkSpec => []SemAccounted
<1>1. SemInv => SemAccounted
      BY DEF SemInv
<1> QED BY <1>1, SemInit, SemStep, PTL DEF ForkSpec

-----------------------------------------------------------------------------
(* Descriptors.  A number means the same in main and in its forks as long as   *)
(* main closes nothing: files of main only grow, and those of a fork are what   *)
(* main had.                                                                    *)

Tables ==
    /\ DOMAIN files = Fds /\ DOMAIN sock = Lines
    /\ files = [n \in Fds |-> files[n]] /\ sock = [i \in Lines |-> sock[i]]
    /\ rfiles = [i \in Lines |-> rfiles[i]]
    /\ conf \in Configs /\ awake \in BOOLEAN

CopiesOf(f) == \A n \in Fds : f[n] \in {None, files[n]}

\* The socket under construction, and those of the list.
Made ==
    /\ rpc = "connected" => newfd \in Fds /\ files[newfd] = Server(Next1)
    /\ rpc \in {"SemP", "write"} => Unconnected = {}
    /\ ~twice => \A i \in Lines : sock[i] # 0 =>
                    sock[i] \in Fds /\ files[sock[i]] = Server(i)

\* What the table says of a server of this run, and what the sender has found in it.
Told ==
    ~stale /\ ~twice =>
        /\ \A j \in 1..Len(shm) :
              /\ j \in Lines
              /\ shm[j].kind = conf[j].kind /\ shm[j].seq = conf[j].seq
              /\ shm[j].nSock \in Fds /\ files[shm[j].nSock] = Server(j)
        /\ spc = "Send" =>
              /\ found \in 1..Len(shm) /\ found \in Lines
              /\ conf[found] = sought

Sought ==
    spc \in {"SemP", "search", "Send"} => sought \in Rec /\ sought.kind = req.kind

PeerInv ==
    /\ Tables /\ Made /\ Told /\ Sought
    /\ ~twice => CopiesOf(sfiles) /\ \A i \in Lines : CopiesOf(rfiles[i])
    /\ \A s \in sent : s.as.kind = s.req.kind /\ (conf[s.to] # s.as => stale \/ twice)

LEMMA PeerInit == ForkInit => PeerInv
<1> SUFFICES ASSUME ForkInit PROVE PeerInv
    OBVIOUS
<1>1. Made /\ Sought
      BY DEF ForkInit, Made, Sought
<1>3. Told
  <2>1. ~stale => Len(shm) = 0
    <3>1. stale = (shm # <<>>)
          BY Zenon DEF ForkInit
    <3>2. ~stale => shm = <<>>
          BY <3>1, Zenon
    <3> QED BY <3>2
  <2>2. spc = "none"
        BY DEF ForkInit
  <2> QED BY <2>1, <2>2 DEF Told
<1>4. Tables
      BY DEF ForkInit, Tables
<1>2. CopiesOf(sfiles) /\ \A i \in Lines : CopiesOf(rfiles[i])
      BY DEF ForkInit, CopiesOf
<1> QED BY <1>1, <1>2, <1>3, <1>4 DEF PeerInv, ForkInit

LEMMA PeerRight == PeerInv => RightPeer
BY DEF PeerInv, RightPeer, ForwardedTo, CopiesOf

\* A number that main gives out was nobody's: what main and its forks know of the other
\* numbers stays as it is.
LEMMA FilesGrow ==
    ASSUME PeerInv, NEW n \in Fds, NEW x, x # None, Free(n),
           files' = [files EXCEPT ![n] = x],
           UNCHANGED <<conf, sock, shm, stale, twice, spc, found, sought, req, rfiles, sent>>,
           awake' \in BOOLEAN,
           sfiles' = sfiles,
           \/ rpc' = rpc /\ newfd' = newfd
           \/ rpc' = "connected" /\ newfd' = n /\ x = Server(Next1)
    PROVE  PeerInv'
<1>1. /\ \A m \in Fds : files[m] # None => files'[m] = files[m]
      /\ \A f : \A m \in Fds : f[m] \in {None, files[m]} => f[m] \in {None, files'[m]}
      /\ files'[n] = x /\ files' = [m \in Fds |-> files'[m]] /\ DOMAIN files' = Fds
      BY DEF PeerInv, Tables, Free
<1>2. Lines' = Lines /\ Unconnected' = Unconnected /\ Next1' = Next1
      BY DEF Lines, Unconnected, Next1
<1>3. \A i : Server(i) # None
      BY DEF Server, None
<1>4. Tables'
      BY <1>1, <1>2 DEF PeerInv, Tables, Fds
<1>5. Made'
      BY <1>1, <1>2, <1>3 DEF PeerInv, Made, Fds
<1>6. Told'
      BY <1>1, <1>2, <1>3 DEF PeerInv, Told, Fds
<1>7. Sought'
      BY DEF PeerInv, Sought, Rec
<1>8. ~twice' => CopiesOf(sfiles)' /\ \A i \in Lines' : CopiesOf(rfiles[i])'
      BY <1>1, <1>2 DEF PeerInv, CopiesOf, Fds
<1> QED BY <1>4, <1>5, <1>6, <1>7, <1>8 DEF PeerInv

\* The steps that leave the descriptors and the messages alone.
LEMMA PeerKeeps ==
    ASSUME PeerInv,
           UNCHANGED <<conf, sock, files, shm, stale, twice, spc, found, sought, req,
                       rfiles, sfiles, sent>>,
           awake' \in BOOLEAN,
           \/ UNCHANGED <<rpc, newfd>>
           \/ rpc' \in {"look", "done"}
           \/ rpc' \in {"SemP", "write"} /\ Unconnected = {}
    PROVE  PeerInv'
<1>1. Lines' = Lines /\ Unconnected' = Unconnected /\ Next1' = Next1
      BY DEF Lines, Unconnected, Next1
<1>2. Tables' /\ Made'
      BY <1>1 DEF PeerInv, Tables, Made, Fds, Server
<1>3. Told' /\ Sought'
      BY <1>1 DEF PeerInv, Told, Sought, Fds, Server, Rec
<1> QED BY <1>1, <1>2, <1>3 DEF PeerInv, CopiesOf, Fds

LEMMA PeerStep == Types /\ PeerInv /\ [ForkNext]_forkVars => PeerInv'
<1> SUFFICES ASSUME Types, PeerInv, [ForkNext]_forkVars PROVE PeerInv'
    OBVIOUS
<1>0. awake \in BOOLEAN
      BY DEF PeerInv, Tables
<1>1. CASE UNCHANGED forkVars
      BY <1>0, <1>1, PeerKeeps DEF forkVars, routeVars, senderVars, receiverVars
<1>2. CASE ConnectSrv
  <2>1. PICK n \in Fds : /\ Free(n) /\ files' = [files EXCEPT ![n] = Server(Next1)]
                         /\ newfd' = n
        BY <1>2 DEF ConnectSrv
  <2>2. Server(Next1) # None
        BY DEF Server, None
  <2> QED BY <1>0, <1>2, <2>1, <2>2, FilesGrow DEF ConnectSrv, RouterKeeps, senderVars,
                receiverVars
<1>3. CASE SndAfterConnSrvMsgFails \/ SetSize \/ RouterSemP \/ Asleep
      BY <1>0, <1>3, PeerKeeps DEF SndAfterConnSrvMsgFails, SetSize, RouterSemP, Asleep,
              RouterKeeps, senderVars, receiverVars, PeerInv, Made
<1>4. CASE ForkReceiver
  <2>1. /\ sock' = [sock EXCEPT ![Next1] = newfd]
        /\ rfiles' = [rfiles EXCEPT ![Next1] = files]
        /\ rpc = "connected" /\ rpc' = "look"
        /\ UNCHANGED <<conf, files, awake, shm, stale, twice, spc, found, sought, req,
                       sfiles, sent>>
        BY <1>4 DEF ForkReceiver, RouterKeeps, senderVars
  <2>2. Lines' = Lines
        BY <2>1 DEF Lines
  <2>3. /\ \A i \in Lines : sock'[i] = IF i = Next1 THEN newfd ELSE sock[i]
        /\ DOMAIN sock' = Lines /\ sock' = [i \in Lines |-> sock'[i]]
        /\ \A i \in Lines : rfiles'[i] = IF i = Next1 THEN files ELSE rfiles[i]
        /\ rfiles' = [i \in Lines |-> rfiles'[i]]
        BY <2>1 DEF PeerInv, Tables
  <2>4. Tables'
        BY <2>1, <2>2, <2>3 DEF PeerInv, Tables, Fds
  <2>5. Made'
        BY <2>1, <2>2, <2>3 DEF PeerInv, Made, Fds, Server
  <2>6. Told' /\ Sought'
        BY <2>1, <2>2 DEF PeerInv, Told, Sought, Fds, Server, Rec
  <2>7. ~twice' => CopiesOf(sfiles)' /\ \A i \in Lines' : CopiesOf(rfiles[i])'
        BY <2>1, <2>2, <2>3 DEF PeerInv, CopiesOf, Fds
  <2> QED BY <2>1, <2>4, <2>5, <2>6, <2>7 DEF PeerInv
<1>5. CASE NoReceiver
  <2>1. /\ sock' = [sock EXCEPT ![Next1] = newfd]
        /\ files' = [files EXCEPT ![newfd] = None]
        /\ twice' = TRUE /\ rpc' = "look"
        /\ UNCHANGED <<conf, awake, rfiles, shm, stale, spc, found, sought, req, sent>>
        BY <1>5 DEF NoReceiver, RouterKeeps, senderVars, receiverVars
  <2>2. Lines' = Lines
        BY <2>1 DEF Lines
  <2>3. Tables'
        BY <2>1, <2>2 DEF PeerInv, Tables, Fds
  <2>4. Made' /\ Told' /\ Sought'
        BY <2>1 DEF PeerInv, Made, Told, Sought, Rec
  <2> QED BY <2>1, <2>3, <2>4 DEF PeerInv
<1>6. CASE WriteTable
  <2>1. /\ shm' = [i \in Lines |-> Entry(i)] /\ rpc = "write" /\ rpc' = "done"
        /\ UNCHANGED <<conf, sock, files, awake, stale, twice, spc, found, sought, req,
                       rfiles, sfiles, sent>>
        BY <1>6 DEF WriteTable, RouterKeeps, senderVars, receiverVars
  <2>2. Lines' = Lines /\ Len(shm') = Len(conf) /\ Len(conf) \in Nat
        BY <2>1, ForkAssumption DEF PeerInv, Tables, Lines
  <2>3. Unconnected = {}
        BY <2>1 DEF PeerInv, Made
  <2>4. \A i \in Lines : sock[i] # 0
        BY <2>3 DEF Unconnected
  <2>5. Told'
    <3> SUFFICES ASSUME ~stale, ~twice PROVE Told'
        BY <2>1 DEF Told
    <3>1. \A j \in 1..Len(shm') :
              /\ j \in Lines
              /\ shm'[j].kind = conf[j].kind /\ shm'[j].seq = conf[j].seq
              /\ shm'[j].nSock = sock[j]
          BY <2>1, <2>2 DEF Entry, Lines
    <3>2. \A j \in Lines : sock[j] \in Fds /\ files[sock[j]] = Server(j)
          BY <2>4 DEF PeerInv, Made
    <3>3. spc = "Send" => found \in 1..Len(shm') /\ found \in Lines /\ conf[found] = sought
          BY <2>2 DEF PeerInv, Told, Lines
    <3> QED BY <2>1, <2>2, <3>1, <3>2, <3>3 DEF Told, Fds, Server
  <2>6. Tables' /\ Made' /\ Sought'
        BY <2>1, <2>2 DEF PeerInv, Tables, Made, Sought, Fds, Server, Rec
  <2> QED BY <2>1, <2>2, <2>5, <2>6 DEF PeerInv, CopiesOf, Fds
<1>7. CASE MaintainRoutingTable
      BY <1>7, PeerKeeps DEF MaintainRoutingTable, senderVars, receiverVars
<1>8. CASE ForkSenders
  <2>1. /\ spc' = "msgrcv" /\ sfiles' = files
        /\ UNCHANGED <<conf, sock, files, awake, shm, stale, twice, sought, req, found,
                       rfiles, rpc, newfd, sent>>
        BY <1>8 DEF ForkSenders, MainKeeps, receiverVars
  <2>2. Lines' = Lines /\ Unconnected' = Unconnected /\ Next1' = Next1
        BY <2>1 DEF Lines, Unconnected, Next1
  <2>3. Tables' /\ Made' /\ Told' /\ Sought'
        BY <2>1, <2>2 DEF PeerInv, Tables, Made, Told, Sought, Fds, Server
  <2> QED BY <2>1, <2>2, <2>3 DEF PeerInv, CopiesOf, Fds
<1>9. CASE AcceptClient
  <2>1. PICK n \in Fds : Free(n) /\ files' = [files EXCEPT ![n] = Client(accepted')]
        BY <1>9 DEF AcceptClient
  <2>2. Client(accepted') # None
        BY DEF Client, None
  <2> QED BY <1>0, <1>9, <2>1, <2>2, FilesGrow DEF AcceptClient, MainKeeps, senderVars,
                receiverVars
<1>10. CASE ClientNotForked
      BY <1>0, <1>10, PeerKeeps DEF ClientNotForked, MainKeeps, senderVars, receiverVars
<1>11. ASSUME NEW c \in 1..MaxClients, NEW k \in Wants[c], S_RcvMsgFromClient(c, k)
       PROVE  PeerInv'
      BY <1>0, <1>11, PeerKeeps DEF S_RcvMsgFromClient, routeVars, senderVars, receiverVars
<1>12. CASE Msgrcv \/ SenderSemP \/ Find \/ Miss \/ Send
  <2>1. UNCHANGED <<conf, sock, files, awake, shm, stale, twice, rpc, newfd, rfiles, sfiles>>
        BY <1>12 DEF Msgrcv, SenderSemP, Find, Miss, Send, SenderKeeps, routeVars,
                     receiverVars
  <2>2. Lines' = Lines /\ Unconnected' = Unconnected /\ Next1' = Next1
        BY <2>1 DEF Lines, Unconnected, Next1
  <2>3. Tables' /\ Made'
        BY <2>1, <2>2 DEF PeerInv, Tables, Made, Fds, Server
  <2>4. ~twice' => CopiesOf(sfiles)' /\ \A i \in Lines' : CopiesOf(rfiles[i])'
        BY <2>1, <2>2 DEF PeerInv, CopiesOf, Fds
  <2>5. ASSUME Told', Sought', sent' = sent
        PROVE  PeerInv'
        BY <2>1, <2>3, <2>4, <2>5 DEF PeerInv
  <2>6. CASE Msgrcv
    <3>1. sent' = sent /\ spc = "msgrcv" /\ spc' # "Send"
          BY <2>6 DEF Msgrcv
    <3>2. Told'
          BY <2>1, <2>2, <3>1 DEF PeerInv, Told, Fds, Server
    <3>3. Head(queue) \in Requests
          BY <2>6 DEF Types, Msgrcv
    <3>4. Sought'
      <4>1. CASE GetSrvSeq(Head(queue).kind) = {}
            BY <2>6, <3>1, <4>1 DEF Msgrcv, Sought
      <4>2. CASE GetSrvSeq(Head(queue).kind) # {}
        <5>1. PICK q \in GetSrvSeq(Head(queue).kind) :
                    sought' = [kind |-> Head(queue).kind, seq |-> q]
              BY <2>6, <4>2 DEF Msgrcv
        <5>2. q \in Nat \ {0}
              BY DEF GetSrvSeq
        <5>3. req' = Head(queue)
              BY <2>6, <4>2 DEF Msgrcv
        <5> QED BY <3>3, <5>1, <5>2, <5>3 DEF Sought, Rec, Requests
      <4> QED BY <4>1, <4>2
    <3> QED BY <2>5, <3>1, <3>2, <3>4
  <2>7. CASE SenderSemP
      BY <2>1, <2>2, <2>5, <2>7 DEF PeerInv, Told, Sought, SenderSemP, Fds, Server, Rec
  <2>8. CASE Find
    <3>1. PICK j \in Hits : found' = j
          BY <2>8 DEF Find
    <3>2. j \in 1..Len(shm) /\ shm[j].kind = sought.kind /\ shm[j].seq = sought.seq
      <4> QED BY DEF Hits, Fits
    <3>3. sought \in Rec /\ UNCHANGED <<sought, req, sent>> /\ spc' = "Send"
          BY <2>8 DEF PeerInv, Sought, Find
    <3>4. ~stale /\ ~twice => j \in Lines /\ conf[j] = sought
      <4>1. ~stale /\ ~twice =>
                j \in Lines /\ conf[j].kind = sought.kind /\ conf[j].seq = sought.seq
            BY <3>2 DEF PeerInv, Told
      <4>2. j \in Lines => conf[j] \in Rec
        <5>1. conf \in Seq(Rec)
              BY ForkAssumption DEF PeerInv, Tables, Rec
        <5> QED BY <5>1 DEF Lines
      <4> QED BY <3>3, <4>1, <4>2 DEF Rec
    <3>5. Told'
          BY <2>1, <2>2, <3>1, <3>2, <3>3, <3>4 DEF PeerInv, Told, Fds, Server
    <3>6. Sought'
          BY <2>8, <3>3 DEF PeerInv, Sought, Find, Rec
    <3> QED BY <2>5, <3>3, <3>5, <3>6
  <2>9. CASE Miss
      BY <2>1, <2>2, <2>5, <2>9 DEF PeerInv, Told, Sought, Miss, NextMessage, Fds, Server
  <2>10. CASE Send
    <3>1. Told' /\ Sought'
          BY <2>1, <2>2, <2>10 DEF PeerInv, Told, Sought, Send, NextMessage, Fds, Server
    <3> DEFINE file == sfiles[TheEntry(found)]
               this == [req |-> req, to |-> file[2], as |-> sought]
    <3>2. sent' = sent \/ (file # None /\ sent' = sent \cup {this})
          BY <2>10 DEF Send
    <3>3. CASE sent' = sent
          BY <2>5, <3>1, <3>3
    <3>4. CASE file # None /\ sent' = sent \cup {this}
      <4>1. sought.kind = req.kind
            BY <2>10 DEF PeerInv, Sought, Send
      <4>2. ~stale /\ ~twice => file = Server(found) /\ conf[found] = sought
            BY <2>10, <3>4 DEF PeerInv, Told, Send, CopiesOf, TheEntry
      <4>3. conf[this.to] # this.as => stale \/ twice
            BY <4>2 DEF Server
      <4>4. \A s \in sent' : s.as.kind = s.req.kind
                             /\ (conf'[s.to] # s.as => stale' \/ twice')
            BY <2>1, <3>4, <4>1, <4>3 DEF PeerInv
      <4> QED BY <2>3, <2>4, <3>1, <4>4 DEF PeerInv
    <3> QED BY <3>2, <3>3, <3>4
  <2> QED BY <1>12, <2>6, <2>7, <2>8, <2>9, <2>10
<1>13. ASSUME NEW i \in Lines, NEW s \in sent, RecvResponseToClientMsg(i, s)
       PROVE  PeerInv'
      BY <1>0, <1>13, PeerKeeps DEF RecvResponseToClientMsg, routeVars, senderVars,
              receiverVars
<1>14. ASSUME NEW i \in Lines, ServerGone(i) PROVE PeerInv'
      BY <1>0, <1>14, PeerKeeps DEF ServerGone, routeVars, senderVars
<1>15. CASE SndMsgToCli
      BY <1>0, <1>15, PeerKeeps DEF SndMsgToCli, routeVars, senderVars, receiverVars
<1> QED BY <1>1, <1>2, <1>3, <1>4, <1>5, <1>6, <1>7, <1>8, <1>9, <1>10, <1>11, <1>12,
           <1>13, <1>14, <1>15 DEF ForkNext

\* For every server list and number of clients a request reaches a server of its kind and
\* number, and a message for a client that client or nobody, although every process looks
\* numbers up in its own table (access_comm_service_srv_snd.c:575), unless an earlier run
\* left its table or a socket was closed whose number is kept.
THEOREM PeersAlwaysRight == ForkSpec => []RightPeer
<1>1. Types /\ PeerInv /\ [ForkNext]_forkVars => (Types /\ PeerInv)'
      BY TypesStep, PeerStep
<1>2. ForkInit => Types /\ PeerInv
      BY TypesInit, PeerInit
<1> QED BY <1>1, <1>2, PeerRight, PTL DEF ForkSpec

-----------------------------------------------------------------------------
(* The types of the descriptors, and what the list and the table say of them:   *)
(* once the table is written no line is without a socket, and then no socket    *)
(* of the list changes.                                                         *)

Numbers ==
    /\ sock \in [Lines -> Fds \cup {0}] /\ newfd \in Fds \cup {0}
    /\ rpc = "connected" => newfd \in Fds /\ Unconnected # {}
    /\ rpc \in {"SemP", "write"} => Unconnected = {}
    /\ written => Unconnected = {} /\ shm = [i \in Lines |-> Entry(i)]

Copies ==
    /\ files \in [Fds -> Files] /\ sfiles \in [Fds -> Files]
    /\ rfiles \in [Lines -> [Fds -> Files]] /\ receivers \subseteq Lines

Flags == /\ awake \in BOOLEAN /\ written \in BOOLEAN /\ stale \in BOOLEAN
         /\ twice \in BOOLEAN /\ missed \in BOOLEAN

\* The requests of this run that were sent, and the messages of an earlier one.
Sent == {s.req : s \in sent} \cup {m \in Requests : m.cli = 0}
OfSent == /\ \A i \in 1..Len(answers) : answers[i] \in Sent
         /\ \A i \in 1..Len(gave) : gave[i].req \in Sent

TypeInv == conf \in Configs /\ Numbers /\ Copies /\ Flags /\ OfSent

\* The line that comes first among those without a socket.
LEMMA NextLine ==
    ASSUME conf \in Configs, Unconnected # {}
    PROVE  Next1 \in Unconnected /\ Next1 \in Lines /\ Server(Next1) \in Files
<1>1. Unconnected \subseteq Nat /\ Unconnected \subseteq Lines
      BY ForkAssumption DEF Unconnected, Lines
<1>2. \E i \in Unconnected : \A j \in Unconnected : ~ (<<j, i>> \in OpToRel(<, Nat))
      BY <1>1, NatLessThanWellFounded, WFMin, Zenon
<1>3. \A i, j \in Nat : <<j, i>> \notin OpToRel(<, Nat) => i =< j
      BY DEF OpToRel
<1>4. \E i \in Unconnected : \A j \in Unconnected : i =< j
      BY <1>1, <1>2, <1>3
<1>5. Next1 \in Unconnected
      BY <1>4 DEF Next1
<1> QED BY <1>1, <1>5 DEF Files

LEMMA TypeInit == ForkInit => TypeInv
<1> SUFFICES ASSUME ForkInit PROVE TypeInv
    OBVIOUS
<1>1. conf \in Configs /\ Numbers
      BY DEF ForkInit, Numbers
<1>2. Copies
      BY DEF ForkInit, Copies, Files
<1>3. Flags
  <2>1. stale \in BOOLEAN
    <3>1. stale = (shm # <<>>)
          BY Zenon DEF ForkInit
    <3> QED BY <3>1, Zenon
  <2> QED BY <2>1 DEF ForkInit, Flags
<1>4. OfSent
  <2>1. \A i \in 1..Len(answers) : answers[i] \in Sent
        BY LeftInQueues DEF Sent
  <2>2. gave = <<>>
        BY DEF ForkInit
  <2> QED BY <2>1, <2>2 DEF OfSent
<1> QED BY <1>1, <1>2, <1>3, <1>4 DEF TypeInv

\* The steps that leave the list, the table and all descriptors alone.
LEMMA NumbersStay ==
    ASSUME conf \in Configs, Numbers,
           UNCHANGED <<conf, sock, shm, written>>, newfd' = newfd \/ newfd' = 0,
           \/ rpc' = rpc /\ newfd' = newfd
           \/ rpc' \in {"look", "done"}
           \/ rpc' = "SemP" /\ Unconnected = {}
           \/ rpc = "SemP" /\ rpc' = "write"
    PROVE  Numbers'
<1>1. Lines' = Lines /\ Unconnected' = Unconnected
      BY DEF Lines, Unconnected
<1>2. \A i : Entry(i)' = Entry(i)
      BY DEF Entry
<1> QED BY <1>1, <1>2 DEF Numbers, Fds

LEMMA CopiesStay ==
    ASSUME Copies, UNCHANGED <<conf, files, sfiles, rfiles>>, receivers' \subseteq receivers
    PROVE  Copies'
BY DEF Copies, Files, Lines, Fds

LEMMA ToldStays ==
    ASSUME OfSent, UNCHANGED <<answers, gave>>, sent \subseteq sent'
    PROVE  OfSent'
BY DEF OfSent, Sent

LEMMA TypeStep == Types /\ TypeInv /\ [ForkNext]_forkVars => TypeInv'
<1> SUFFICES ASSUME Types, TypeInv, [ForkNext]_forkVars PROVE TypeInv'
    OBVIOUS
<1>1. CASE UNCHANGED forkVars
      BY <1>1, NumbersStay, CopiesStay, ToldStays
         DEF TypeInv, Flags, forkVars, routeVars, senderVars, receiverVars, returnVars
<1>2. CASE ConnectSrv
  <2>1. PICK n \in Fds : files' = [files EXCEPT ![n] = Server(Next1)] /\ newfd' = n
        BY <1>2 DEF ConnectSrv
  <2>2. /\ Unconnected # {} /\ rpc' = "connected"
        /\ UNCHANGED <<conf, sock, shm, written, sfiles, rfiles, receivers, awake, stale, twice,
                       missed, sent, answers, gave>>
        BY <1>2 DEF ConnectSrv, RouterKeeps, senderVars, receiverVars, returnVars
  <2>3. Server(Next1) \in Files /\ Files' = Files
        BY <2>2, NextLine DEF TypeInv, Files, Lines
  <2>4. Copies'
        BY <2>1, <2>2, <2>3 DEF TypeInv, Copies, Lines, Fds
  <2>5. Numbers'
    <3>1. Lines' = Lines /\ Unconnected' = Unconnected
          BY <2>2 DEF Lines, Unconnected
    <3> QED BY <2>1, <2>2, <3>1 DEF TypeInv, Numbers, Fds
  <2>6. OfSent'
        BY <2>2, ToldStays DEF TypeInv
  <2> QED BY <2>2, <2>4, <2>5, <2>6 DEF TypeInv, Flags
<1>3. CASE SndAfterConnSrvMsgFails \/ SetSize \/ RouterSemP \/ Asleep
  <2>1. /\ UNCHANGED <<conf, sock, files, sfiles, rfiles, receivers, shm, written, stale, twice,
                       missed, sent, answers, gave>>
        /\ awake' = awake \/ awake' = FALSE
        BY <1>3 DEF SndAfterConnSrvMsgFails, SetSize, RouterSemP, Asleep, RouterKeeps,
                    senderVars, receiverVars, returnVars
  <2>2. Numbers'
        BY <1>3, <2>1, NumbersStay
           DEF TypeInv, SndAfterConnSrvMsgFails, SetSize, RouterSemP, Asleep
  <2> QED BY <2>1, <2>2, CopiesStay, ToldStays DEF TypeInv, Flags
<1>4. CASE ForkReceiver \/ NoReceiver
  <2>1. /\ rpc = "connected" /\ rpc' = "look" /\ newfd' = 0
        /\ sock' = [sock EXCEPT ![Next1] = newfd]
        /\ UNCHANGED <<conf, sfiles, shm, written, awake, stale, missed, sent, answers, gave>>
        BY <1>4 DEF ForkReceiver, NoReceiver, RouterKeeps, senderVars, returnVars
  <2>2. newfd \in Fds /\ Unconnected # {} /\ ~written
        BY <2>1 DEF TypeInv, Numbers, Flags
  <2>3. Next1 \in Lines /\ Lines' = Lines /\ Files' = Files
        BY <2>1, <2>2, NextLine DEF TypeInv, Lines, Files
  <2>4. Numbers'
        BY <2>1, <2>2, <2>3 DEF TypeInv, Numbers, Fds
  <2>5. Copies' /\ twice' \in BOOLEAN
    <3>1. CASE ForkReceiver
          BY <2>1, <2>3, <3>1 DEF TypeInv, Copies, Flags, ForkReceiver, Fds
    <3>2. CASE NoReceiver
      <4>1. None \in Files
            BY DEF Files
      <4> QED BY <2>1, <2>2, <2>3, <3>2, <4>1
                 DEF TypeInv, Copies, NoReceiver, receiverVars, Fds
    <3> QED BY <1>4, <3>1, <3>2
  <2> QED BY <2>1, <2>4, <2>5, ToldStays DEF TypeInv, Flags
<1>5. CASE WriteTable
  <2>1. /\ rpc = "write" /\ rpc' = "done" /\ written' = TRUE /\ shm' = [i \in Lines |-> Entry(i)]
        /\ UNCHANGED <<conf, sock, newfd, files, sfiles, rfiles, receivers, awake, stale, twice,
                       missed, sent, answers, gave>>
        BY <1>5 DEF WriteTable, RouterKeeps, senderVars, receiverVars, returnVars
  <2>2. Lines' = Lines /\ Unconnected' = Unconnected /\ \A i : Entry(i)' = Entry(i)
        BY <2>1 DEF Lines, Unconnected, Entry
  <2>3. Numbers'
        BY <2>1, <2>2 DEF TypeInv, Numbers, Fds
  <2> QED BY <2>1, <2>3, CopiesStay, ToldStays DEF TypeInv, Flags
<1>6. CASE MaintainRoutingTable
      BY <1>6, NumbersStay, CopiesStay, ToldStays
         DEF TypeInv, Flags, MaintainRoutingTable, senderVars, receiverVars, returnVars
<1>7. CASE ForkSenders
  <2>1. Copies'
        BY <1>7 DEF TypeInv, ForkSenders, MainKeeps, receiverVars, Copies, Files, Lines, Fds
  <2> QED BY <1>7, <2>1, NumbersStay, ToldStays
             DEF TypeInv, Flags, ForkSenders, MainKeeps, receiverVars, returnVars
<1>8. CASE AcceptClient
  <2>1. PICK n \in Fds : files' = [files EXCEPT ![n] = Client(accepted')]
        BY <1>8 DEF AcceptClient
  <2>2. Client(accepted') \in Files /\ Files' = Files
    <3>1. accepted' \in 1..MaxClients
          BY <1>8, ForkAssumption DEF Types, AcceptClient
    <3> QED BY <1>8, <3>1 DEF Files, AcceptClient, MainKeeps, Lines
  <2>3. Copies'
        BY <1>8, <2>1, <2>2 DEF TypeInv, AcceptClient, MainKeeps, receiverVars, Copies, Lines, Fds
  <2> QED BY <1>8, <2>3, NumbersStay, ToldStays
             DEF TypeInv, Flags, AcceptClient, MainKeeps, senderVars, receiverVars, returnVars
<1>9. CASE ClientNotForked
      BY <1>9, NumbersStay, CopiesStay, ToldStays
         DEF TypeInv, Flags, ClientNotForked, MainKeeps, senderVars, receiverVars, returnVars
<1>10. ASSUME NEW c \in 1..MaxClients, NEW k \in Wants[c], S_RcvMsgFromClient(c, k)
       PROVE  TypeInv'
      BY <1>10, NumbersStay, CopiesStay, ToldStays
         DEF TypeInv, Flags, S_RcvMsgFromClient, routeVars, senderVars, receiverVars, returnVars
<1>11. CASE Msgrcv \/ SenderSemP \/ Find \/ Miss \/ Send
  <2>1. /\ UNCHANGED <<conf, sock, newfd, rpc, files, sfiles, rfiles, receivers, shm, written,
                       awake, stale, twice, answers, gave>>
        /\ missed' \in BOOLEAN
    <3>1. CASE Msgrcv \/ SenderSemP \/ Find \/ Miss
          BY <3>1 DEF Msgrcv, SenderSemP, Find, Miss, SenderKeeps, routeVars, receiverVars,
                      returnVars, TypeInv, Flags
    <3>2. CASE Send
          BY <3>2 DEF Send, SenderKeeps, routeVars, receiverVars, returnVars, TypeInv, Flags
    <3> QED BY <1>11, <3>1, <3>2
  <2>2. sent \subseteq sent'
    <3>1. CASE Msgrcv \/ SenderSemP \/ Find \/ Miss
          BY <3>1 DEF Msgrcv, SenderSemP, Find, Miss, SenderKeeps
    <3>2. CASE Send
          BY <3>2 DEF Send
    <3> QED BY <1>11, <3>1, <3>2
  <2> QED BY <2>1, <2>2, NumbersStay, CopiesStay, ToldStays DEF TypeInv, Flags
<1>12. ASSUME NEW i \in Lines, NEW s \in sent, RecvResponseToClientMsg(i, s)
       PROVE  TypeInv'
  <2>1. answers' = Append(answers, s.req) /\ UNCHANGED <<gave, sent>> /\ answers \in Seq(Requests)
        BY <1>12 DEF RecvResponseToClientMsg, senderVars, Types
  <2>2. s.req \in Sent /\ Sent' = Sent
        BY <2>1 DEF Sent
  <2>3. \A k \in 1..Len(answers') :
            answers'[k] = s.req \/ (k \in 1..Len(answers) /\ answers'[k] = answers[k])
        BY <2>1
  <2>4. OfSent'
        BY <2>1, <2>2, <2>3 DEF TypeInv, OfSent
  <2> QED BY <1>12, <2>4, NumbersStay, CopiesStay
             DEF TypeInv, Flags, RecvResponseToClientMsg, routeVars, senderVars, receiverVars
<1>13. ASSUME NEW i \in Lines, ServerGone(i) PROVE TypeInv'
      BY <1>13, NumbersStay, CopiesStay, ToldStays
         DEF TypeInv, Flags, ServerGone, routeVars, senderVars, returnVars
<1>14. CASE SndMsgToCli
  <2>1. /\ answers # <<>> /\ answers' = Tail(answers) /\ sent' = sent
        /\ gave' = Append(gave, [req |-> Head(answers), to |-> NextClient])
        /\ answers \in Seq(Requests) /\ gave \in Seq([req : Requests, to : 1..MaxClients])
        BY <1>14 DEF SndMsgToCli, senderVars, Types
  <2>2. Head(answers) = answers[1] /\ Len(answers) \in Nat /\ 1 =< Len(answers)
        BY <2>1
  <2>3. \A i \in 1..Len(answers') : i + 1 \in 1..Len(answers) /\ answers'[i] = answers[i + 1]
        BY <2>1
  <2>4. \A i \in 1..Len(gave') :
            gave'[i].req = Head(answers) \/ (i \in 1..Len(gave) /\ gave'[i] = gave[i])
    <3>1. Len(gave') = Len(gave) + 1 /\ Len(gave) \in Nat
          BY <2>1
    <3>2. gave'[Len(gave) + 1] = [req |-> Head(answers), to |-> NextClient]
          BY <2>1
    <3>3. \A i \in 1..Len(gave) : gave'[i] = gave[i]
          BY <2>1
    <3>4. \A i \in 1..Len(gave') : i \in 1..Len(gave) \/ i = Len(gave) + 1
          BY <3>1
    <3> QED BY <3>2, <3>3, <3>4
  <2>5. OfSent'
    <3>1. Sent' = Sent
          BY <2>1 DEF Sent
    <3>2. 1 \in 1..Len(answers)
          BY <2>2
    <3>3. Head(answers) \in Sent
          BY <2>2, <3>2 DEF TypeInv, OfSent
    <3>4. \A i \in 1..Len(answers') : answers'[i] \in Sent
          BY <2>3 DEF TypeInv, OfSent
    <3>5. \A i \in 1..Len(gave') : gave'[i].req \in Sent
          BY <2>4, <3>3 DEF TypeInv, OfSent
    <3> QED BY <3>1, <3>4, <3>5 DEF OfSent
  <2> QED BY <1>14, <2>5, NumbersStay, CopiesStay
             DEF TypeInv, Flags, SndMsgToCli, routeVars, senderVars, receiverVars
<1> QED BY <1>1, <1>2, <1>3, <1>4, <1>5, <1>6, <1>7, <1>8, <1>9, <1>10, <1>11, <1>12,
           <1>13, <1>14 DEF ForkNext

\* For every server list and number of clients the table of this run is the list of main,
\* numbers included, from the moment it is written (ConnectServiceServers), and every
\* answer that was given out belongs to a request that this run has sent, or is one that
\* an earlier run left in the queue (InitMsgQueue).
THEOREM TableFollowsList == ForkSpec => []ForkTypeOK
<1>1. Types /\ SemInv /\ TypeInv => ForkTypeOK
  <2> SUFFICES ASSUME Types, SemInv, TypeInv PROVE ForkTypeOK
      OBVIOUS
  <2>1. {awake, written, stale, twice, missed} \subseteq BOOLEAN
        BY DEF TypeInv, Flags
  <2>2. \A i \in 1..Len(gave) : gave[i].req.cli # 0 => gave[i].req \in {s.req : s \in sent}
        BY DEF TypeInv, OfSent, Sent
  <2>3. written => size = Cardinality(Keys) /\ shm = [i \in Lines |-> Entry(i)]
        BY DEF TypeInv, Numbers, SemInv, Listed
  <2> QED BY <2>1, <2>2, <2>3 DEF ForkTypeOK, TypeInv, Numbers, Copies, SemInv, Types
<1>2. /\ ForkInit => Types /\ SemInv /\ TypeInv
      /\ Types /\ SemInv /\ TypeInv /\ [ForkNext]_forkVars => (Types /\ SemInv /\ TypeInv)'
      BY TypesInit, SemInit, TypeInit, TypesStep, SemStep, TypeStep
<1> QED BY <1>1, <1>2, PTL DEF ForkSpec

=============================================================================
