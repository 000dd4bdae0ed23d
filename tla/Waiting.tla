------------------------------ MODULE Waiting ------------------------------
(***************************************************************************)
(* The requests that wait for an answer when the access server runs in      *)
(* epoll mode (ProcessEpollMode).                                           *)
(*                                                                          *)
(*   workers     number each request (HandleClientSrvMsg)                   *)
(*   forwarders  put it into g_clientinfo_hash and then drop it: the        *)
(*               entries of g_routing_table that they look up never get a   *)
(*               socket (SndMsgToServiceServerThread)                       *)
(*   checker     walks the table and sends an error packet to who has       *)
(*               waited too long (CheckTimeoutMsg)                          *)
(*   closers     a worker or the detector tears a dead connection down      *)
(*                                                                          *)
(* The threads that send answers to clients have nothing to send: answers   *)
(* are received by processes of their own, which share no memory with them. *)
(* External are the kernel and the library of the hash table.               *)
(***************************************************************************)
EXTENDS Integers, Sequences, FiniteSets, SequencesExt

CONSTANTS
    Socks,      \* descriptors of clients
    Shapes,     \* half the values of the message counter, buckets of the table and the
                \* end of a bucket where the library inserts
    MaxReqs,    \* bound: requests
    MaxOnWay    \* bound: requests between their number and the table

ASSUME WaitAssumption ==
    /\ Shapes \subseteq [half : Nat \ {0}, buckets : Nat \ {0}, front : BOOLEAN]
    /\ MaxReqs \in Nat /\ MaxOnWay \in Nat
    /\ 0 \notin Socks

VARIABLES
    shape,
    open,      \* descriptors that stand for a connection
    counter,   \* g_msg_counter
    numbered,  \* requests numbered
    pending,   \* requests between their number and the table
    swaps,     \* forwarders that found their number taken
    buckets,   \* g_clientinfo_hash
    claims,    \* g_sndclient_tmp_sockhash
    cpc, bucket, item, last, csock,   \* checker: step, i, pItem, pLast_item, nClient_sock
    leaks,     \* history: claims the checker left behind
    leaked,    \* history: it has ever left one behind
    jumped,    \* history: items put before pItem while the walk took it for the first
    unlinked   \* history: a record was unlinked with another, and had not jumped so

requestVars == <<counter, numbered, pending>>
checkerVars == <<cpc, bucket, item, last, csock>>
tellVars == <<leaks, leaked, jumped, unlinked>>
waitVars == <<shape, open, requestVars, swaps, buckets, claims, checkerVars, tellVars>>

WaitInit ==
    /\ shape \in Shapes
    /\ open = {}
    /\ counter = 0 /\ numbered = 0 /\ pending = {} /\ swaps = {}
    /\ buckets = [b \in 1..shape.buckets |-> <<>>]
    /\ claims = {}
    /\ cpc = "sleep" /\ bucket = 1 /\ item = 0 /\ last = 0 /\ csock = 0
    /\ leaks = {} /\ leaked = FALSE /\ jumped = {} /\ unlinked = FALSE

-----------------------------------------------------------------------------
(* Clients, and the threads that tear connections down. *)

WaitAccept(f) ==
    /\ f \notin open
    /\ open' = open \cup {f}
    /\ UNCHANGED <<shape, requestVars, swaps, buckets, claims, checkerVars, tellVars>>

\* The client has gone: RecvClientMsgErrorProcess, or the sweep of the detector, deletes
\* the claim and closes the descriptor.  Its waiting requests stay in the table.
RecvClientMsgErrorProcess(f) ==
    /\ f \in open
    /\ open' = open \ {f}
    /\ claims' = claims \ {f} /\ leaks' = leaks \ {f}
    /\ UNCHANGED <<shape, requestVars, swaps, buckets, checkerVars, leaked, jumped, unlinked>>

-----------------------------------------------------------------------------
(* Workers and forwarders. *)

\* An int, of which half the values are negative.
Half == shape.half
Wrap(x) == ((x + Half) % (2 * Half)) - Half

\* No int is as large as pow(2, 32) - 1.
NextCounter(x) == IF Wrap(x + 1) >= 2 * Half - 1 THEN 1 ELSE Wrap(x + 1)

\* HandleClientSrvMsg, and the way through g_msg_queue, which several workers fill and
\* several forwarders empty.
HandleClientSrvMsg(f) ==
    /\ f \in open /\ numbered < MaxReqs
    /\ Cardinality(pending) + Cardinality(swaps) < MaxOnWay
    /\ numbered' = numbered + 1
    /\ counter' = NextCounter(counter)
    /\ pending' = pending \cup {[id |-> numbered', n |-> counter', sock |-> f]}
    /\ UNCHANGED <<shape, open, swaps, buckets, claims, checkerVars, tellVars>>

BucketOf(n) == (n % shape.buckets) + 1
At(s, k) == CHOOSE i \in 1..Len(s) : s[i].slot = k
In(s, k) == \E i \in 1..Len(s) : s[i].slot = k
SameKey(m) == {r \in ToSet(buckets[BucketOf(m.n)]) : r.n = m.n}
Records == UNION {ToSet(buckets[b]) : b \in DOMAIN buckets}
\* An item keeps its name (slot) when its record is replaced.  The time of a record is
\* its rank among those that have not waited too long, and 0 for those that have.
Record(m, slot) ==
    [slot |-> slot, id |-> m.id, n |-> m.n, sock |-> m.sock,
     time |-> 1 + Max({r.time : r \in Records} \cup {0})]

\* pItem and pLast_item are the same: the walk takes pItem for the first of its bucket.
AtFirst == item # 0 /\ last = item

\* HashInsert, without client_info_mutex, at one end of the bucket: a record put before
\* the first item is unlinked with it when the walk has already begun there.
InsertClientInfoIntoHash(m) ==
    /\ m \in pending
    /\ pending' = pending \ {m}
    /\ IF SameKey(m) = {}
       THEN LET b == BucketOf(m.n)
                r == Record(m, m.id)
            IN  /\ buckets' = [buckets EXCEPT ![b] = IF shape.front THEN <<r>> \o @
                                                                 ELSE Append(@, r)]
                /\ jumped' = IF shape.front /\ b = bucket /\ AtFirst
                             THEN jumped \cup {m.id} ELSE jumped
                /\ UNCHANGED swaps
       ELSE /\ \E r \in SameKey(m) : swaps' = swaps \cup {[msg |-> m, slot |-> r.slot]}
            /\ UNCHANGED <<buckets, jumped>>
    /\ UNCHANGED <<shape, open, counter, numbered, claims, checkerVars, leaks, leaked,
                   unlinked>>

\* The number is taken: under the mutex the old record is freed and the new one put into
\* its item.  When the checker has removed that item meanwhile, it is freed memory that
\* is written, and the record is in no table.
ReplaceClientInfo(s) ==
    /\ s \in swaps /\ cpc = "sleep"
    /\ swaps' = swaps \ {s}
    /\ LET b == BucketOf(s.msg.n)
       IN  buckets' = IF In(buckets[b], s.slot)
                      THEN [buckets EXCEPT ![b][At(buckets[b], s.slot)] = Record(s.msg, s.slot)]
                      ELSE buckets
    /\ UNCHANGED <<shape, open, requestVars, claims, checkerVars, tellVars>>

\* The record that is in the table longest has waited too long now.
Time ==
    /\ \E r \in Records : r.time # 0
    /\ LET Older(r) == IF r.time = 0 THEN r ELSE [r EXCEPT !.time = @ - 1]
       IN  buckets' = [b \in DOMAIN buckets |->
                          [i \in DOMAIN buckets[b] |-> Older(buckets[b][i])]]
    /\ UNCHANGED <<shape, open, requestVars, swaps, claims, checkerVars, tellVars>>

-----------------------------------------------------------------------------
(* The checker: CheckTimeoutMsg.  It has client_info_mutex unless it sleeps. *)

CheckerKeeps == UNCHANGED <<shape, requestVars, swaps>>

List == buckets[bucket]
First(b) == IF buckets[b] = <<>> THEN 0 ELSE buckets[b][1].slot
NextItem(s, k) == IF At(s, k) < Len(s) THEN s[At(s, k) + 1].slot ELSE 0
TheRecord == List[At(List, item)]
Waited == cpc = "walk" /\ item # 0 /\ TheRecord.time = 0

\* At the start of a bucket, pItem and pLast_item are its first item.
BeginsBucket(b) ==
    bucket' = b /\ item' = First(b) /\ last' = First(b) /\ jumped' = {}

Wake ==
    /\ cpc = "sleep" /\ \E b \in 1..shape.buckets : buckets[b] # <<>>
    /\ cpc' = "walk" /\ BeginsBucket(1)
    /\ CheckerKeeps
    /\ UNCHANGED <<open, buckets, claims, csock, leaks, leaked, unlinked>>

NextBucket ==
    /\ cpc = "walk" /\ item = 0
    /\ IF bucket < shape.buckets
       THEN BeginsBucket(bucket + 1) /\ UNCHANGED cpc
       ELSE cpc' = "sleep" /\ bucket' = 1 /\ last' = 0 /\ jumped' = {} /\ UNCHANGED item
    /\ CheckerKeeps
    /\ UNCHANGED <<open, buckets, claims, csock, leaks, leaked, unlinked>>

\* pLast_item is left where it is.
PassedBy ==
    /\ cpc = "walk" /\ item # 0 /\ ~Waited
    /\ item' = NextItem(List, item)
    /\ CheckerKeeps
    /\ UNCHANGED <<open, buckets, claims, cpc, bucket, last, csock, tellVars>>

NotDue ==
    /\ cpc = "walk" /\ item # 0 /\ ~Waited
    /\ last' = item
    /\ item' = NextItem(List, item)
    /\ CheckerKeeps
    /\ UNCHANGED <<open, buckets, claims, cpc, bucket, csock, tellVars>>

\* HandleClientSock finds a claim: pItem goes on and pLast_item does not.
SockClaimed ==
    /\ Waited /\ TheRecord.sock \in claims
    /\ csock' = TheRecord.sock
    /\ item' = NextItem(List, item)
    /\ CheckerKeeps
    /\ UNCHANGED <<open, buckets, claims, cpc, bucket, last, tellVars>>

ClaimClient ==
    /\ Waited /\ TheRecord.sock \notin claims
    /\ csock' = TheRecord.sock
    /\ claims' = claims \cup {csock'}
    /\ cpc' = "send"
    /\ CheckerKeeps
    /\ UNCHANGED <<open, buckets, bucket, item, last, tellVars>>

\* The packet goes to who has the descriptor now.
SendClientMsg ==
    /\ cpc = "send" /\ csock \in open
    /\ cpc' = "unlink"
    /\ CheckerKeeps
    /\ UNCHANGED <<open, buckets, claims, bucket, item, last, csock, tellVars>>

\* The client does not read, and what is sent to it fills its buffer: Send waits 10 ms
\* and tries again, as often as it takes.
SendWaits ==
    /\ cpc = "send" /\ csock \in open
    /\ cpc' = "usleep"
    /\ CheckerKeeps
    /\ UNCHANGED <<open, buckets, claims, bucket, item, last, csock, tellVars>>

SendAgain ==
    /\ cpc = "usleep"
    /\ cpc' = "send"
    /\ CheckerKeeps
    /\ UNCHANGED <<open, buckets, claims, bucket, item, last, csock, tellVars>>

\* Nobody has it, or its client is gone.
SendFails ==
    /\ cpc = "send"
    /\ cpc' = "close"
    /\ CheckerKeeps
    /\ UNCHANGED <<open, buckets, claims, bucket, item, last, csock, tellVars>>

CloseSock ==
    /\ cpc = "close"
    /\ open' = open \ {csock}
    /\ cpc' = "drop"
    /\ CheckerKeeps
    /\ UNCHANGED <<buckets, claims, bucket, item, last, csock, tellVars>>

\* The bucket without pItem: what follows is linked to pLast_item, or becomes the whole
\* bucket when pItem was its first item.
From(s, k) == IF k = 0 THEN <<>> ELSE SubSeq(s, At(s, k), Len(s))
UpTo(s, k) == SubSeq(s, 1, At(s, k))
WithoutItem ==
    IF last = item THEN From(List, NextItem(List, item))
                   ELSE UpTo(List, last) \o From(List, NextItem(List, item))
\* The items that go with pItem: those between it and pLast_item or, when it is taken for
\* the first, those before it.
GoesWith == {r.slot : r \in ToSet(List)} \ ({item} \cup {r.slot : r \in ToSet(WithoutItem)})
Unlinks == unlinked' = (unlinked \/ ~(GoesWith \subseteq jumped))

\* The predecessor stays the item that was removed.
UnlinkKeepsLast ==
    /\ cpc = "unlink"
    /\ buckets' = [buckets EXCEPT ![bucket] = WithoutItem]
    /\ Unlinks
    /\ item' = NextItem(List, item)
    /\ claims' = claims \ {csock} /\ leaks' = leaks \ {csock}
    /\ cpc' = "walk"
    /\ CheckerKeeps
    /\ UNCHANGED <<open, bucket, last, csock, leaked, jumped>>

\* The claim stays after the packet was sent.
UnlinkKeepsClaim ==
    /\ cpc = "unlink"
    /\ buckets' = [buckets EXCEPT ![bucket] = WithoutItem]
    /\ Unlinks
    /\ item' = NextItem(List, item)
    /\ last' = IF last = item THEN item' ELSE last
    /\ cpc' = "walk"
    /\ CheckerKeeps
    /\ UNCHANGED <<open, claims, bucket, csock, leaks, leaked, jumped>>

Unlink ==
    /\ cpc = "unlink"
    /\ buckets' = [buckets EXCEPT ![bucket] = WithoutItem]
    /\ Unlinks
    /\ item' = NextItem(List, item)
    /\ last' = IF last = item THEN item' ELSE last
    /\ claims' = claims \ {csock} /\ leaks' = leaks \ {csock}
    /\ cpc' = "walk"
    /\ CheckerKeeps
    /\ UNCHANGED <<open, bucket, csock, leaked, jumped>>

\* The items that are not of the socket.
OfOthers(s) ==
    LET kept[i \in 0..Len(s)] ==
            IF i = 0 THEN <<>>
            ELSE IF s[i].sock # csock THEN Append(kept[i - 1], s[i]) ELSE kept[i - 1]
    IN  kept[Len(s)]

\* After a packet that could not be sent: the record goes, then all of the socket
\* (C_DelCloseClientSockInfo), and the walk begins again.  The claim stays.
C_DelCloseClientSockInfo ==
    /\ cpc = "drop"
    /\ buckets' = [b \in 1..shape.buckets |->
                      OfOthers(IF b = bucket THEN WithoutItem ELSE buckets[b])]
    /\ Unlinks
    /\ leaks' = leaks \cup (claims \cap {csock})
    /\ leaked' = (leaked \/ csock \in claims)
    /\ bucket' = 1
    /\ item' = IF buckets'[1] = <<>> THEN 0 ELSE buckets'[1][1].slot
    /\ last' = item' /\ jumped' = {}
    /\ cpc' = "walk"
    /\ CheckerKeeps
    /\ UNCHANGED <<open, claims, csock>>

Checker ==
    \/ Wake \/ NextBucket \/ NotDue \/ SockClaimed \/ ClaimClient \/ SendClientMsg
    \/ SendWaits \/ SendAgain \/ SendFails \/ CloseSock \/ Unlink \/ C_DelCloseClientSockInfo

-----------------------------------------------------------------------------

WaitNext ==
    \/ \E f \in Socks : WaitAccept(f)
    \/ \E f \in Socks : RecvClientMsgErrorProcess(f)
    \/ \E f \in Socks : HandleClientSrvMsg(f)
    \/ \E m \in pending : InsertClientInfoIntoHash(m)
    \/ \E s \in swaps : ReplaceClientInfo(s)
    \/ Time
    \/ Wake
    \/ NextBucket
    \/ NotDue
    \/ SockClaimed
    \/ ClaimClient
    \/ SendClientMsg
    \/ SendWaits
    \/ SendAgain
    \/ SendFails
    \/ CloseSock
    \/ Unlink
    \/ C_DelCloseClientSockInfo

\* A packet that waits for a client to read is sent again for ever.
WaitFairness ==
    /\ WF_waitVars(Checker)
    /\ WF_waitVars(Time)

WaitSpec == WaitInit /\ [][WaitNext]_waitVars /\ WaitFairness

-----------------------------------------------------------------------------
(* Properties. *)

Busy == cpc \in {"send", "usleep", "close", "unlink", "drop"}

\* The types; pItem and pLast_item are items of the bucket and not freed ones, although
\* records are removed in the walk; no number is in the table twice.
WaitTypeOK ==
    /\ open \subseteq Socks /\ claims \subseteq Socks
    /\ counter \in -Half..(Half - 1)
    /\ cpc \in {"sleep", "walk", "send", "usleep", "close", "unlink", "drop"}
    /\ item # 0 => In(List, item) /\ In(List, last)
    /\ Busy => item # 0
    /\ \A b \in DOMAIN buckets : IsInjective(buckets[b])
    /\ \A r, s \in Records : r.n = s.n => r = s
    /\ leaks \subseteq claims

\* What becomes of waiting requests.  A record is unlinked with another only when the
\* walk has passed it over, which happens only once a claim was left behind
\* (access_check_timeoutmsg.c:174), or when it was put before the item that the walk
\* takes for the first (access_check_timeoutmsg.c:203).  One is replaced only by a
\* request a whole round of the counter later (access_comm_client_rcv.c:543).
RequestsKept ==
    /\ unlinked => leaked
    /\ \A s \in swaps : \A r \in SameKey(s.msg) : (s.msg.id - r.id) % (2 * Half) = 0

Waiting(f) == \E r \in Records : r.sock = f

\* The requests of a descriptor do not wait for ever, but for two causes.  A claim was
\* left behind for it (access_check_timeoutmsg.c:230): then the walk passes them over
\* until a worker or the detector tears the connection down that has the descriptor.  Or
\* the checker, with client_info_mutex, sends time and again to a client that does not
\* read (access_sock_info.c:427): then the requests of all descriptors wait.
AnsweredInTheEnd == \A f \in Socks : Waiting(f) ~> (~Waiting(f) \/ f \in leaks \/ cpc = "usleep")

=============================================================================
