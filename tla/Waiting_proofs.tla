--------------------------- MODULE Waiting_proofs ---------------------------
(***************************************************************************)
(* What holds of Waiting for every number of requests, descriptors and      *)
(* buckets and every width of the message counter: the walk of the checker  *)
(* stands on items of its bucket, and no request is lost without a cause.   *)
(***************************************************************************)
EXTENDS Waiting, TLAPS, FiniteSetTheorems

-----------------------------------------------------------------------------
(* The inductive invariant.                                                   *)

Cycle == 2 * Half

\* A number is its request's place in the line, taken around the counter.
Congruent(id, n) == \E k \in Int : id = n + Cycle * k

ItemOk(b, r) ==
    /\ r = [slot |-> r.slot, id |-> r.id, n |-> r.n, sock |-> r.sock, time |-> r.time]
    /\ r.slot \in 1..numbered /\ r.id \in 1..numbered
    /\ r.n \in -Half..(Half - 1) /\ Congruent(r.id, r.n) /\ BucketOf(r.n) = b
    /\ r.sock \in Socks
    /\ \A m \in pending : m.id # r.slot
    /\ \A s \in swaps : s.slot = r.slot /\ BucketOf(s.msg.n) = b => s.msg.n = r.n

IsList(q) == \E T : q \in Seq(T)

\* No item and no number is in a bucket twice.
Separate(q) == \A i, j \in 1..Len(q) : q[i].slot = q[j].slot \/ q[i].n = q[j].n => i = j

Good(q) == IsList(q) /\ Separate(q) /\ \A i \in 1..Len(q) : q[i].slot # 0

ListOk(b, q) == Good(q) /\ \A i \in 1..Len(q) : ItemOk(b, q[i])

TableOk ==
    /\ shape \in Shapes
    /\ buckets = [b \in 1..shape.buckets |-> buckets[b]]
    /\ \A b \in 1..shape.buckets : ListOk(b, buckets[b])

RequestOk(m) ==
    /\ m = [id |-> m.id, n |-> m.n, sock |-> m.sock]
    /\ m.id \in 1..numbered /\ m.n \in -Half..(Half - 1) /\ Congruent(m.id, m.n)
    /\ m.sock \in Socks

\* Requests between their number and the table; no item has the name of one of them yet.
OnTheWay ==
    /\ numbered \in Nat /\ counter \in -Half..(Half - 1) /\ Congruent(numbered, counter)
    /\ \A m \in pending : RequestOk(m)
    /\ \A l, m \in pending : l.id = m.id => l = m
    /\ \A s \in swaps : /\ s = [msg |-> s.msg, slot |-> s.slot] /\ RequestOk(s.msg)
                        /\ s.slot \in 1..numbered /\ \A m \in pending : m.id # s.slot

\* Where pItem and pLast_item stand: pLast_item is the item before, or the same, unless
\* an item was passed over.
Stands(q, x, y) ==
    \E i, j \in 1..Len(q) :
        q[i].slot = x /\ q[j].slot = y /\ j =< i /\ (leaked \/ i =< j + 1)

WalkOk ==
    /\ cpc \in {"sleep", "walk", "send", "usleep", "close", "unlink", "drop"}
    /\ bucket \in 1..shape.buckets
    /\ Busy => item # 0 /\ csock \in Socks
    /\ cpc = "sleep" => item = 0
    /\ item # 0 => Stands(List, item, last)

ClaimsOk ==
    /\ open \subseteq Socks /\ claims \subseteq Socks /\ leaks \subseteq claims
    /\ claims \subseteq leaks \cup {csock} /\ (~Busy => claims \subseteq leaks)
    /\ leaks # {} => leaked
    /\ leaked \in BOOLEAN

WInv == TableOk /\ OnTheWay /\ WalkOk /\ ClaimsOk

-----------------------------------------------------------------------------
(* Induction over the natural numbers: a set of numbers up to N that has 0    *)
(* and the successor of each of its elements below N has N, for otherwise the *)
(* successor would be an injection of the set into itself that misses 0.      *)

LEMMA UpToN ==
    ASSUME NEW N \in Nat, NEW A \in SUBSET (0..N), 0 \in A,
           \A n \in A : n < N => n + 1 \in A
    PROVE  N \in A
<1> SUFFICES ASSUME N \notin A PROVE FALSE
    OBVIOUS
<1> DEFINE up == [n \in A |-> n + 1]
<1>1. IsFiniteSet(A)
  <2>1. IsFiniteSet(0..N)
        BY FS_Interval
  <2> QED BY <2>1, FS_Subset
<1>2. up \in Injection(A, A)
  <2>1. \A n \in A : n < N /\ n \in Int
        OBVIOUS
  <2>2. up \in [A -> A]
        BY <2>1
  <2>3. \A m, n \in A : up[m] = up[n] => m = n
        BY <2>1
  <2> QED BY <2>2, <2>3 DEF Injection, IsInjective
<1>3. up \in Surjection(A, A)
      BY <1>1, <1>2, FS_Injection
<1>4. PICK n \in A : up[n] = 0
      BY <1>3 DEF Surjection
<1>5. n \in 0..N /\ up[n] = n + 1
      OBVIOUS
<1>6. n + 1 = 0
      BY <1>4, <1>5
<1> QED BY <1>5, <1>6

-----------------------------------------------------------------------------
(* OfOthers.                                                                  *)

\* One more item of q.
Step(q, i, p) == IF q[i].sock # csock THEN Append(p, q[i]) ELSE p

\* What OfOthers has kept after each item.
Kept(q, f, n) == f = [i \in 0..n |-> IF i = 0 THEN <<>> ELSE Step(q, i, f[i - 1])]

LEMMA KeptExists ==
    ASSUME NEW N \in Nat, NEW q
    PROVE  \E f : Kept(q, f, N)
<1> DEFINE A == {n \in 0..N : \E f : Kept(q, f, n)}
<1>1. 0 \in A
  <2> DEFINE f == [i \in 0..0 |-> <<>>]
  <2>1. Kept(q, f, 0)
        BY DEF Kept
  <2> QED BY <2>1
<1>2. ASSUME NEW n \in A, n < N PROVE n + 1 \in A
  <2>1. n \in 0..N
        OBVIOUS
  <2>2. n \in Nat /\ n + 1 \in 0..N
        BY <1>2, <2>1
  <2>3. PICK f : Kept(q, f, n)
        OBVIOUS
  <2> DEFINE g == [i \in 0..(n + 1) |-> IF i =< n THEN f[i] ELSE Step(q, i, f[n])]
  <2>4. \A i \in 0..(n + 1) : g[i] = IF i = 0 THEN <<>> ELSE Step(q, i, g[i - 1])
    <3> TAKE i \in 0..(n + 1)
    <3>1. CASE i = 0
          BY <2>2, <2>3, <3>1 DEF Kept
    <3>2. CASE i \in 1..n
      <4>1. g[i] = f[i] /\ g[i - 1] = f[i - 1]
            BY <2>2, <3>2
      <4>2. f[i] = Step(q, i, f[i - 1])
            BY <2>2, <2>3, <3>2 DEF Kept
      <4> QED BY <4>1, <4>2, <3>2
    <3>3. CASE i = n + 1
      <4>1. g[i] = Step(q, i, f[n]) /\ g[i - 1] = f[n] /\ i # 0
            BY <2>2, <3>3
      <4> QED BY <4>1
    <3> QED BY <2>2, <3>1, <3>2, <3>3
  <2>5. Kept(q, g, n + 1)
        BY <2>4, Zenon DEF Kept
  <2> QED BY <2>2, <2>5
<1>3. A \in SUBSET (0..N)
      OBVIOUS
<1> HIDE DEF A
<1>4. N \in A
      BY <1>1, <1>2, <1>3, UpToN
<1> QED BY <1>4 DEF A

\* What is left has items of q only, and none twice.
Part(p, q, n) ==
    \E f \in [1..Len(p) -> 1..n] :
        /\ \A k \in 1..Len(p) : p[k] = q[f[k]]
        /\ \A k, l \in 1..Len(p) : f[k] = f[l] => k = l

LEMMA OthersArePart ==
    ASSUME NEW T, NEW q \in Seq(T)
    PROVE  OfOthers(q) \in Seq(T) /\ Part(OfOthers(q), q, Len(q))
<1> DEFINE N == Len(q)
           kept == CHOOSE f : Kept(q, f, N)
<1>1. N \in Nat
      OBVIOUS
<1>2. Kept(q, kept, N)
      BY <1>1, KeptExists
<1>3. OfOthers(q) = kept[N]
      BY DEF OfOthers, Kept, Step
<1> HIDE DEF kept
<1> DEFINE A == {n \in 0..N : kept[n] \in Seq(T) /\ Part(kept[n], q, n)}
<1>4. 0 \in A
  <2>1. kept[0] = <<>>
        BY <1>1, <1>2 DEF Kept
  <2>2. 1..Len(<<>>) = {}
        OBVIOUS
  <2>3. [k \in {} |-> 1] \in [{} -> 1..0]
        OBVIOUS
  <2>4. Part(<<>>, q, 0)
        BY <2>2, <2>3 DEF Part
  <2>5. 0 \in 0..N /\ <<>> \in Seq(T)
        BY <1>1
  <2> QED BY <2>1, <2>4, <2>5
<1>5. ASSUME NEW n \in A, n < N PROVE n + 1 \in A
  <2>1. n \in Nat /\ n + 1 \in 1..N /\ n + 1 \in 0..N /\ kept[n] \in Seq(T)
        BY <1>1, <1>5
  <2>2. kept[n + 1] = Step(q, n + 1, kept[n])
    <3>1. (n + 1) - 1 = n /\ n + 1 # 0
          BY <2>1
    <3>2. kept[n + 1] = Step(q, n + 1, kept[(n + 1) - 1])
          BY <1>2, <2>1, <3>1 DEF Kept
    <3> QED BY <3>1, <3>2
  <2> DEFINE p == kept[n]
  <2>3. PICK f \in [1..Len(p) -> 1..n] :
            /\ \A k \in 1..Len(p) : p[k] = q[f[k]]
            /\ \A k, l \in 1..Len(p) : f[k] = f[l] => k = l
        BY DEF Part
  <2>4. CASE q[n + 1].sock = csock
    <3>1. kept[n + 1] = p
          BY <2>2, <2>4 DEF Step
    <3>2. f \in [1..Len(p) -> 1..(n + 1)]
          BY <2>1, <2>3
    <3>3. Part(p, q, n + 1)
          BY <2>3, <3>2 DEF Part
    <3> QED BY <2>1, <3>1, <3>3
  <2>5. CASE q[n + 1].sock # csock
    <3>1. kept[n + 1] = Append(p, q[n + 1])
          BY <2>2, <2>5 DEF Step
    <3>2. q[n + 1] \in T /\ p \in Seq(T) /\ Len(p) \in Nat
          BY <2>1
    <3> HIDE DEF p
    <3> DEFINE r == Append(p, q[n + 1])
               g == [k \in 1..(Len(p) + 1) |-> IF k =< Len(p) THEN f[k] ELSE n + 1]
    <3>3. Len(r) = Len(p) + 1 /\ r \in Seq(T)
          BY <3>2
    <3>4. g \in [1..Len(r) -> 1..(n + 1)]
          BY <2>1, <2>3, <3>2, <3>3
    <3>5. \A k \in 1..Len(r) : r[k] = q[g[k]]
          BY <2>1, <2>3, <3>2, <3>3
    <3>6. \A k, l \in 1..Len(r) : g[k] = g[l] => k = l
      <4>1. \A k \in 1..Len(p) : g[k] = f[k] /\ f[k] \in 1..n
        <5> TAKE k \in 1..Len(p)
        <5>1. k \in 1..(Len(p) + 1) /\ k =< Len(p)
              BY <3>2
        <5> QED BY <2>3, <5>1
      <4>2. g[Len(p) + 1] = n + 1 /\ n + 1 \notin 1..n
            BY <2>1, <3>2
      <4>3. \A k \in 1..Len(r) : k \in 1..Len(p) \/ k = Len(p) + 1
            BY <3>2, <3>3
      <4> HIDE DEF g, r
      <4> TAKE k, l \in 1..Len(r)
      <4>4. CASE k \in 1..Len(p) /\ l \in 1..Len(p)
        <5>1. g[k] = f[k] /\ g[l] = f[l]
              BY <4>1, <4>4
        <5>2. f[k] = f[l] => k = l
              BY <2>3, <4>4
        <5> QED BY <5>1, <5>2
      <4>5. CASE k \in 1..Len(p) /\ l = Len(p) + 1
            BY <4>1, <4>2, <4>5
      <4>6. CASE k = Len(p) + 1 /\ l \in 1..Len(p)
            BY <4>1, <4>2, <4>6
      <4> QED BY <4>3, <4>4, <4>5, <4>6
    <3>7. Part(r, q, n + 1)
          BY <3>4, <3>5, <3>6 DEF Part
    <3> QED BY <2>1, <3>1, <3>3, <3>7
  <2> QED BY <2>4, <2>5
<1>6. A \in SUBSET (0..N)
      OBVIOUS
<1> HIDE DEF A, N
<1>7. N \in A
      BY <1>1, <1>4, <1>5, <1>6, UpToN
<1> QED BY <1>3, <1>7 DEF A, N

-----------------------------------------------------------------------------
(* The message counter.                                                       *)

LEMMA Constants ==
    ASSUME shape \in Shapes
    PROVE  /\ Half \in Nat \ {0} /\ Cycle \in Nat \ {0} /\ Cycle = 2 * Half
           /\ shape.buckets \in Nat \ {0} /\ shape.front \in BOOLEAN /\ 0 \notin Socks
BY WaitAssumption DEF Half, Cycle

LEMMA Division ==
    ASSUME NEW m \in Nat \ {0}, NEW x \in Int
    PROVE  x \div m \in Int /\ x = m * (x \div m) + (x % m) /\ x % m \in 0..(m - 1)
OBVIOUS

LEMMA Multiple == ASSUME NEW m \in Nat \ {0}, NEW k \in Int PROVE (m * k) % m = 0
OBVIOUS

LEMMA Buckets == ASSUME shape \in Shapes, NEW n \in Int PROVE BucketOf(n) \in 1..shape.buckets
<1>1. shape.buckets \in Nat \ {0}
      BY Constants
<1>2. n % shape.buckets \in 0..(shape.buckets - 1)
      BY <1>1, Division
<1> QED BY <1>1, <1>2 DEF BucketOf

\* No int is as large as pow(2, 32) - 1, and the next number is congruent to the next place.
LEMMA CounterGoesOn ==
    ASSUME shape \in Shapes, OnTheWay
    PROVE  NextCounter(counter) \in -Half..(Half - 1)
           /\ Congruent(numbered + 1, NextCounter(counter))
<1> DEFINE x == counter + 1 + Half
           d == x \div Cycle
           w == Wrap(counter + 1)
<1>1. Half \in Nat \ {0} /\ Cycle \in Nat \ {0} /\ Cycle = 2 * Half
      BY Constants
<1>2. numbered \in Nat /\ counter \in Int /\ x \in Int
      BY <1>1 DEF OnTheWay
<1>3. d \in Int /\ x = Cycle * d + (x % Cycle) /\ x % Cycle \in 0..(Cycle - 1)
      BY <1>1, <1>2, Division
<1>4. w = (x % Cycle) - Half
      BY DEF Wrap, Cycle
<1>5. w \in -Half..(Half - 1)
  <2> HIDE DEF x, w
  <2> QED BY <1>1, <1>3, <1>4
<1>6. NextCounter(counter) = w
  <2>1. ~(w >= 2 * Half - 1)
    <3> HIDE DEF w
    <3> QED BY <1>1, <1>5
  <2> QED BY <2>1 DEF NextCounter
<1>7. PICK k \in Int : numbered = counter + Cycle * k
      BY DEF OnTheWay, Congruent
<1>8. numbered + 1 = w + Cycle * (k + d)
  <2>1. Cycle * (k + d) = Cycle * k + Cycle * d /\ Cycle * k \in Int /\ Cycle * d \in Int
        BY <1>1, <1>3, <1>7
  <2>2. x = counter + 1 + Half
        OBVIOUS
  <2> HIDE DEF x, w, d
  <2> DEFINE e == x % Cycle
             ck == Cycle * k
             cd == Cycle * d
  <2>3. e \in Int /\ ck \in Int /\ cd \in Int /\ x = cd + e /\ w = e - Half
        /\ numbered = counter + ck /\ Cycle * (k + d) = ck + cd
        BY <1>3, <1>4, <1>7, <2>1
  <2> HIDE DEF e, ck, cd
  <2>4. numbered + 1 = w + (ck + cd)
        BY <1>1, <1>2, <2>2, <2>3
  <2> QED BY <2>3, <2>4, Zenon
<1>9. k + d \in Int
      BY <1>3, <1>7
<1> QED BY <1>5, <1>6, <1>8, <1>9, Zenon DEF Congruent

-----------------------------------------------------------------------------
(* Lists of items.                                                            *)

\* Every item of w is one of q.
TakenFrom(w, q) == \A k \in 1..Len(w) : \E i \in 1..Len(q) : w[k] = q[i]

LEMMA Place ==
    ASSUME NEW q, Good(q), NEW i \in 1..Len(q)
    PROVE  At(q, q[i].slot) = i /\ In(q, q[i].slot)
BY DEF At, In, Good, Separate

LEMMA Follows ==
    ASSUME NEW q, Good(q), NEW i \in 1..Len(q)
    PROVE  NextItem(q, q[i].slot) = IF i < Len(q) THEN q[i + 1].slot ELSE 0
BY Place DEF NextItem

LEMMA Length == ASSUME NEW q, IsList(q) PROVE Len(q) \in Nat
BY DEF IsList

\* HashInsert puts an item at one end.
LEMMA Appended ==
    ASSUME NEW q, Good(q), NEW r, r.slot # 0,
           \A i \in 1..Len(q) : q[i].slot # r.slot /\ q[i].n # r.n
    PROVE  LET w == Append(q, r) IN
           /\ Good(w) /\ Len(w) = Len(q) + 1 /\ w[Len(q) + 1] = r
           /\ \A i \in 1..Len(q) : w[i] = q[i]
<1> DEFINE w == Append(q, r)
<1>1. PICK T : q \in Seq(T)
      BY DEF Good, IsList
<1> DEFINE U == T \cup {r}
<1>2. q \in Seq(U) /\ r \in U /\ Len(q) \in Nat
      BY <1>1
<1> HIDE DEF U
<1>3. w \in Seq(U) /\ Len(w) = Len(q) + 1 /\ w[Len(q) + 1] = r /\ \A i \in 1..Len(q) : w[i] = q[i]
      BY <1>2
<1> HIDE DEF w
<1>4. \A i \in 1..Len(w) : i \in 1..Len(q) \/ i = Len(q) + 1
      BY <1>2, <1>3
<1>5. Separate(w) /\ \A i \in 1..Len(w) : w[i].slot # 0
      BY <1>3, <1>4 DEF Good, Separate
<1>6. IsList(w)
      BY <1>3 DEF IsList
<1> QED BY <1>3, <1>5, <1>6 DEF Good, w

LEMMA Prefixed ==
    ASSUME NEW q, Good(q), NEW r, r.slot # 0,
           \A i \in 1..Len(q) : q[i].slot # r.slot /\ q[i].n # r.n
    PROVE  LET w == <<r>> \o q IN
           /\ Good(w) /\ Len(w) = Len(q) + 1 /\ w[1] = r
           /\ \A i \in 1..Len(q) : w[i + 1] = q[i]
<1> DEFINE w == <<r>> \o q
<1>1. PICK T : q \in Seq(T)
      BY DEF Good, IsList
<1> DEFINE U == T \cup {r}
<1>2. q \in Seq(U) /\ <<r>> \in Seq(U) /\ Len(q) \in Nat /\ Len(<<r>>) = 1
      BY <1>1
<1> HIDE DEF U
<1>3. w \in Seq(U) /\ Len(w) = Len(q) + 1 /\ w[1] = r /\ \A i \in 1..Len(q) : w[i + 1] = q[i]
      BY <1>2
<1> HIDE DEF w
<1>4. \A i \in 1..Len(w) : i = 1 \/ (i - 1 \in 1..Len(q) /\ w[i] = q[i - 1])
      BY <1>2, <1>3
<1>5. \A i \in 1..Len(w) : i \in Int
      BY <1>2, <1>3
<1>6. Separate(w)
  <2> SUFFICES ASSUME NEW i \in 1..Len(w), NEW j \in 1..Len(w), w[i].slot = w[j].slot \/ w[i].n = w[j].n
               PROVE  i = j
      BY DEF Separate
  <2>1. CASE i = 1 /\ j = 1
        BY <2>1
  <2>2. CASE i = 1 /\ j # 1
        BY <1>3, <1>4, <2>2
  <2>3. CASE i # 1 /\ j = 1
        BY <1>3, <1>4, <2>3
  <2>4. CASE i # 1 /\ j # 1
    <3>1. i - 1 \in 1..Len(q) /\ w[i] = q[i - 1] /\ j - 1 \in 1..Len(q) /\ w[j] = q[j - 1]
          BY <1>4, <2>4
    <3>2. i - 1 = j - 1
          BY <3>1, Zenon DEF Good, Separate
    <3> QED BY <1>5, <3>2
  <2> QED BY <2>1, <2>2, <2>3, <2>4
<1>7. \A i \in 1..Len(w) : w[i].slot # 0
      BY <1>3, <1>4 DEF Good
<1>8. IsList(w)
      BY <1>3 DEF IsList
<1> QED BY <1>3, <1>6, <1>7, <1>8 DEF Good, w

\* A record put into an item.
LEMMA Exchanged ==
    ASSUME NEW q, Good(q), NEW k \in 1..Len(q), NEW r, r.slot = q[k].slot, r.n = q[k].n
    PROVE  LET w == [q EXCEPT ![k] = r] IN
           /\ Good(w) /\ Len(w) = Len(q) /\ w[k] = r
           /\ \A i \in 1..Len(q) : i # k => w[i] = q[i]
<1> DEFINE w == [q EXCEPT ![k] = r]
<1>1. PICK T : q \in Seq(T)
      BY DEF Good, IsList
<1> DEFINE U == T \cup {r}
<1>2. q \in Seq(U) /\ r \in U
      BY <1>1
<1> HIDE DEF U
<1>3. w \in Seq(U) /\ Len(w) = Len(q) /\ w[k] = r /\ \A i \in 1..Len(q) : i # k => w[i] = q[i]
      BY <1>2
<1> HIDE DEF w
<1>4. \A i \in 1..Len(w) : w[i].slot = q[i].slot /\ w[i].n = q[i].n
      BY <1>3
<1>5. Separate(w) /\ \A i \in 1..Len(w) : w[i].slot # 0
      BY <1>3, <1>4 DEF Good, Separate
<1>6. IsList(w)
      BY <1>3 DEF IsList
<1> QED BY <1>3, <1>5, <1>6 DEF Good, w

\* The items up to j, and those after i.
Cut(q, j, i) == SubSeq(q, 1, j) \o SubSeq(q, i + 1, Len(q))

LEMMA CutOut ==
    ASSUME NEW q, Good(q), NEW i \in 1..Len(q), NEW j \in 0..i
    PROVE  LET w == Cut(q, j, i) IN
           /\ Good(w) /\ Len(w) = j + (Len(q) - i)
           /\ \A k \in 1..Len(w) : w[k] = IF k =< j THEN q[k] ELSE q[k - j + i]
<1> DEFINE u == SubSeq(q, 1, j)
           v == SubSeq(q, i + 1, Len(q))
           w == u \o v
<1>1. PICK T : q \in Seq(T)
      BY DEF Good, IsList
<1>2. Len(q) \in Nat /\ i \in Int /\ j \in Int
      BY <1>1
<1>3. u \in Seq(T) /\ Len(u) = j /\ \A k \in 1..j : u[k] = q[k]
      BY <1>1, <1>2
<1>4. v \in Seq(T) /\ Len(v) = Len(q) - i /\ \A k \in 1..(Len(q) - i) : v[k] = q[k + i]
      BY <1>1, <1>2
<1> HIDE DEF u, v
<1>5. /\ w \in Seq(T) /\ Len(w) = j + (Len(q) - i)
      /\ \A k \in 1..Len(w) : w[k] = IF k =< Len(u) THEN u[k] ELSE v[k - Len(u)]
  <2>1. u \in Seq(T) /\ v \in Seq(T)
        BY <1>3, <1>4
  <2>2. /\ w \in Seq(T) /\ Len(w) = Len(u) + Len(v)
        /\ \A k \in 1..Len(w) : w[k] = IF k =< Len(u) THEN u[k] ELSE v[k - Len(u)]
        BY <2>1
  <2>3. Len(w) = j + (Len(q) - i)
        BY <2>2, <1>3, <1>4
  <2> QED BY <2>2, <2>3
<1> HIDE DEF w
<1>6. ASSUME NEW k \in 1..Len(w) PROVE w[k] = IF k =< j THEN q[k] ELSE q[k - j + i]
  <2>1. CASE k =< j
        BY <1>2, <1>3, <1>5, <2>1
  <2>2. CASE ~(k =< j)
    <3>1. k - j \in 1..(Len(q) - i)
          BY <1>2, <1>5, <2>2
    <3>2. w[k] = v[k - j]
          BY <1>3, <1>5, <2>2
    <3>3. v[k - j] = q[k - j + i]
          BY <1>4, <3>1
    <3> QED BY <2>2, <3>2, <3>3
  <2> QED BY <2>1, <2>2
<1> DEFINE g == [k \in 1..Len(w) |-> IF k =< j THEN k ELSE k - j + i]
<1>7. /\ \A k \in 1..Len(w) : g[k] \in 1..Len(q) /\ w[k] = q[g[k]]
      /\ \A k, l \in 1..Len(w) : g[k] = g[l] => k = l
  <2>1. \A k \in 1..Len(w) : g[k] = IF k =< j THEN k ELSE k - j + i
        OBVIOUS
  <2>2. \A k \in 1..Len(w) : k \in Int
        BY <1>2, <1>5
  <2> HIDE DEF g
  <2>3. ASSUME NEW k \in 1..Len(w) PROVE g[k] \in 1..Len(q) /\ w[k] = q[g[k]]
    <3>1. CASE k =< j
          BY <1>2, <1>6, <2>1, <3>1
    <3>2. CASE ~(k =< j)
          BY <1>2, <1>5, <1>6, <2>1, <3>2
    <3> QED BY <3>1, <3>2
  <2>4. ASSUME NEW k \in 1..Len(w), NEW l \in 1..Len(w), g[k] = g[l] PROVE k = l
        BY <1>2, <1>5, <2>1, <2>4
  <2> QED BY <2>3, <2>4
<1> HIDE DEF g
<1>8. Separate(w) /\ \A k \in 1..Len(w) : w[k].slot # 0
  <2>1. \A k \in 1..Len(w) : w[k].slot # 0
        BY <1>7 DEF Good
  <2>2. ASSUME NEW k \in 1..Len(w), NEW l \in 1..Len(w), w[k].slot = w[l].slot \/ w[k].n = w[l].n
        PROVE  k = l
    <3>1. g[k] = g[l]
          BY <1>7, <2>2 DEF Good, Separate
    <3> QED BY <1>7, <3>1
  <2> QED BY <2>1, <2>2 DEF Separate
<1>9. IsList(w)
      BY <1>5 DEF IsList
<1> QED BY <1>5, <1>6, <1>8, <1>9 DEF Good, Cut, u, v, w

LEMMA OthersGood ==
    ASSUME NEW q, Good(q)
    PROVE  Good(OfOthers(q)) /\ TakenFrom(OfOthers(q), q)
<1>1. PICK T : q \in Seq(T)
      BY DEF Good, IsList
<1>2. OfOthers(q) \in Seq(T) /\ Part(OfOthers(q), q, Len(q))
      BY <1>1, OthersArePart
<1> DEFINE w == OfOthers(q)
<1> HIDE DEF w
<1>3. PICK f \in [1..Len(w) -> 1..Len(q)] :
          /\ \A k \in 1..Len(w) : w[k] = q[f[k]]
          /\ \A k, l \in 1..Len(w) : f[k] = f[l] => k = l
      BY <1>2 DEF Part, w
<1>4. Separate(w) /\ (\A k \in 1..Len(w) : w[k].slot # 0) /\ TakenFrom(w, q)
  <2>1. \A k \in 1..Len(w) : f[k] \in 1..Len(q) /\ w[k] = q[f[k]]
        BY <1>3
  <2>2. ASSUME NEW k \in 1..Len(w), NEW l \in 1..Len(w), w[k].slot = w[l].slot \/ w[k].n = w[l].n
        PROVE  k = l
    <3>1. f[k] = f[l]
          BY <2>1, <2>2 DEF Good, Separate
    <3> QED BY <1>3, <3>1
  <2>3. \A k \in 1..Len(w) : w[k].slot # 0
        BY <2>1 DEF Good
  <2> QED BY <2>1, <2>2, <2>3 DEF Separate, TakenFrom
<1>5. IsList(w)
      BY <1>2 DEF IsList, w
<1> QED BY <1>4, <1>5 DEF Good, w

-----------------------------------------------------------------------------
(* What the invariant rests on.                                               *)

\* The variables of each part.
LEMMA RequestsStay ==
    ASSUME shape' = shape, numbered \in Nat, numbered' \in Nat, numbered =< numbered'
    PROVE  \A m : RequestOk(m) => RequestOk(m)'
BY DEF RequestOk, Congruent, Half, Cycle

LEMMA ItemStays ==
    ASSUME shape' = shape, numbered \in Nat, numbered' \in Nat, numbered =< numbered',
           \A m \in pending' : m \in pending \/ m.id \notin 1..numbered,
           NEW b, NEW r, ItemOk(b, r),
           \A s \in swaps' : s \in swaps \/ (s.slot = r.slot /\ BucketOf(s.msg.n) = b => s.msg.n = r.n)
    PROVE  ItemOk(b, r)'
<1>1. /\ Half' = Half /\ Cycle' = Cycle /\ \A n : BucketOf(n)' = BucketOf(n)
      /\ \A i, n : Congruent(i, n)' = Congruent(i, n)
      BY DEF Half, Cycle, BucketOf, Congruent
<1>2. r.slot \in 1..numbered' /\ r.id \in 1..numbered'
      BY DEF ItemOk
<1>3. \A m \in pending' : m.id # r.slot
      BY DEF ItemOk
<1>4. \A s \in swaps' : s.slot = r.slot /\ BucketOf(s.msg.n) = b => s.msg.n = r.n
      BY DEF ItemOk
<1>5. /\ r = [slot |-> r.slot, id |-> r.id, n |-> r.n, sock |-> r.sock, time |-> r.time]
      /\ r.n \in -Half..(Half - 1) /\ Congruent(r.id, r.n) /\ BucketOf(r.n) = b
      /\ r.sock \in Socks
      BY Zenon DEF ItemOk
<1> QED BY <1>1, <1>2, <1>3, <1>4, <1>5, Zenon DEF ItemOk

LEMMA TableNext ==
    ASSUME TableOk, shape' = shape, buckets' = [b \in 1..shape.buckets |-> buckets'[b]],
           \A b \in 1..shape.buckets : ListOk(b, buckets[b])'
    PROVE  TableOk'
BY DEF TableOk

LEMMA TableStays ==
    ASSUME TableOk, UNCHANGED <<shape, buckets>>, \A b, r : ItemOk(b, r) => ItemOk(b, r)'
    PROVE  TableOk'
<1>1. \A b \in 1..shape.buckets : ListOk(b, buckets[b])'
      BY DEF TableOk, ListOk
<1>2. buckets' = [b \in 1..shape.buckets |-> buckets'[b]]
      BY DEF TableOk
<1> QED BY <1>1, <1>2, TableNext

LEMMA NothingComes ==
    ASSUME TableOk, OnTheWay, UNCHANGED <<shape, requestVars, swaps>>
    PROVE  OnTheWay' /\ \A b, r : ItemOk(b, r) => ItemOk(b, r)'
<1>1. OnTheWay'
      BY DEF OnTheWay, RequestOk, requestVars, Half, Cycle, Congruent
<1>2. \A b, r : ItemOk(b, r) => ItemOk(b, r)'
      BY DEF ItemOk, requestVars, Half, Cycle, Congruent, BucketOf
<1> QED BY <1>1, <1>2

\* The checker's walk, and what it has claimed, when only others move.
LEMMA WalkStays ==
    ASSUME WalkOk, UNCHANGED <<shape, checkerVars, leaked>>,
           item # 0 => Stands(List', item, last)
    PROVE  WalkOk'
BY DEF WalkOk, checkerVars, Busy, Stands

LEMMA ClaimsStay ==
    ASSUME ClaimsOk, UNCHANGED <<open, claims, checkerVars, leaks, leaked>>
    PROVE  ClaimsOk'
BY DEF ClaimsOk, checkerVars, Busy

LEMMA TheBucket ==
    ASSUME TableOk, NEW b \in 1..shape.buckets
    PROVE  Good(buckets[b]) /\ \A i \in 1..Len(buckets[b]) : ItemOk(b, buckets[b][i])
BY DEF TableOk, ListOk

-----------------------------------------------------------------------------
(* Clients, workers, forwarders.                                              *)

LEMMA ClientStep ==
    ASSUME WInv, NEW f \in Socks, WaitAccept(f) \/ RecvClientMsgErrorProcess(f)
    PROVE  WInv'
<1>1. UNCHANGED <<shape, requestVars, swaps, buckets, checkerVars, leaked>>
      BY DEF WaitAccept, RecvClientMsgErrorProcess, tellVars
<1>2. TableOk' /\ OnTheWay'
      BY <1>1, NothingComes, TableStays DEF WInv
<1>3. List' = List
      BY <1>1 DEF List, checkerVars
<1>4. WalkOk'
      BY <1>1, <1>3, WalkStays DEF WInv, WalkOk
<1>5. ClaimsOk'
      BY <1>1 DEF WInv, ClaimsOk, WaitAccept, RecvClientMsgErrorProcess, tellVars, checkerVars, Busy
<1> QED BY <1>2, <1>4, <1>5 DEF WInv

LEMMA NumberStep ==
    ASSUME WInv, NEW f \in Socks, HandleClientSrvMsg(f)
    PROVE  WInv'
<1>1. /\ UNCHANGED <<shape, open, swaps, buckets, claims, checkerVars, tellVars>>
      /\ numbered' = numbered + 1 /\ counter' = NextCounter(counter)
      /\ pending' = pending \cup {[id |-> numbered', n |-> counter', sock |-> f]}
      BY DEF HandleClientSrvMsg
<1>2. numbered \in Nat /\ numbered' \in Nat /\ numbered =< numbered' /\ numbered' \notin 1..numbered
      BY <1>1 DEF WInv, OnTheWay
<1>3. PICK m : /\ m = [id |-> m.id, n |-> m.n, sock |-> m.sock]
               /\ m.id = numbered' /\ m.n = counter' /\ m.sock = f
               /\ pending' = pending \cup {m}
  <2> DEFINE m == [id |-> numbered', n |-> counter', sock |-> f]
  <2>1. m = [id |-> m.id, n |-> m.n, sock |-> m.sock]
        OBVIOUS
  <2>2. m.id = numbered' /\ m.n = counter' /\ m.sock = f
        OBVIOUS
  <2>3. pending' = pending \cup {m}
        BY <1>1
  <2> HIDE DEF m
  <2> QED BY <2>1, <2>2, <2>3
<1>4. TableOk'
  <2>1. \A b, r : ItemOk(b, r) => ItemOk(b, r)'
        BY <1>1, <1>2, <1>3, ItemStays
  <2> QED BY <1>1, <2>1, TableStays DEF WInv
<1>5. OnTheWay'
  <2>1. shape \in Shapes /\ OnTheWay
        BY DEF WInv, TableOk
  <2>2. counter' \in -Half..(Half - 1) /\ Congruent(numbered', counter')
        BY <1>1, <2>1, CounterGoesOn
  <2>3. Half' = Half /\ Cycle' = Cycle
        BY <1>1 DEF Half, Cycle
  <2>4. (counter \in -Half..(Half - 1))' /\ Congruent(numbered, counter)'
        BY <2>2, <2>3 DEF Congruent
  <2>5. RequestOk(m)'
    <3>1. numbered' \in 1..numbered'
          BY <1>2, <1>1
    <3>2. m.n \in -Half'..(Half' - 1)
          BY <1>3, <2>4
    <3>3. Congruent(m.id, m.n)'
          BY <1>3, <2>2, <2>3 DEF Congruent
    <3> QED BY <1>3, <3>1, <3>2, <3>3, Zenon DEF RequestOk
  <2>6. \A l : RequestOk(l) => RequestOk(l)'
        BY <1>1, <1>2, RequestsStay
  <2>7. \A l \in pending' : RequestOk(l)'
        BY <1>3, <2>1, <2>5, <2>6 DEF OnTheWay
  <2>8. \A l \in pending : l.id \in 1..numbered
        BY <2>1 DEF OnTheWay, RequestOk
  <2>9. \A l, k \in pending' : l.id = k.id => l = k
        BY <1>2, <1>3, <2>1, <2>8 DEF OnTheWay
  <2>10. \A s \in swaps' : s = [msg |-> s.msg, slot |-> s.slot] /\ RequestOk(s.msg)'
                           /\ s.slot \in 1..numbered' /\ \A l \in pending' : l.id # s.slot
    <3> SUFFICES ASSUME NEW s \in swaps
                 PROVE  s = [msg |-> s.msg, slot |-> s.slot] /\ RequestOk(s.msg)'
                        /\ s.slot \in 1..numbered' /\ \A l \in pending' : l.id # s.slot
        BY <1>1
    <3>1. s = [msg |-> s.msg, slot |-> s.slot] /\ RequestOk(s.msg) /\ s.slot \in 1..numbered
          /\ \A l \in pending : l.id # s.slot
          BY <2>1, Zenon DEF OnTheWay
    <3>2. s.slot \in 1..numbered'
          BY <1>2, <3>1
    <3> QED BY <1>2, <1>3, <2>6, <3>1, <3>2
  <2> QED BY <1>2, <2>4, <2>7, <2>9, <2>10 DEF OnTheWay
<1>6. List' = List
      BY <1>1 DEF List, checkerVars
<1>7. WalkOk'
      BY <1>1, <1>6, WalkStays DEF WInv, WalkOk, tellVars
<1>8. ClaimsOk'
      BY <1>1, ClaimsStay DEF WInv, tellVars
<1> QED BY <1>4, <1>5, <1>7, <1>8 DEF WInv

\* The request is in no bucket and is put into one.
LEMMA NewRecord ==
    ASSUME WInv, NEW m \in pending, InsertClientInfoIntoHash(m), SameKey(m) = {}
    PROVE  LET b == BucketOf(m.n)
               q == buckets[b]
           IN  /\ b \in 1..shape.buckets
               /\ Good(q) /\ \A i \in 1..Len(q) : ItemOk(b, q[i])
               /\ \E r : /\ r = [slot |-> r.slot, id |-> r.id, n |-> r.n, sock |-> r.sock,
                                 time |-> r.time]
                         /\ r.slot = m.id /\ r.id = m.id /\ r.n = m.n /\ r.sock = m.sock
                         /\ r.slot # 0 /\ \A i \in 1..Len(q) : q[i].slot # r.slot /\ q[i].n # r.n
                         /\ buckets' = [buckets EXCEPT ![b] = IF shape.front THEN <<r>> \o q
                                                                            ELSE Append(q, r)]
<1> DEFINE b == BucketOf(m.n)
           q == buckets[b]
<1>1. buckets' = [buckets EXCEPT ![b] = IF shape.front THEN <<Record(m, m.id)>> \o @
                                                       ELSE Append(@, Record(m, m.id))]
      BY DEF InsertClientInfoIntoHash
<1>2. shape \in Shapes /\ RequestOk(m) /\ numbered \in Nat
      BY DEF WInv, TableOk, OnTheWay
<1>3. b \in 1..shape.buckets
      BY <1>2, Constants, Buckets DEF RequestOk
<1>4. PICK r : /\ r = Record(m, m.id)
               /\ r = [slot |-> r.slot, id |-> r.id, n |-> r.n, sock |-> r.sock, time |-> r.time]
               /\ r.slot = m.id /\ r.id = m.id /\ r.n = m.n /\ r.sock = m.sock
  <2> DEFINE t == 1 + Max({r.time : r \in Records} \cup {0})
             r == [slot |-> m.id, id |-> m.id, n |-> m.n, sock |-> m.sock, time |-> t]
  <2>1. Record(m, m.id) = r
        BY DEF Record
  <2> HIDE DEF t
  <2>2. /\ r = [slot |-> r.slot, id |-> r.id, n |-> r.n, sock |-> r.sock, time |-> r.time]
        /\ r.slot = m.id /\ r.id = m.id /\ r.n = m.n /\ r.sock = m.sock
        OBVIOUS
  <2> HIDE DEF r
  <2> QED BY <2>1, <2>2
<1>5. Good(q) /\ \A i \in 1..Len(q) : ItemOk(b, q[i])
      BY <1>3, TheBucket DEF WInv
<1>6. r.slot # 0 /\ \A i \in 1..Len(q) : q[i].slot # r.slot /\ q[i].n # r.n
  <2>1. r.slot # 0
        BY <1>2, <1>4 DEF RequestOk
  <2>2. \A i \in 1..Len(q) : q[i].slot # r.slot
        BY <1>4, <1>5 DEF ItemOk
  <2>3. DOMAIN q = 1..Len(q)
        BY <1>5 DEF Good, IsList
  <2>4. \A i \in 1..Len(q) : q[i].n # r.n
        BY <1>4, <2>3 DEF SameKey, ToSet
  <2> QED BY <2>1, <2>2, <2>4
<1>7. DOMAIN buckets = 1..shape.buckets
      BY DEF WInv, TableOk
<1>8. buckets' = [buckets EXCEPT ![b] = IF shape.front THEN <<r>> \o q ELSE Append(q, r)]
      BY <1>1, <1>3, <1>4, <1>7
<1> QED BY <1>3, <1>4, <1>5, <1>6, <1>8

LEMMA NewItem ==
    ASSUME WInv, NEW m \in pending, InsertClientInfoIntoHash(m), SameKey(m) = {}
    PROVE  WInv'
<1> DEFINE b == BucketOf(m.n)
           q == buckets[b]
<1>1. /\ UNCHANGED <<shape, open, counter, numbered, claims, checkerVars, leaks, leaked, swaps>>
      /\ pending' = pending \ {m}
      BY DEF InsertClientInfoIntoHash
<1>2. shape \in Shapes /\ RequestOk(m) /\ numbered \in Nat
      BY DEF WInv, TableOk, OnTheWay
<1>3. b \in 1..shape.buckets
      BY NewRecord
<1>4. PICK r : /\ r = [slot |-> r.slot, id |-> r.id, n |-> r.n, sock |-> r.sock, time |-> r.time]
               /\ r.slot = m.id /\ r.id = m.id /\ r.n = m.n /\ r.sock = m.sock
               /\ r.slot # 0 /\ \A i \in 1..Len(q) : q[i].slot # r.slot /\ q[i].n # r.n
               /\ buckets' = [buckets EXCEPT ![b] = IF shape.front THEN <<r>> \o q
                                                                  ELSE Append(q, r)]
      BY NewRecord
<1>5. Good(q) /\ \A i \in 1..Len(q) : ItemOk(b, q[i])
      BY NewRecord
<1>6. r.slot # 0 /\ \A i \in 1..Len(q) : q[i].slot # r.slot /\ q[i].n # r.n
      BY <1>4
<1> DEFINE w == IF shape.front THEN <<r>> \o q ELSE Append(q, r)
<1>7. buckets' = [buckets EXCEPT ![b] = w] /\ DOMAIN buckets = 1..shape.buckets
      BY <1>4 DEF WInv, TableOk
<1>8. PICK d \in {0, 1} : /\ Good(w) /\ \A i \in 1..Len(q) : i + d \in 1..Len(w) /\ w[i + d] = q[i]
                          /\ \A k \in 1..Len(w) : w[k] = r \/ \E i \in 1..Len(q) : w[k] = q[i]
  <2>1. Len(q) \in Nat
        BY <1>5, Length DEF Good
  <2>2. CASE shape.front
    <3>1. /\ Good(w) /\ Len(w) = Len(q) + 1 /\ w[1] = r /\ \A i \in 1..Len(q) : w[i + 1] = q[i]
          BY <1>5, <1>6, <2>2, Prefixed
    <3> HIDE DEF w, q
    <3>2. \A k \in 1..Len(w) : k = 1 \/ (k - 1 \in 1..Len(q) /\ w[k] = q[k - 1])
      <4> SUFFICES ASSUME NEW k \in 1..Len(w), k # 1
                   PROVE  k - 1 \in 1..Len(q) /\ w[k] = q[k - 1]
          OBVIOUS
      <4>1. k - 1 \in 1..Len(q) /\ (k - 1) + 1 = k
            BY <2>1, <3>1
      <4> QED BY <3>1, <4>1
    <3>3. \A i \in 1..Len(q) : i + 1 \in 1..Len(w)
          BY <2>1, <3>1
    <3> QED BY <3>1, <3>2, <3>3
  <2>3. CASE ~shape.front
    <3>1. /\ Good(w) /\ Len(w) = Len(q) + 1 /\ w[Len(q) + 1] = r /\ \A i \in 1..Len(q) : w[i] = q[i]
          BY <1>5, <1>6, <2>3, Appended
    <3> HIDE DEF w, q
    <3>2. \A k \in 1..Len(w) : k \in 1..Len(q) \/ k = Len(q) + 1
          BY <2>1, <3>1
    <3>3. \A i \in 1..Len(q) : i + 0 = i /\ i \in 1..Len(w)
          BY <2>1, <3>1
    <3> QED BY <3>1, <3>2, <3>3
  <2> QED BY <2>2, <2>3
<1> HIDE DEF w
<1>9. \A c, x : ItemOk(c, x) => ItemOk(c, x)'
      BY <1>1, <1>2, ItemStays
<1>10. ItemOk(b, r)'
  <2>1. /\ Half' = Half /\ Cycle' = Cycle /\ \A n : BucketOf(n)' = BucketOf(n)
        /\ \A i, n : Congruent(i, n)' = Congruent(i, n)
        BY <1>1 DEF Half, Cycle, BucketOf, Congruent
  <2>2. /\ r.slot \in 1..numbered' /\ r.id \in 1..numbered' /\ r.n \in -Half'..(Half' - 1)
        /\ Congruent(r.id, r.n)' /\ BucketOf(r.n)' = b /\ r.sock \in Socks
        BY <1>1, <1>2, <1>4, <2>1 DEF RequestOk
  <2>3. \A l \in pending' : l.id # r.slot
        BY <1>1, <1>4 DEF WInv, OnTheWay
  <2>4. \A s \in swaps' : s.slot # r.slot
        BY <1>1, <1>4 DEF WInv, OnTheWay
  <2> QED BY <1>4, <2>2, <2>3, <2>4, Zenon DEF ItemOk
<1>11. TableOk'
  <2>1. \A c \in 1..shape.buckets : ListOk(c, buckets[c])'
    <3> SUFFICES ASSUME NEW c \in 1..shape.buckets PROVE ListOk(c, buckets[c])'
        OBVIOUS
    <3>1. CASE c = b
      <4>1. buckets'[c] = w
            BY <1>3, <1>7, <3>1
      <4>2. \A x : x = r \/ (\E i \in 1..Len(q) : x = q[i]) => ItemOk(c, x)'
        <5>1. ItemOk(c, r)'
          <6>1. BucketOf(m.n)' = c
                BY <1>1, <3>1 DEF BucketOf
          <6> QED BY <1>10, <6>1
        <5>2. \A i \in 1..Len(q) : ItemOk(c, q[i])
              BY <1>5, <3>1
        <5> QED BY <1>9, <5>1, <5>2
      <4>3. Good(buckets[c])'
            BY <1>8, <4>1
      <4>4. \A i \in 1..Len(buckets'[c]) :
                buckets'[c][i] = r \/ \E k \in 1..Len(q) : buckets'[c][i] = q[k]
            BY <1>8, <4>1
      <4> QED BY <4>2, <4>3, <4>4 DEF ListOk
    <3>2. CASE c # b
      <4>1. buckets'[c] = buckets[c]
            BY <1>7, <3>2
      <4> QED BY <1>9, <4>1, TheBucket DEF ListOk, WInv
    <3> QED BY <3>1, <3>2
  <2>2. buckets' = [c \in 1..shape.buckets |-> buckets'[c]]
        BY <1>7
  <2> QED BY <1>1, <2>1, <2>2, TableNext DEF WInv
<1>12. OnTheWay'
  <2>1. \A l : RequestOk(l) => RequestOk(l)'
        BY <1>1, <1>2, RequestsStay
  <2>2. counter' \in -Half'..(Half' - 1) /\ Congruent(numbered, counter)'
        BY <1>1 DEF WInv, OnTheWay, Congruent, Half, Cycle
  <2> QED BY <1>1, <2>1, <2>2 DEF WInv, OnTheWay
<1>13. item # 0 => Stands(List', item, last)
  <2> SUFFICES ASSUME item # 0 PROVE Stands(List', item, last)
      OBVIOUS
  <2>1. Stands(List, item, last) /\ bucket \in 1..shape.buckets
        BY DEF WInv, WalkOk
  <2>2. CASE bucket # b
        BY <1>1, <1>7, <2>1, <2>2 DEF List, checkerVars
  <2>3. CASE bucket = b
    <3>1. List = q /\ List' = w
          BY <1>1, <1>3, <1>7, <2>3 DEF List, checkerVars
    <3>2. PICK i, j \in 1..Len(q) :
              q[i].slot = item /\ q[j].slot = last /\ j =< i /\ (leaked \/ i =< j + 1)
          BY <2>1, <3>1 DEF Stands
    <3>3. i + d \in 1..Len(w) /\ w[i + d] = q[i] /\ j + d \in 1..Len(w) /\ w[j + d] = q[j]
          BY <1>8
    <3>4. j + d =< i + d /\ (leaked \/ i + d =< (j + d) + 1)
      <4>1. i \in Int /\ j \in Int /\ d \in Int
            BY <1>5, Length DEF Good
      <4> QED BY <3>2, <4>1
    <3> QED BY <3>1, <3>2, <3>3, <3>4 DEF Stands
  <2> QED BY <2>2, <2>3
<1>14. WalkOk'
      BY <1>1, <1>13, WalkStays DEF WInv, tellVars
<1>15. ClaimsOk'
      BY <1>1, ClaimsStay DEF WInv, tellVars
<1> QED BY <1>11, <1>12, <1>14, <1>15 DEF WInv

\* The number is taken.
LEMMA NewSwap ==
    ASSUME WInv, NEW m \in pending, InsertClientInfoIntoHash(m), SameKey(m) # {}
    PROVE  WInv'
<1> DEFINE b == BucketOf(m.n)
           q == buckets[b]
<1>1. UNCHANGED <<shape, open, counter, numbered, claims, checkerVars, tellVars, buckets>>
      /\ pending' = pending \ {m}
      BY DEF InsertClientInfoIntoHash, tellVars
<1>2. PICK x \in SameKey(m) : swaps' = swaps \cup {[msg |-> m, slot |-> x.slot]}
      BY DEF InsertClientInfoIntoHash
<1>3. shape \in Shapes /\ RequestOk(m) /\ numbered \in Nat
      BY DEF WInv, TableOk, OnTheWay
<1>4. b \in 1..shape.buckets
      BY <1>3, Constants, Buckets DEF RequestOk
<1>5. Good(q) /\ \A i \in 1..Len(q) : ItemOk(b, q[i])
      BY <1>4, TheBucket DEF WInv
<1>6. PICK k \in 1..Len(q) : x = q[k] /\ x.n = m.n
  <2>1. DOMAIN q = 1..Len(q)
        BY <1>5 DEF Good, IsList
  <2> QED BY <1>2, <2>1 DEF SameKey, ToSet
<1>7. PICK s : /\ s = [msg |-> s.msg, slot |-> s.slot] /\ s.msg = m /\ s.slot = x.slot
               /\ swaps' = swaps \cup {s}
  <2> DEFINE s == [msg |-> m, slot |-> x.slot]
  <2>1. s = [msg |-> s.msg, slot |-> s.slot] /\ s.msg = m /\ s.slot = x.slot
        OBVIOUS
  <2>2. swaps' = swaps \cup {s}
        BY <1>2
  <2> HIDE DEF s
  <2> QED BY <2>1, <2>2
<1>8. TableOk'
  <2>1. \A c \in 1..shape.buckets : ListOk(c, buckets[c])'
    <3> SUFFICES ASSUME NEW c \in 1..shape.buckets, NEW i \in 1..Len(buckets[c])
                 PROVE  ItemOk(c, buckets[c][i])'
        BY <1>1, TheBucket DEF ListOk, WInv
    <3>1. ItemOk(c, buckets[c][i])
          BY TheBucket DEF WInv
    <3>2. PICK r : r = buckets[c][i]
          OBVIOUS
    <3>3. s.slot = r.slot /\ BucketOf(s.msg.n) = c => s.msg.n = r.n
          BY <1>5, <1>6, <1>7, <3>2 DEF Good, Separate
    <3>4. ItemOk(c, r)'
          BY <1>1, <1>3, <1>7, <3>1, <3>2, <3>3, ItemStays
    <3> QED BY <1>1, <3>2, <3>4
  <2>2. buckets' = [c \in 1..shape.buckets |-> buckets'[c]]
        BY <1>1 DEF WInv, TableOk
  <2> QED BY <1>1, <2>1, <2>2, TableNext DEF WInv
<1>9. OnTheWay'
  <2>1. \A l : RequestOk(l) => RequestOk(l)'
        BY <1>1, <1>3, RequestsStay
  <2>2. counter' \in -Half'..(Half' - 1) /\ Congruent(numbered, counter)'
        BY <1>1 DEF WInv, OnTheWay, Congruent, Half, Cycle
  <2>3. s.slot \in 1..numbered' /\ \A l \in pending' : l.id # s.slot
        BY <1>1, <1>5, <1>6, <1>7 DEF ItemOk
  <2>4. \A l \in swaps' : l = [msg |-> l.msg, slot |-> l.slot] /\ RequestOk(l.msg)'
                          /\ l.slot \in 1..numbered' /\ \A k_1 \in pending' : k_1.id # l.slot
    <3> SUFFICES ASSUME NEW l \in swaps'
                 PROVE  l = [msg |-> l.msg, slot |-> l.slot] /\ RequestOk(l.msg)'
                        /\ l.slot \in 1..numbered' /\ \A k_1 \in pending' : k_1.id # l.slot
        OBVIOUS
    <3>1. CASE l = s
          BY <1>3, <1>7, <2>1, <2>3, <3>1
    <3>2. CASE l \in swaps
          BY <1>1, <2>1, <3>2 DEF WInv, OnTheWay
    <3> QED BY <1>7, <3>1, <3>2
  <2> QED BY <1>1, <2>1, <2>2, <2>4 DEF WInv, OnTheWay
<1>10. List' = List
      BY <1>1 DEF List, checkerVars
<1>11. WalkOk'
      BY <1>1, <1>10, WalkStays DEF WInv, WalkOk, tellVars
<1>12. ClaimsOk'
      BY <1>1, ClaimsStay DEF WInv, tellVars
<1> QED BY <1>8, <1>9, <1>11, <1>12 DEF WInv

\* The record in the item is another one, with the same number.
LEMMA ReplaceStep ==
    ASSUME WInv, NEW s \in swaps, ReplaceClientInfo(s)
    PROVE  WInv'
<1> DEFINE b == BucketOf(s.msg.n)
           q == buckets[b]
<1>1. UNCHANGED <<shape, open, requestVars, claims, checkerVars, tellVars>>
      /\ swaps' = swaps \ {s} /\ cpc = "sleep"
      BY DEF ReplaceClientInfo
<1>2. /\ shape \in Shapes /\ numbered \in Nat /\ RequestOk(s.msg) /\ s.slot \in 1..numbered
      /\ \A m \in pending : m.id # s.slot
      BY DEF WInv, TableOk, OnTheWay
<1>3. b \in 1..shape.buckets
      BY <1>2, Constants, Buckets DEF RequestOk
<1>4. Good(q) /\ \A i \in 1..Len(q) : ItemOk(b, q[i])
      BY <1>3, TheBucket DEF WInv
<1>5. PICK r : /\ r = Record(s.msg, s.slot)
               /\ r = [slot |-> r.slot, id |-> r.id, n |-> r.n, sock |-> r.sock, time |-> r.time]
               /\ r.slot = s.slot /\ r.id = s.msg.id /\ r.n = s.msg.n /\ r.sock = s.msg.sock
  <2> DEFINE t == 1 + Max({x.time : x \in Records} \cup {0})
             r == [slot |-> s.slot, id |-> s.msg.id, n |-> s.msg.n, sock |-> s.msg.sock, time |-> t]
  <2>1. Record(s.msg, s.slot) = r
        BY DEF Record
  <2> HIDE DEF t
  <2>2. /\ r = [slot |-> r.slot, id |-> r.id, n |-> r.n, sock |-> r.sock, time |-> r.time]
        /\ r.slot = s.slot /\ r.id = s.msg.id /\ r.n = s.msg.n /\ r.sock = s.msg.sock
        OBVIOUS
  <2> HIDE DEF r
  <2> QED BY <2>1, <2>2
<1>6. \A c, x : ItemOk(c, x) => ItemOk(c, x)'
      BY <1>1, <1>2, ItemStays DEF requestVars
<1>7. CASE ~In(q, s.slot)
  <2>1. buckets' = buckets
        BY <1>7 DEF ReplaceClientInfo
  <2>2. TableOk'
        BY <1>1, <1>6, <2>1, TableStays DEF WInv
  <2> QED BY <1>1, <2>1, <2>2 DEF WInv, OnTheWay, RequestOk, Congruent, Half, Cycle, requestVars,
             checkerVars, tellVars, WalkOk, ClaimsOk, Busy, List, Stands
<1>8. CASE In(q, s.slot)
  <2>1. PICK k \in 1..Len(q) : q[k].slot = s.slot
        BY <1>8 DEF In
  <2>2. buckets' = [buckets EXCEPT ![b] = [q EXCEPT ![k] = r]]
    <3>1. At(q, s.slot) = k
          BY <1>4, <2>1, Place
    <3>2. buckets' = [buckets EXCEPT ![b][At(q, s.slot)] = Record(s.msg, s.slot)]
          BY <1>8 DEF ReplaceClientInfo
    <3> QED BY <1>5, <3>1, <3>2
  <2>3. q[k].n = r.n /\ ItemOk(b, q[k])
        BY <1>4, <1>5, <2>1 DEF ItemOk
  <2> DEFINE w == [q EXCEPT ![k] = r]
  <2>4. Good(w) /\ Len(w) = Len(q) /\ w[k] = r /\ \A i \in 1..Len(q) : i # k => w[i] = q[i]
        BY <1>4, <1>5, <2>1, <2>3, Exchanged
  <2> HIDE DEF w
  <2>5. buckets' = [buckets EXCEPT ![b] = w] /\ DOMAIN buckets = 1..shape.buckets
        BY <2>2 DEF w, WInv, TableOk
  <2>6. ASSUME NEW c \in 1..shape.buckets, c = b PROVE ItemOk(c, r)'
    <3>1. /\ Half' = Half /\ Cycle' = Cycle /\ \A n : BucketOf(n)' = BucketOf(n)
          /\ \A i, n : Congruent(i, n)' = Congruent(i, n)
          BY <1>1 DEF Half, Cycle, BucketOf, Congruent
    <3>2. /\ r.slot \in 1..numbered' /\ r.id \in 1..numbered' /\ r.n \in -Half'..(Half' - 1)
          /\ Congruent(r.id, r.n)' /\ BucketOf(r.n)' = c /\ r.sock \in Socks
          BY <1>1, <1>2, <1>5, <2>6, <3>1 DEF RequestOk, requestVars
    <3>3. \A l \in pending' : l.id # r.slot
          BY <1>1, <1>2, <1>5 DEF requestVars
    <3>4. \A t \in swaps' : t.slot = r.slot /\ BucketOf(t.msg.n)' = c => t.msg.n = r.n
          BY <1>1, <1>5, <2>1, <2>3, <2>6, <3>1 DEF ItemOk
    <3> QED BY <1>5, <3>2, <3>3, <3>4, Zenon DEF ItemOk
  <2>7. \A c \in 1..shape.buckets : ListOk(c, buckets[c])'
    <3> SUFFICES ASSUME NEW c \in 1..shape.buckets PROVE ListOk(c, buckets[c])'
        OBVIOUS
    <3>1. CASE c = b
      <4>1. buckets'[c] = w
            BY <1>3, <2>5, <3>1
      <4>2. \A x : x = r \/ (\E i \in 1..Len(q) : x = q[i]) => ItemOk(c, x)'
        <5>1. \A i \in 1..Len(q) : ItemOk(c, q[i])
              BY <1>4, <3>1
        <5> QED BY <1>6, <2>6, <3>1, <5>1
      <4>3. Good(buckets[c])'
            BY <2>4, <4>1
      <4>4. \A i \in 1..Len(buckets'[c]) :
                buckets'[c][i] = r \/ \E l \in 1..Len(q) : buckets'[c][i] = q[l]
            BY <2>4, <4>1
      <4> QED BY <4>2, <4>3, <4>4 DEF ListOk
    <3>2. CASE c # b
      <4>1. buckets'[c] = buckets[c]
            BY <2>5, <3>2
      <4> QED BY <1>6, <4>1, TheBucket DEF ListOk, WInv
    <3> QED BY <3>1, <3>2
  <2>8. buckets' = [c \in 1..shape.buckets |-> buckets'[c]]
        BY <2>5
  <2>9. TableOk'
        BY <1>1, <2>7, <2>8, TableNext DEF WInv
  <2>10. item = 0
        BY <1>1 DEF WInv, WalkOk
  <2>11. WalkOk'
        BY <1>1, <2>10, WalkStays DEF WInv, tellVars
  <2>12. OnTheWay' /\ ClaimsOk'
        BY <1>1 DEF WInv, OnTheWay, RequestOk, Congruent, Half, Cycle, requestVars,
             checkerVars, tellVars, ClaimsOk, Busy
  <2> QED BY <2>9, <2>11, <2>12 DEF WInv
<1> QED BY <1>7, <1>8

Older(r) == IF r.time = 0 THEN r ELSE [r EXCEPT !.time = @ - 1]

LEMMA OlderIsItem ==
    ASSUME NEW b, NEW r, ItemOk(b, r)
    PROVE  ItemOk(b, Older(r)) /\ Older(r).slot = r.slot /\ Older(r).n = r.n
<1>1. r = [slot |-> r.slot, id |-> r.id, n |-> r.n, sock |-> r.sock, time |-> r.time]
      BY Zenon DEF ItemOk
<1>2. CASE r.time = 0
      BY <1>2 DEF Older
<1>3. CASE r.time # 0
  <2>1. Older(r) = [slot |-> r.slot, id |-> r.id, n |-> r.n, sock |-> r.sock, time |-> r.time - 1]
        BY <1>1, <1>3 DEF Older
  <2> QED BY <2>1 DEF ItemOk
<1> QED BY <1>2, <1>3

LEMMA TimeKeeps ==
    ASSUME TableOk, Time, NEW b \in 1..shape.buckets
    PROVE  /\ Good(buckets'[b]) /\ Len(buckets'[b]) = Len(buckets[b])
           /\ \A i \in 1..Len(buckets[b]) : /\ buckets'[b][i] = Older(buckets[b][i])
                                            /\ buckets'[b][i].slot = buckets[b][i].slot
<1> DEFINE q == buckets[b]
           w == [i \in DOMAIN q |-> Older(q[i])]
<1>1. buckets'[b] = w
  <2>1. DOMAIN buckets = 1..shape.buckets
        BY DEF TableOk
  <2> QED BY <2>1 DEF Time, Older
<1>2. Good(q) /\ \A i \in 1..Len(q) : ItemOk(b, q[i])
      BY TheBucket
<1> HIDE DEF q
<1>3. PICK T : q \in Seq(T)
      BY <1>2 DEF Good, IsList
<1>4. DOMAIN q = 1..Len(q) /\ Len(q) \in Nat /\ \A i \in 1..Len(q) : q[i] \in T
      BY <1>3
<1>5. w \in Seq({Older(r) : r \in T}) /\ Len(w) = Len(q) /\ \A i \in 1..Len(q) : w[i] = Older(q[i])
      BY <1>4
<1> HIDE DEF w
<1>6. \A i \in 1..Len(w) : w[i].slot = q[i].slot /\ w[i].n = q[i].n
      BY <1>2, <1>5, OlderIsItem
<1>7. Separate(w) /\ \A i \in 1..Len(w) : w[i].slot # 0
      BY <1>2, <1>5, <1>6 DEF Good, Separate
<1>8. IsList(w)
      BY <1>5 DEF IsList
<1> QED BY <1>1, <1>5, <1>6, <1>7, <1>8 DEF Good, q

LEMMA TimeStep == ASSUME WInv, Time PROVE WInv'
<1>1. /\ UNCHANGED <<shape, open, requestVars, swaps, claims, checkerVars, tellVars>>
      /\ DOMAIN buckets = 1..shape.buckets
      /\ buckets' = [b \in 1..shape.buckets |-> [i \in DOMAIN buckets[b] |-> Older(buckets[b][i])]]
  <2>1. DOMAIN buckets = 1..shape.buckets
        BY DEF WInv, TableOk
  <2> QED BY <2>1 DEF Time, Older
<1>2. \A b, r : ItemOk(b, r) => ItemOk(b, r)'
      BY <1>1, NothingComes DEF WInv
<1>3. ASSUME NEW b \in 1..shape.buckets
      PROVE  /\ Good(buckets'[b]) /\ Len(buckets'[b]) = Len(buckets[b])
             /\ \A i \in 1..Len(buckets[b]) : buckets'[b][i] = Older(buckets[b][i])
      BY TimeKeeps DEF WInv
<1>4. TableOk'
  <2>1. \A b \in 1..shape.buckets : ListOk(b, buckets[b])'
    <3> SUFFICES ASSUME NEW b \in 1..shape.buckets PROVE ListOk(b, buckets[b])'
        OBVIOUS
    <3>1. ASSUME NEW i \in 1..Len(buckets'[b]) PROVE ItemOk(b, buckets[b][i])'
      <4>1. PICK r : r = buckets'[b][i]
            OBVIOUS
      <4>2. ItemOk(b, r)
            BY <1>3, <4>1, TheBucket, OlderIsItem DEF WInv
      <4> QED BY <1>2, <4>1, <4>2
    <3> QED BY <1>3, <3>1 DEF ListOk
  <2>2. buckets' = [b \in 1..shape.buckets |-> buckets'[b]]
        BY <1>1
  <2> QED BY <1>1, <2>1, <2>2, TableNext DEF WInv
<1>5. item # 0 => Stands(List', item, last)
  <2> SUFFICES ASSUME item # 0 PROVE Stands(List', item, last)
      OBVIOUS
  <2>1. Stands(List, item, last) /\ bucket \in 1..shape.buckets
        BY DEF WInv, WalkOk
  <2>2. List' = buckets'[bucket]
        BY <1>1 DEF List, checkerVars
  <2>3. Len(List') = Len(List) /\ \A i \in 1..Len(List) : List'[i].slot = List[i].slot
        BY <1>3, <2>1, <2>2, TheBucket, OlderIsItem DEF List, WInv
  <2> QED BY <2>1, <2>3 DEF Stands
<1>6. WalkOk'
      BY <1>1, <1>5, WalkStays DEF WInv, tellVars
<1>7. OnTheWay' /\ ClaimsOk'
      BY <1>1, NothingComes, ClaimsStay DEF WInv, tellVars
<1> QED BY <1>4, <1>6, <1>7 DEF WInv

-----------------------------------------------------------------------------
(* The checker.                                                               *)

\* At the start of a bucket it stands on its first item.
LEMMA Begins ==
    ASSUME TableOk, NEW b \in 1..shape.buckets, First(b) # 0
    PROVE  Stands(buckets[b], First(b), First(b))
<1>1. Good(buckets[b])
      BY TheBucket
<1>2. 1 \in 1..Len(buckets[b]) /\ First(b) = buckets[b][1].slot
      BY <1>1 DEF First, Good, IsList
<1> QED BY <1>2 DEF Stands

\* Where pItem and pLast_item stand, in terms of the helpers.
LEMMA OnTheWalk ==
    ASSUME WInv, item # 0
    PROVE  /\ Good(List) /\ \A k \in 1..Len(List) : ItemOk(bucket, List[k])
           /\ \E i, j \in 1..Len(List) :
                 /\ List[i].slot = item /\ List[j].slot = last
                 /\ At(List, item) = i /\ At(List, last) = j
                 /\ i \in Int /\ j \in Int /\ j =< i /\ (leaked \/ i =< j + 1)
                 /\ TheRecord = List[i]
                 /\ NextItem(List, item) = IF i < Len(List) THEN List[i + 1].slot ELSE 0
                 /\ NextItem(List, last) = IF j < Len(List) THEN List[j + 1].slot ELSE 0
<1>1. bucket \in 1..shape.buckets /\ Stands(List, item, last)
      BY DEF WInv, WalkOk
<1>2. Good(List) /\ \A k \in 1..Len(List) : ItemOk(bucket, List[k])
      BY <1>1, TheBucket DEF List, WInv
<1>3. PICK i, j \in 1..Len(List) :
          List[i].slot = item /\ List[j].slot = last /\ j =< i /\ (leaked \/ i =< j + 1)
      BY <1>1 DEF Stands
<1>4. At(List, item) = i /\ At(List, last) = j
      BY <1>2, <1>3, Place
<1>5. i \in Int /\ j \in Int
      BY <1>2, Length DEF Good
<1>6. NextItem(List, item) = IF i < Len(List) THEN List[i + 1].slot ELSE 0
      BY <1>2, <1>3, Follows
<1>7. NextItem(List, last) = IF j < Len(List) THEN List[j + 1].slot ELSE 0
      BY <1>2, <1>3, Follows
<1>8. TheRecord = List[i]
      BY <1>4 DEF TheRecord
<1> QED BY <1>2, <1>3, <1>4, <1>5, <1>6, <1>7, <1>8

\* The steps that remove nothing.
LEMMA WalkNext ==
    ASSUME WInv, CheckerKeeps, buckets' = buckets,
           WalkOk', ClaimsOk'
    PROVE  WInv'
<1>1. UNCHANGED <<shape, requestVars, swaps, buckets>>
      BY DEF CheckerKeeps
<1> QED BY <1>1, NothingComes, TableStays DEF WInv

LEMMA WakeStep == ASSUME WInv, Wake PROVE WInv'
<1>1. /\ CheckerKeeps /\ UNCHANGED <<shape, open, buckets, claims, csock, leaks, leaked>>
      /\ cpc = "sleep" /\ cpc' = "walk" /\ bucket' = 1 /\ item' = First(1) /\ last' = First(1)
      BY DEF Wake, BeginsBucket, CheckerKeeps
<1>2. 1 \in 1..shape.buckets
      BY Constants DEF WInv, TableOk
<1>3. item' # 0 => Stands(List', item', last')
  <2>1. List' = buckets[1]
        BY <1>1 DEF List
  <2>2. First(1) # 0 => Stands(buckets[1], First(1), First(1))
        BY <1>2, Begins DEF WInv
  <2> QED BY <1>1, <2>1, <2>2
<1>4. WalkOk'
      BY <1>1, <1>2, <1>3 DEF WalkOk, Busy, Stands, tellVars
<1>5. ClaimsOk'
      BY <1>1 DEF WInv, ClaimsOk, Busy, tellVars
<1> QED BY <1>1, <1>4, <1>5, WalkNext

LEMMA NextBucketStep == ASSUME WInv, NextBucket PROVE WInv'
<1>1. CheckerKeeps /\ UNCHANGED <<shape, open, buckets, claims, csock, leaks, leaked>>
      /\ cpc = "walk" /\ item = 0
      BY DEF NextBucket, CheckerKeeps
<1>2. bucket \in 1..shape.buckets /\ shape.buckets \in Nat \ {0}
      BY Constants DEF WInv, TableOk, WalkOk
<1>3. CASE bucket < shape.buckets
  <2>1. bucket' = bucket + 1 /\ item' = First(bucket + 1) /\ last' = First(bucket + 1) /\ cpc' = cpc
        BY <1>3 DEF NextBucket, BeginsBucket
  <2>2. bucket + 1 \in 1..shape.buckets
        BY <1>2, <1>3
  <2>3. item' # 0 => Stands(List', item', last')
    <3>1. List' = buckets[bucket + 1]
          BY <1>1, <2>1 DEF List
    <3>2. First(bucket + 1) # 0 => Stands(buckets[bucket + 1], First(bucket + 1), First(bucket + 1))
          BY <2>2, Begins DEF WInv
    <3> QED BY <2>1, <3>1, <3>2
  <2>4. WalkOk'
        BY <1>1, <2>1, <2>2, <2>3 DEF WalkOk, Busy, Stands, tellVars
  <2>5. ClaimsOk'
        BY <1>1, <2>1 DEF WInv, ClaimsOk, Busy, tellVars
  <2> QED BY <1>1, <2>4, <2>5, WalkNext
<1>4. CASE ~(bucket < shape.buckets)
  <2>1. cpc' = "sleep" /\ bucket' = 1 /\ item' = 0
        BY <1>1, <1>4 DEF NextBucket
  <2>2. 1 \in 1..shape.buckets
        BY <1>2
  <2>3. WalkOk'
        BY <1>1, <2>1, <2>2 DEF WalkOk, Busy
  <2>4. ClaimsOk'
        BY <1>1, <2>1 DEF WInv, ClaimsOk, Busy, tellVars
  <2> QED BY <1>1, <2>3, <2>4, WalkNext
<1> QED BY <1>3, <1>4

LEMMA NotDueStep == ASSUME WInv, NotDue PROVE WInv'
<1>1. /\ CheckerKeeps /\ UNCHANGED <<shape, open, buckets, claims, cpc, bucket, csock, tellVars>>
      /\ cpc = "walk" /\ item # 0 /\ last' = item /\ item' = NextItem(List, item)
      BY DEF NotDue, CheckerKeeps
<1>2. item' # 0 => Stands(List', item', last')
  <2>1. List' = List
        BY <1>1 DEF List
  <2>2. PICK i \in 1..Len(List) :
            List[i].slot = item /\ i \in Int
            /\ NextItem(List, item) = IF i < Len(List) THEN List[i + 1].slot ELSE 0
        BY <1>1, OnTheWalk
  <2>3. Len(List) \in Nat
        BY <1>1, OnTheWalk, Length DEF Good
  <2> SUFFICES ASSUME item' # 0 PROVE Stands(List', item', last')
      OBVIOUS
  <2>4. i + 1 \in 1..Len(List) /\ item' = List[i + 1].slot
        BY <1>1, <2>2, <2>3
  <2>5. i =< i + 1 /\ i + 1 =< i + 1
        BY <2>2
  <2>6. \E k, l \in 1..Len(List) : List[k].slot = item' /\ List[l].slot = last' /\ l =< k
                                   /\ (leaked \/ k =< l + 1)
        BY <1>1, <2>2, <2>4, <2>5
  <2> QED BY <2>1, <2>6 DEF Stands
<1>3. WalkOk'
      BY <1>1, <1>2 DEF WInv, WalkOk, Busy, Stands, tellVars
<1>4. ClaimsOk'
      BY <1>1 DEF WInv, ClaimsOk, Busy, tellVars
<1> QED BY <1>1, <1>3, <1>4, WalkNext

\* An item is passed over only when a claim was left behind.
LEMMA SockClaimedStep == ASSUME WInv, SockClaimed PROVE WInv'
<1>1. /\ CheckerKeeps /\ UNCHANGED <<shape, open, buckets, claims, cpc, bucket, last, tellVars>>
      /\ cpc = "walk" /\ item # 0 /\ item' = NextItem(List, item) /\ TheRecord.sock \in claims
      BY DEF SockClaimed, CheckerKeeps, Waited
<1>2. leaked
      BY <1>1 DEF WInv, ClaimsOk, Busy
<1>3. item' # 0 => Stands(List', item', last')
  <2>1. List' = List /\ leaked'
        BY <1>1, <1>2 DEF List, tellVars
  <2>2. PICK i, j \in 1..Len(List) :
            List[i].slot = item /\ List[j].slot = last /\ i \in Int /\ j \in Int /\ j =< i
            /\ NextItem(List, item) = IF i < Len(List) THEN List[i + 1].slot ELSE 0
        BY <1>1, OnTheWalk
  <2>3. Len(List) \in Nat
        BY <1>1, OnTheWalk, Length DEF Good
  <2> SUFFICES ASSUME item' # 0 PROVE Stands(List', item', last')
      OBVIOUS
  <2>4. i + 1 \in 1..Len(List) /\ item' = List[i + 1].slot
        BY <1>1, <2>2, <2>3
  <2>5. j =< i + 1
        BY <2>2
  <2> QED BY <1>1, <1>2, <2>1, <2>2, <2>4, <2>5 DEF Stands
<1>4. WalkOk'
      BY <1>1, <1>3 DEF WInv, WalkOk, Busy, Stands, tellVars
<1>5. ClaimsOk'
      BY <1>1 DEF WInv, ClaimsOk, Busy, tellVars
<1> QED BY <1>1, <1>4, <1>5, WalkNext

LEMMA ClaimStep == ASSUME WInv, ClaimClient PROVE WInv'
<1>1. /\ CheckerKeeps /\ UNCHANGED <<shape, open, buckets, bucket, item, last, tellVars>>
      /\ cpc = "walk" /\ item # 0 /\ cpc' = "send" /\ csock' = TheRecord.sock
      /\ claims' = claims \cup {csock'}
      BY DEF ClaimClient, CheckerKeeps, Waited
<1>2. csock' \in Socks
      BY <1>1, OnTheWalk DEF ItemOk
<1>3. List' = List
      BY <1>1 DEF List
<1>4. WalkOk'
      BY <1>1, <1>2, <1>3 DEF WInv, WalkOk, Busy, Stands, tellVars
<1>5. ClaimsOk'
      BY <1>1, <1>2 DEF WInv, ClaimsOk, Busy, tellVars
<1> QED BY <1>1, <1>4, <1>5, WalkNext

LEMMA SendStep ==
    ASSUME WInv, SendClientMsg \/ SendWaits \/ SendAgain \/ SendFails \/ CloseSock
    PROVE  WInv'
<1>1. /\ CheckerKeeps /\ UNCHANGED <<shape, buckets, claims, bucket, item, last, csock, tellVars>>
      /\ cpc \in {"send", "usleep", "close"} /\ cpc' \in {"send", "usleep", "unlink", "close", "drop"}
      /\ open' \subseteq open
      BY DEF SendClientMsg, SendWaits, SendAgain, SendFails, CloseSock, CheckerKeeps
<1>2. List' = List
      BY <1>1 DEF List
<1>3. WalkOk'
      BY <1>1, <1>2 DEF WInv, WalkOk, Busy, Stands, tellVars
<1>4. ClaimsOk'
      BY <1>1 DEF WInv, ClaimsOk, Busy, tellVars
<1> QED BY <1>1, <1>3, <1>4, WalkNext

\* The item y comes before x.
Before(q, y, x) == \E i, k \in 1..Len(q) : q[i].slot = x /\ q[k].slot = y /\ k < i

\* The bucket without pItem: unless an item was passed over, the items that go with it are
\* those before it, when the walk takes it for the first.
LEMMA Removal ==
    ASSUME WInv, cpc \in {"unlink", "drop"}
    PROVE  LET x == NextItem(List, item)
               y == IF last = item THEN x ELSE last
           IN  /\ Good(WithoutItem) /\ TakenFrom(WithoutItem, List)
               /\ x # 0 => Stands(WithoutItem, x, y)
               /\ ~leaked => \A z \in GoesWith : last = item /\ Before(List, z, item)
<1> DEFINE q == List
           w == WithoutItem
           x == NextItem(List, item)
           y == IF last = item THEN x ELSE last
<1>1. item # 0
      BY DEF WInv, WalkOk, Busy
<1>2. Good(q) /\ Len(q) \in Nat
      BY <1>1, OnTheWalk, Length DEF Good
<1>3. PICK i, j \in 1..Len(q) :
          /\ q[i].slot = item /\ q[j].slot = last /\ At(q, item) = i /\ At(q, last) = j
          /\ i \in Int /\ j \in Int /\ j =< i /\ (leaked \/ i =< j + 1)
          /\ x = (IF i < Len(q) THEN q[i + 1].slot ELSE 0)
          /\ NextItem(q, last) = IF j < Len(q) THEN q[j + 1].slot ELSE 0
      BY <1>1, OnTheWalk
<1> HIDE DEF q
<1>4. last = item <=> j = i
      BY <1>2, <1>3 DEF Good, Separate
<1> DEFINE n == IF last = item THEN 0 ELSE j
<1>5. n \in 0..i /\ n \in Int
      BY <1>3
<1>6. w = Cut(q, n, i)
  <2>1. From(q, x) = SubSeq(q, i + 1, Len(q))
    <3>1. CASE i < Len(q)
      <4>1. i + 1 \in 1..Len(q)
            BY <1>2, <1>3, <3>1
      <4>2. x = q[i + 1].slot /\ x # 0 /\ At(q, x) = i + 1
            BY <1>2, <1>3, <3>1, <4>1, Place DEF Good
      <4> QED BY <4>2 DEF From
    <3>2. CASE ~(i < Len(q))
      <4>1. x = 0 /\ i = Len(q)
            BY <1>2, <1>3, <3>2
      <4>2. SubSeq(q, i + 1, Len(q)) = <<>>
        <5>1. PICK T : q \in Seq(T)
              BY <1>2 DEF Good, IsList
        <5> QED BY <1>2, <1>3, <4>1, <5>1
      <4> QED BY <4>1, <4>2 DEF From
    <3> QED BY <3>1, <3>2
  <2>2. CASE last = item
    <3>1. w = SubSeq(q, i + 1, Len(q)) /\ n = 0
          BY <2>1, <2>2 DEF WithoutItem, q
    <3>2. PICK T : q \in Seq(T)
          BY <1>2 DEF Good, IsList
    <3>3. SubSeq(q, 1, 0) = <<>> /\ SubSeq(q, i + 1, Len(q)) \in Seq(T)
          BY <1>2, <1>3, <3>2
    <3> DEFINE v == SubSeq(q, i + 1, Len(q))
    <3>4. v \in Seq(T) /\ w = v /\ Cut(q, n, i) = <<>> \o v
          BY <3>1, <3>3 DEF Cut
    <3> HIDE DEF v
    <3>5. <<>> \o v = v
          BY <3>4
    <3> QED BY <3>4, <3>5
  <2>3. CASE last # item
    <3>1. UpTo(q, last) = SubSeq(q, 1, j) /\ n = j
          BY <1>3, <2>3 DEF UpTo
    <3> QED BY <2>1, <2>3, <3>1 DEF WithoutItem, Cut, q
  <2> QED BY <2>2, <2>3
<1> HIDE DEF w, x
<1>7. /\ Good(w) /\ Len(w) = n + (Len(q) - i)
      /\ \A k \in 1..Len(w) : w[k] = IF k =< n THEN q[k] ELSE q[k - n + i]
      BY <1>2, <1>5, <1>6, CutOut
<1>8. TakenFrom(w, q)
  <2> SUFFICES ASSUME NEW k \in 1..Len(w) PROVE \E l \in 1..Len(q) : w[k] = q[l]
      BY DEF TakenFrom
  <2> HIDE DEF n
  <2>1. CASE k =< n
    <3>1. k \in 1..Len(q)
          BY <1>2, <1>3, <1>5, <2>1, <1>7
    <3> QED BY <1>7, <2>1, <3>1
  <2>2. CASE ~(k =< n)
    <3>1. k - n + i \in 1..Len(q)
          BY <1>2, <1>3, <1>5, <1>7, <2>2
    <3> QED BY <1>7, <2>2, <3>1
  <2> QED BY <2>1, <2>2
<1>9. ASSUME x # 0 PROVE Stands(w, x, y)
  <2>1. i < Len(q) /\ x = q[i + 1].slot
        BY <1>3, <1>9
  <2>2. n + 1 \in 1..Len(w) /\ w[n + 1] = q[i + 1]
    <3> HIDE DEF n
    <3>1. n + 1 \in 1..Len(w) /\ ~(n + 1 =< n) /\ (n + 1) - n + i = i + 1
          BY <1>2, <1>3, <1>5, <1>7, <2>1
    <3>2. w[n + 1] = q[(n + 1) - n + i]
          BY <1>7, <3>1
    <3> QED BY <3>1, <3>2
  <2>3. CASE last = item
    <3>1. y = x /\ n + 1 =< n + 1 /\ n + 1 =< (n + 1) + 1
          BY <1>5, <2>3
    <3> QED BY <2>1, <2>2, <3>1 DEF Stands
  <2>4. CASE last # item
    <3>1. y = last /\ n = j
          BY <2>4
    <3>2. j \in 1..Len(w) /\ w[j] = q[j] /\ j =< j + 1 /\ j + 1 =< j + 1
          BY <1>2, <1>3, <1>7, <2>1, <3>1
    <3> QED BY <1>3, <2>1, <2>2, <3>1, <3>2 DEF Stands
  <2> QED BY <2>3, <2>4
<1>10. ASSUME ~leaked, NEW z \in GoesWith PROVE last = item /\ Before(q, z, item)
  <2>1. DOMAIN q = 1..Len(q) /\ DOMAIN w = 1..Len(w)
        BY <1>2, <1>7 DEF Good, IsList
  <2>2. PICK l \in 1..Len(q) : q[l].slot = z
        BY <2>1 DEF GoesWith, ToSet, q
  <2>3. z # item /\ \A k \in 1..Len(w) : w[k].slot # z
        BY <2>1 DEF GoesWith, ToSet, w
  <2>4. l \in Int /\ l # i
        BY <1>2, <1>3, <2>2, <2>3
  <2> HIDE DEF n
  <2>5. l < i
    <3> SUFFICES ASSUME ~(l < i) PROVE FALSE
        OBVIOUS
    <3> DEFINE k == l - i + n
    <3>1. k \in 1..Len(w) /\ ~(k =< n) /\ k - n + i = l
          BY <1>2, <1>3, <1>5, <1>7, <2>4
    <3> HIDE DEF k
    <3>2. w[k] = q[l]
          BY <1>7, <3>1
    <3> QED BY <2>2, <2>3, <3>1, <3>2
  <2>6. last = item
    <3> SUFFICES ASSUME last # item PROVE FALSE
        OBVIOUS
    <3>1. n = j /\ i =< j + 1
          BY <1>3, <1>10 DEF n
    <3>2. l \in 1..Len(w) /\ l =< n
          BY <1>2, <1>3, <1>7, <2>4, <2>5, <3>1
    <3>3. w[l] = q[l]
          BY <1>7, <3>2
    <3> QED BY <2>2, <2>3, <3>2, <3>3
  <2> QED BY <1>3, <2>2, <2>5, <2>6 DEF Before
<1> QED BY <1>7, <1>8, <1>9, <1>10 DEF q, w, x

LEMMA UnlinkStep == ASSUME WInv, Unlink PROVE WInv'
<1>1. /\ UNCHANGED <<shape, requestVars, swaps, open, bucket, csock, leaked>>
      /\ cpc = "unlink" /\ cpc' = "walk" /\ CheckerKeeps
      /\ buckets' = [buckets EXCEPT ![bucket] = WithoutItem]
      /\ item' = NextItem(List, item)
      /\ last' = IF last = item THEN item' ELSE last
      /\ claims' = claims \ {csock} /\ leaks' = leaks \ {csock}
      BY DEF Unlink, CheckerKeeps
<1>2. /\ Good(WithoutItem) /\ TakenFrom(WithoutItem, List)
      /\ item' # 0 => Stands(WithoutItem, item', last')
      BY <1>1, Removal
<1>3. bucket \in 1..shape.buckets /\ DOMAIN buckets = 1..shape.buckets
      BY DEF WInv, WalkOk, TableOk
<1> DEFINE w == WithoutItem
<1>4. buckets'[bucket] = w /\ \A b \in 1..shape.buckets : b # bucket => buckets'[b] = buckets[b]
      BY <1>1, <1>3
<1> HIDE DEF w
<1>5. \A b, r : ItemOk(b, r) => ItemOk(b, r)'
      BY <1>1, NothingComes DEF WInv
<1>6. TableOk'
  <2>1. \A b \in 1..shape.buckets : ListOk(b, buckets[b])'
    <3> SUFFICES ASSUME NEW b \in 1..shape.buckets PROVE ListOk(b, buckets[b])'
        OBVIOUS
    <3>1. CASE b = bucket
      <4>1. \A k \in 1..Len(w) : \E i \in 1..Len(buckets[b]) : w[k] = buckets[b][i]
            BY <1>2, <3>1 DEF TakenFrom, List, w
      <4>2. ASSUME NEW k \in 1..Len(buckets'[b]) PROVE ItemOk(b, buckets[b][k])'
        <5>1. PICK r : r = buckets'[b][k]
              OBVIOUS
        <5>2. ItemOk(b, r)
              BY <1>4, <3>1, <4>1, <5>1, TheBucket DEF WInv
        <5> QED BY <1>5, <5>1, <5>2
      <4> QED BY <1>2, <1>4, <3>1, <4>2 DEF ListOk, w
    <3>2. CASE b # bucket
      <4>1. buckets'[b] = buckets[b]
            BY <1>4, <3>2
      <4> QED BY <1>5, <4>1, TheBucket DEF ListOk, WInv
    <3> QED BY <3>1, <3>2
  <2>2. buckets' = [b \in 1..shape.buckets |-> buckets'[b]]
        BY <1>1, <1>3
  <2> QED BY <1>1, <2>1, <2>2, TableNext DEF WInv
<1>7. WalkOk'
  <2>1. List' = w
        BY <1>1, <1>4 DEF List
  <2>2. item' # 0 => Stands(List', item', last')
        BY <1>2, <2>1 DEF w
  <2> QED BY <1>1, <1>3, <2>2 DEF WalkOk, Busy, Stands
<1>8. ClaimsOk'
      BY <1>1, <1>2 DEF WInv, ClaimsOk, Busy
<1>9. OnTheWay'
      BY <1>1, NothingComes DEF WInv
<1> QED BY <1>6, <1>7, <1>8, <1>9 DEF WInv

LEMMA DropStep == ASSUME WInv, C_DelCloseClientSockInfo PROVE WInv'
<1>1. /\ UNCHANGED <<shape, requestVars, swaps, open, claims, csock>>
      /\ cpc = "drop" /\ cpc' = "walk" /\ CheckerKeeps
      /\ buckets' = [b \in 1..shape.buckets |->
                        OfOthers(IF b = bucket THEN WithoutItem ELSE buckets[b])]
      /\ leaks' = leaks \cup (claims \cap {csock}) /\ leaked' = (leaked \/ csock \in claims)
      /\ bucket' = 1 /\ last' = item'
      /\ item' = IF buckets'[1] = <<>> THEN 0 ELSE buckets'[1][1].slot
      BY DEF C_DelCloseClientSockInfo, CheckerKeeps
<1>2. Good(WithoutItem) /\ TakenFrom(WithoutItem, List)
      BY <1>1, Removal
<1>3. bucket \in 1..shape.buckets /\ 1 \in 1..shape.buckets
      BY Constants DEF WInv, WalkOk, TableOk
<1>4. ASSUME NEW b \in 1..shape.buckets
      PROVE  Good(buckets'[b]) /\ TakenFrom(buckets'[b], buckets[b])
  <2> DEFINE q == IF b = bucket THEN WithoutItem ELSE buckets[b]
  <2>1. Good(q) /\ TakenFrom(q, buckets[b])
    <3>1. CASE b = bucket
          BY <1>2, <3>1 DEF List
    <3>2. CASE b # bucket
      <4>1. Good(buckets[b])
            BY TheBucket DEF WInv
      <4> QED BY <3>2, <4>1 DEF TakenFrom
    <3> QED BY <3>1, <3>2
  <2>2. buckets'[b] = OfOthers(q)
        BY <1>1
  <2> HIDE DEF q
  <2>3. Good(OfOthers(q)) /\ TakenFrom(OfOthers(q), q)
        BY <2>1, OthersGood
  <2> DEFINE w == OfOthers(q)
  <2> HIDE DEF w
  <2>4. TakenFrom(w, buckets[b])
        BY <2>1, <2>3 DEF TakenFrom, w
  <2> QED BY <2>2, <2>3, <2>4 DEF w
<1>5. \A b, r : ItemOk(b, r) => ItemOk(b, r)'
      BY <1>1, NothingComes DEF WInv
<1>6. TableOk'
  <2>1. \A b \in 1..shape.buckets : ListOk(b, buckets[b])'
    <3> SUFFICES ASSUME NEW b \in 1..shape.buckets PROVE ListOk(b, buckets[b])'
        OBVIOUS
    <3>1. ASSUME NEW k \in 1..Len(buckets'[b]) PROVE ItemOk(b, buckets[b][k])'
      <4>1. PICK r : r = buckets'[b][k]
            OBVIOUS
      <4>2. ItemOk(b, r)
            BY <1>4, <4>1, TheBucket DEF TakenFrom, WInv
      <4> QED BY <1>5, <4>1, <4>2
    <3> QED BY <1>4, <3>1 DEF ListOk
  <2>2. buckets' = [b \in 1..shape.buckets |-> buckets'[b]]
        BY <1>1
  <2> QED BY <1>1, <2>1, <2>2, TableNext DEF WInv
<1>7. WalkOk'
  <2>1. ASSUME item' # 0 PROVE Stands(List, item, last)'
    <3>1. List' = buckets'[1] /\ Good(buckets'[1])
          BY <1>1, <1>3, <1>4 DEF List
    <3>2. 1 \in 1..Len(buckets'[1]) /\ item' = buckets'[1][1].slot
          BY <1>1, <2>1, <3>1 DEF Good, IsList
    <3>3. PICK q : q = List'
          OBVIOUS
    <3>4. 1 \in 1..Len(q) /\ q[1].slot = item' /\ q[1].slot = last'
          BY <1>1, <3>1, <3>2, <3>3
    <3>5. 1 =< 1 /\ 1 =< 1 + 1
          OBVIOUS
    <3>6. \E i, j \in 1..Len(q) :
              q[i].slot = item' /\ q[j].slot = last' /\ j =< i /\ (leaked' \/ i =< j + 1)
          BY <3>4, <3>5, Zenon
    <3> QED BY <3>3, <3>6 DEF Stands
  <2> QED BY <1>1, <1>3, <2>1 DEF WalkOk, Busy
<1>8. ClaimsOk'
      BY <1>1, <1>2 DEF WInv, ClaimsOk, Busy
<1>9. OnTheWay'
      BY <1>1, NothingComes DEF WInv
<1> QED BY <1>6, <1>7, <1>8, <1>9 DEF WInv

-----------------------------------------------------------------------------
(* The theorems.                                                              *)

LEMMA WaitBegins == WaitInit => WInv
<1> SUFFICES ASSUME WaitInit PROVE WInv
    OBVIOUS
<1>1. shape \in Shapes /\ Half \in Nat \ {0} /\ Cycle \in Nat \ {0} /\ shape.buckets \in Nat \ {0}
      BY Constants DEF WaitInit
<1>2. TableOk
  <2>1. Good(<<>>) /\ Len(<<>>) = 0
        BY DEF Good, IsList, Separate
  <2> QED BY <1>1, <2>1 DEF WaitInit, TableOk, ListOk
<1>3. OnTheWay
  <2>1. 0 = 0 + Cycle * 0 /\ 0 \in -Half..(Half - 1)
        BY <1>1
  <2>2. Congruent(numbered, counter)
        BY <2>1 DEF WaitInit, Congruent
  <2> QED BY <2>1, <2>2 DEF WaitInit, OnTheWay
<1>4. WalkOk
      BY <1>1 DEF WaitInit, WalkOk, Busy
<1>5. ClaimsOk
      BY DEF WaitInit, ClaimsOk, Busy
<1> QED BY <1>2, <1>3, <1>4, <1>5 DEF WInv

LEMMA WaitGoesOn == WInv /\ [WaitNext]_waitVars => WInv'
<1> SUFFICES ASSUME WInv, [WaitNext]_waitVars PROVE WInv'
    OBVIOUS
<1>1. CASE UNCHANGED waitVars
  <2>1. /\ UNCHANGED <<shape, requestVars, swaps, open, claims, buckets>>
        /\ UNCHANGED <<checkerVars, tellVars>>
        BY <1>1 DEF waitVars
  <2>2. TableOk' /\ OnTheWay'
        BY <2>1, NothingComes, TableStays DEF WInv
  <2>3. List' = List
        BY <2>1 DEF List, checkerVars
  <2>4. WalkOk'
        BY <2>1, <2>3, WalkStays DEF WInv, WalkOk, tellVars, checkerVars
  <2> QED BY <2>1, <2>2, <2>4, ClaimsStay DEF WInv, tellVars
<1>2. ASSUME NEW f \in Socks, WaitAccept(f) PROVE WInv'
      BY <1>2, ClientStep
<1>3. ASSUME NEW f \in Socks, RecvClientMsgErrorProcess(f) PROVE WInv'
      BY <1>3, ClientStep
<1>4. ASSUME NEW f \in Socks, HandleClientSrvMsg(f) PROVE WInv'
      BY <1>4, NumberStep
<1>5. ASSUME NEW m \in pending, InsertClientInfoIntoHash(m) PROVE WInv'
      BY <1>5, NewItem, NewSwap
<1>6. ASSUME NEW s \in swaps, ReplaceClientInfo(s) PROVE WInv'
      BY <1>6, ReplaceStep
<1>7. CASE Time
      BY <1>7, TimeStep
<1>8. CASE Wake
      BY <1>8, WakeStep
<1>9. CASE NextBucket
      BY <1>9, NextBucketStep
<1>10. CASE NotDue
      BY <1>10, NotDueStep
<1>11. CASE SockClaimed
      BY <1>11, SockClaimedStep
<1>12. CASE ClaimClient
      BY <1>12, ClaimStep
<1>13. CASE SendClientMsg \/ SendWaits \/ SendAgain \/ SendFails \/ CloseSock
      BY <1>13, SendStep
<1>14. CASE Unlink
      BY <1>14, UnlinkStep
<1>15. CASE C_DelCloseClientSockInfo
      BY <1>15, DropStep
<1> QED BY <1>1, <1>2, <1>3, <1>4, <1>5, <1>6, <1>7, <1>8, <1>9, <1>10, <1>11, <1>12, <1>13,
           <1>14, <1>15 DEF WaitNext

LEMMA WaitInvariant == WaitSpec => []WInv
BY WaitBegins, WaitGoesOn, PTL DEF WaitSpec

\* Whatever the number of requests and descriptors and however wide the counter of
\* messages: CheckTimeoutMsg never stands on an item that was freed, although it removes
\* items as it goes and forwarders insert without client_info_mutex, and no number is in
\* g_clientinfo_hash twice.
THEOREM WalkIsSafe == WaitSpec => []WaitTypeOK
<1>1. ASSUME WInv PROVE WaitTypeOK
  <2>1. open \subseteq Socks /\ claims \subseteq Socks /\ leaks \subseteq claims
        /\ counter \in -Half..(Half - 1)
        /\ cpc \in {"sleep", "walk", "send", "usleep", "close", "unlink", "drop"} /\ (Busy => item # 0)
        BY <1>1 DEF WInv, ClaimsOk, OnTheWay, WalkOk
  <2>2. item # 0 => In(List, item) /\ In(List, last)
        BY <1>1 DEF WInv, WalkOk, Stands, In
  <2>3. DOMAIN buckets = 1..shape.buckets
        BY <1>1 DEF WInv, TableOk
  <2>4. ASSUME NEW b \in 1..shape.buckets
        PROVE  DOMAIN buckets[b] = 1..Len(buckets[b]) /\ Separate(buckets[b])
    <3>1. Good(buckets[b])
          BY <1>1, TheBucket DEF WInv
    <3> QED BY <3>1 DEF Good, IsList
  <2>5. \A b \in DOMAIN buckets : IsInjective(buckets[b])
        BY <2>3, <2>4 DEF Separate, IsInjective
  <2>6. \A r, s \in Records : r.n = s.n => r = s
    <3> SUFFICES ASSUME NEW r \in Records, NEW s \in Records, r.n = s.n PROVE r = s
        OBVIOUS
    <3>1. \A x \in Records : \E b \in 1..shape.buckets : \E i \in 1..Len(buckets[b]) :
              x = buckets[b][i] /\ BucketOf(x.n) = b
      <4> SUFFICES ASSUME NEW x \in Records
                   PROVE  \E b \in 1..shape.buckets : \E i \in 1..Len(buckets[b]) :
                             x = buckets[b][i] /\ BucketOf(x.n) = b
          OBVIOUS
      <4>1. PICK b \in 1..shape.buckets : x \in ToSet(buckets[b])
            BY <2>3 DEF Records
      <4>2. PICK i \in 1..Len(buckets[b]) : x = buckets[b][i]
            BY <2>4, <4>1 DEF ToSet
      <4> QED BY <1>1, <4>2, TheBucket DEF WInv, ItemOk
    <3>2. PICK b \in 1..shape.buckets : \E i \in 1..Len(buckets[b]) :
              r = buckets[b][i] /\ BucketOf(r.n) = b
          BY <3>1
    <3>3. PICK i \in 1..Len(buckets[b]) : r = buckets[b][i] /\ BucketOf(r.n) = b
          BY <3>2
    <3>4. PICK c \in 1..shape.buckets : \E k \in 1..Len(buckets[c]) :
              s = buckets[c][k] /\ BucketOf(s.n) = c
          BY <3>1
    <3>5. PICK k \in 1..Len(buckets[c]) : s = buckets[c][k] /\ BucketOf(s.n) = c
          BY <3>4
    <3>6. b = c
          BY <3>3, <3>5
    <3> QED BY <2>4, <3>3, <3>5, <3>6 DEF Separate
  <2> QED BY <2>1, <2>2, <2>5, <2>6 DEF WaitTypeOK
<1> QED BY <1>1, WaitInvariant, PTL

-----------------------------------------------------------------------------
(* What is unlinked with another.                                             *)

\* The items before the one that the walk takes for the first of its bucket were put there
\* since it came to the bucket.
AheadJumped == AtFirst => \A z : Before(List, z, item) => z \in jumped

JumpInv == AheadJumped /\ (unlinked => leaked)

LEMMA SameList ==
    ASSUME AheadJumped, UNCHANGED <<item, last, jumped>>,
           item # 0 => Len(List') = Len(List) /\ \A i \in 1..Len(List) : List'[i].slot = List[i].slot
    PROVE  AheadJumped'
BY DEF AheadJumped, AtFirst, Before

\* Nothing comes before the first item.
LEMMA FirstItem ==
    ASSUME NEW q, Good(q), NEW z, Before(q, z, q[1].slot)
    PROVE  FALSE
<1>1. PICK i, k \in 1..Len(q) : q[i].slot = q[1].slot /\ k < i
      BY DEF Before
<1>2. Len(q) \in Nat
      BY Length DEF Good
<1>3. i = 1
  <2>1. 1 \in 1..Len(q)
        BY <1>2
  <2> QED BY <1>1, <2>1, Zenon DEF Good, Separate
<1> QED BY <1>1, <1>2, <1>3

\* A record goes before the others or behind them.
LEMMA NewItemJumps ==
    ASSUME WInv, JumpInv, NEW m \in pending, InsertClientInfoIntoHash(m)
    PROVE  AheadJumped'
<1>1. UNCHANGED <<shape, checkerVars>> /\ UNCHANGED <<bucket, item, last>>
      BY DEF InsertClientInfoIntoHash, checkerVars
<1>2. CASE SameKey(m) # {}
  <2>1. UNCHANGED <<buckets, jumped>>
        BY <1>2 DEF InsertClientInfoIntoHash
  <2> QED BY <1>1, <2>1, SameList DEF JumpInv, List
<1>3. CASE SameKey(m) = {}
  <2> DEFINE b == BucketOf(m.n)
             q == buckets[b]
  <2>1. PICK r : /\ r.slot = m.id /\ r.slot # 0
                 /\ \A i \in 1..Len(q) : q[i].slot # r.slot /\ q[i].n # r.n
                 /\ buckets' = [buckets EXCEPT ![b] = IF shape.front THEN <<r>> \o q
                                                                    ELSE Append(q, r)]
        BY <1>3, NewRecord
  <2>2. /\ b \in 1..shape.buckets /\ Good(q) /\ Len(q) \in Nat
        /\ DOMAIN buckets = 1..shape.buckets
        BY <1>3, NewRecord, Length DEF Good, WInv, TableOk
  <2>3. jumped' = IF shape.front /\ b = bucket /\ AtFirst THEN jumped \cup {m.id} ELSE jumped
        BY <1>3 DEF InsertClientInfoIntoHash
  <2> SUFFICES ASSUME AtFirst, NEW z, Before(List', z, item) PROVE z \in jumped'
      BY <1>1 DEF AheadJumped, AtFirst
  <2>4. bucket \in 1..shape.buckets /\ item # 0 /\ Stands(List, item, last)
        BY DEF WInv, WalkOk, AtFirst
  <2>5. CASE b # bucket
    <3>1. List' = List
          BY <1>1, <2>1, <2>5 DEF List
    <3> QED BY <2>3, <2>5, <3>1 DEF JumpInv, AheadJumped
  <2>6. CASE b = bucket
    <3> DEFINE w == IF shape.front THEN <<r>> \o q ELSE Append(q, r)
    <3>1. List = q /\ List' = w
          BY <1>1, <2>1, <2>2, <2>6 DEF List
    <3>2. PICK i, k \in 1..Len(w) : w[i].slot = item /\ w[k].slot = z /\ k < i
          BY <3>1 DEF Before
    <3>3. PICK p \in 1..Len(q) : q[p].slot = item
          BY <2>4, <3>1 DEF Stands
    <3>4. r.slot # item
          BY <2>1, <3>3
    <3>5. CASE shape.front
      <4>1. Good(w) /\ Len(w) = Len(q) + 1 /\ w[1] = r /\ \A l \in 1..Len(q) : w[l + 1] = q[l]
        <5>1. LET v == <<r>> \o q IN
              /\ Good(v) /\ Len(v) = Len(q) + 1 /\ v[1] = r
              /\ \A l \in 1..Len(q) : v[l + 1] = q[l]
          <6> HIDE DEF w, q
          <6> QED BY <2>1, <2>2, Prefixed
        <5> QED BY <3>5, <5>1
      <4> HIDE DEF w, q
      <4>2. i - 1 \in 1..Len(q) /\ w[i] = q[i - 1]
        <5>1. i # 1
              BY <3>2, <3>4, <4>1
        <5>2. i - 1 \in 1..Len(q) /\ (i - 1) + 1 = i
              BY <2>2, <4>1, <5>1
        <5> QED BY <4>1, <5>2
      <4>3. CASE k = 1
            BY <2>1, <2>3, <2>6, <3>2, <3>5, <4>1, <4>3
      <4>4. CASE k # 1
        <5>1. k - 1 \in 1..Len(q) /\ (k - 1) + 1 = k
              BY <2>2, <4>1, <4>4
        <5>2. w[k] = q[k - 1]
              BY <4>1, <5>1
        <5>3. k - 1 < i - 1
              BY <2>2, <3>2, <4>1
        <5>4. q[i - 1].slot = item /\ q[k - 1].slot = z
              BY <3>2, <4>2, <5>2
        <5>5. Before(List, z, item)
              BY <3>1, <4>2, <5>1, <5>3, <5>4 DEF Before
        <5> QED BY <2>3, <5>5 DEF JumpInv, AheadJumped
      <4> QED BY <4>3, <4>4
    <3>6. CASE ~shape.front
      <4>1. Good(w) /\ Len(w) = Len(q) + 1 /\ w[Len(q) + 1] = r
            /\ \A l \in 1..Len(q) : w[l] = q[l]
            BY <2>1, <2>2, <3>6, Appended
      <4> HIDE DEF w, q
      <4>2. i # Len(q) + 1
            BY <3>2, <3>4, <4>1
      <4>3. i \in 1..Len(q) /\ k \in 1..Len(q)
            BY <2>2, <3>2, <4>1, <4>2
      <4>4. Before(List, z, item)
            BY <3>1, <3>2, <4>1, <4>3 DEF Before
      <4> QED BY <2>3, <4>4 DEF JumpInv, AheadJumped
    <3> QED BY <3>5, <3>6
  <2> QED BY <2>5, <2>6
<1> QED BY <1>2, <1>3

\* The item that follows pItem is not pLast_item.
LEMMA NextIsNotLast ==
    ASSUME WInv, item # 0, NextItem(List, item) # 0
    PROVE  NextItem(List, item) # item /\ NextItem(List, item) # last
<1>1. PICK i, j \in 1..Len(List) :
          /\ List[i].slot = item /\ List[j].slot = last /\ i \in Int /\ j \in Int /\ j =< i
          /\ NextItem(List, item) = IF i < Len(List) THEN List[i + 1].slot ELSE 0
      BY OnTheWalk
<1>2. Good(List) /\ Len(List) \in Nat
      BY OnTheWalk, Length DEF Good
<1>3. i + 1 \in 1..Len(List) /\ NextItem(List, item) = List[i + 1].slot
      BY <1>1, <1>2
<1>4. i + 1 # i /\ i + 1 # j
      BY <1>1
<1> QED BY <1>1, <1>2, <1>3, <1>4 DEF Good, Separate

LEMMA WalkJumps ==
    ASSUME WInv, JumpInv, Wake \/ NextBucket \/ NotDue \/ SockClaimed
    PROVE  AheadJumped'
<1>1. CASE Wake \/ NextBucket
  <2> SUFFICES ASSUME AtFirst', NEW z, Before(List', z, item') PROVE FALSE
      BY DEF AheadJumped
  <2>1. buckets' = buckets /\ item' # 0
        BY <1>1 DEF Wake, NextBucket, AtFirst
  <2>2. bucket' \in 1..shape.buckets /\ item' = First(bucket')
    <3>1. bucket \in 1..shape.buckets /\ shape.buckets \in Nat \ {0}
          BY Constants DEF WInv, TableOk, WalkOk
    <3>2. CASE Wake
          BY <3>1, <3>2 DEF Wake, BeginsBucket
    <3>3. CASE NextBucket /\ bucket < shape.buckets
          BY <3>1, <3>3 DEF NextBucket, BeginsBucket
    <3>4. CASE NextBucket /\ ~(bucket < shape.buckets)
          BY <2>1, <3>4 DEF NextBucket
    <3> QED BY <1>1, <3>2, <3>3, <3>4
  <2>3. List' = buckets[bucket'] /\ Good(buckets[bucket'])
        BY <2>1, <2>2, TheBucket DEF List, WInv
  <2>4. item' = buckets[bucket'][1].slot
        BY <2>1, <2>2 DEF First
  <2> QED BY <2>3, <2>4, FirstItem
<1>2. CASE NotDue \/ SockClaimed
  <2>1. item # 0 /\ item' = NextItem(List, item) /\ (last' = item \/ last' = last)
        BY <1>2 DEF NotDue, SockClaimed, Waited
  <2> QED BY <2>1, NextIsNotLast DEF AheadJumped, AtFirst
<1> QED BY <1>1, <1>2

LEMMA UnlinkJumps == ASSUME WInv, JumpInv, Unlink PROVE AheadJumped'
<1>1. /\ cpc = "unlink" /\ UNCHANGED <<bucket, jumped>>
      /\ buckets' = [buckets EXCEPT ![bucket] = WithoutItem]
      /\ item' = NextItem(List, item) /\ last' = IF last = item THEN item' ELSE last
      BY DEF Unlink
<1> SUFFICES ASSUME AtFirst', NEW z, Before(List', z, item') PROVE FALSE
    BY DEF AheadJumped
<1>2. item # 0 /\ item' # 0 /\ last' = item' /\ bucket \in 1..shape.buckets
      /\ DOMAIN buckets = 1..shape.buckets
      BY <1>1 DEF WInv, WalkOk, TableOk, Busy, AtFirst
<1>3. last = item
      BY <1>1, <1>2, NextIsNotLast
<1>4. Good(WithoutItem) /\ List' = WithoutItem
      BY <1>1, <1>2, Removal DEF List
<1>5. WithoutItem = SubSeq(List, At(List, item'), Len(List))
      BY <1>1, <1>2, <1>3 DEF WithoutItem, From
<1>6. PICK i \in 1..Len(List) :
          /\ List[i].slot = item /\ i \in Int
          /\ NextItem(List, item) = IF i < Len(List) THEN List[i + 1].slot ELSE 0
      BY <1>2, OnTheWalk
<1>7. Good(List) /\ Len(List) \in Nat
      BY <1>2, OnTheWalk, Length DEF Good
<1>8. i + 1 \in 1..Len(List) /\ item' = List[i + 1].slot
      BY <1>1, <1>2, <1>6, <1>7
<1>9. At(List, item') = i + 1
      BY <1>7, <1>8, Place
<1>10. WithoutItem[1] = List[i + 1]
  <2> DEFINE q == List
  <2>1. PICK T : q \in Seq(T)
        BY <1>7 DEF Good, IsList
  <2>2. i + 1 \in 1..Len(q) /\ WithoutItem = SubSeq(q, i + 1, Len(q))
        BY <1>5, <1>8, <1>9
  <2> HIDE DEF q
  <2>3. SubSeq(q, i + 1, Len(q))[1] = q[i + 1]
        BY <2>1, <2>2
  <2> QED BY <2>2, <2>3 DEF q
<1> QED BY <1>4, <1>8, <1>10, FirstItem

LEMMA DropJumps == ASSUME WInv, JumpInv, C_DelCloseClientSockInfo PROVE AheadJumped'
<1> SUFFICES ASSUME AtFirst', NEW z, Before(List', z, item') PROVE FALSE
    BY DEF AheadJumped
<1>1. WInv'
      BY DropStep
<1>2. bucket' = 1 /\ item' # 0 /\ item' = buckets'[1][1].slot
      BY DEF C_DelCloseClientSockInfo, AtFirst
<1>3. Good(List') /\ List' = buckets'[1]
  <2>1. 1 \in 1..shape'.buckets
        BY <1>1, <1>2 DEF WInv, WalkOk
  <2> QED BY <1>1, <1>2, <2>1 DEF WInv, TableOk, ListOk, List
<1> QED BY <1>2, <1>3, FirstItem

LEMMA JumpGoesOn == WInv /\ JumpInv /\ [WaitNext]_waitVars => JumpInv'
<1> SUFFICES ASSUME WInv, JumpInv, [WaitNext]_waitVars PROVE JumpInv'
    OBVIOUS
<1>1. AheadJumped'
  <2>1. CASE UNCHANGED waitVars \/ (\E f \in Socks : WaitAccept(f) \/ RecvClientMsgErrorProcess(f)
                                                   \/ HandleClientSrvMsg(f))
             \/ ClaimClient \/ SendClientMsg \/ SendWaits \/ SendAgain \/ SendFails \/ CloseSock
    <3>1. UNCHANGED <<buckets, bucket, item, last, jumped>>
          BY <2>1 DEF waitVars, checkerVars, tellVars, WaitAccept, RecvClientMsgErrorProcess,
             HandleClientSrvMsg, ClaimClient, SendClientMsg, SendWaits, SendAgain, SendFails, CloseSock
    <3> QED BY <3>1, SameList DEF JumpInv, List
  <2>2. ASSUME NEW m \in pending, InsertClientInfoIntoHash(m) PROVE AheadJumped'
        BY <2>2, NewItemJumps
  <2>3. ASSUME NEW s \in swaps, ReplaceClientInfo(s) PROVE AheadJumped'
    <3>1. item' = 0
          BY <2>3 DEF WInv, WalkOk, ReplaceClientInfo, checkerVars
    <3> QED BY <3>1 DEF AheadJumped, AtFirst
  <2>4. CASE Time
    <3>1. UNCHANGED <<bucket, item, last, jumped>>
          BY <2>4 DEF Time, checkerVars, tellVars
    <3>2. item # 0 => Len(List') = Len(List) /\ \A i \in 1..Len(List) : List'[i].slot = List[i].slot
          BY <2>4, <3>1, TimeKeeps DEF List, WInv, WalkOk
    <3> QED BY <3>1, <3>2, SameList DEF JumpInv
  <2>5. CASE Wake \/ NextBucket \/ NotDue \/ SockClaimed
        BY <2>5, WalkJumps
  <2>6. CASE Unlink
        BY <2>6, UnlinkJumps
  <2>7. CASE C_DelCloseClientSockInfo
        BY <2>7, DropJumps
  <2> QED BY <2>1, <2>2, <2>3, <2>4, <2>5, <2>6, <2>7 DEF WaitNext
<1>2. unlinked' => leaked'
  <2>1. CASE Unlink \/ C_DelCloseClientSockInfo
    <3>1. cpc \in {"unlink", "drop"} /\ unlinked' = (unlinked \/ ~(GoesWith \subseteq jumped))
          BY <2>1 DEF Unlink, C_DelCloseClientSockInfo, Unlinks
    <3>2. ASSUME ~leaked PROVE GoesWith \subseteq jumped
      <4>1. \A z \in GoesWith : last = item /\ Before(List, z, item)
            BY <3>1, <3>2, Removal
      <4>2. item # 0
            BY <3>1 DEF WInv, WalkOk, Busy
      <4> QED BY <4>1, <4>2 DEF JumpInv, AheadJumped, AtFirst
    <3>3. leaked => leaked'
          BY <2>1, Zenon DEF Unlink, C_DelCloseClientSockInfo
    <3> QED BY <3>1, <3>2, <3>3 DEF JumpInv
  <2>2. CASE ~(Unlink \/ C_DelCloseClientSockInfo)
    <3>1. UNCHANGED <<leaked, unlinked>>
          BY <2>2 DEF WaitNext, waitVars, tellVars, WaitAccept, RecvClientMsgErrorProcess,
             HandleClientSrvMsg, InsertClientInfoIntoHash, ReplaceClientInfo, Time, Wake, NextBucket,
             NotDue, SockClaimed, ClaimClient, SendClientMsg, SendWaits, SendAgain, SendFails,
             CloseSock
    <3> QED BY <3>1 DEF JumpInv
  <2> QED BY <2>1, <2>2
<1> QED BY <1>1, <1>2 DEF JumpInv

LEMMA JumpInvariant == WaitSpec => []JumpInv
<1>1. WaitInit => JumpInv
      BY DEF WaitInit, JumpInv, AheadJumped, AtFirst
<1> QED BY <1>1, JumpGoesOn, WaitInvariant, PTL DEF WaitSpec

\* No waiting request is lost without a cause.  A record is unlinked with another only after
\* a claim was left behind, or when a forwarder has put it before the item that the walk
\* takes for the first (access_check_timeoutmsg.c:203), and one is replaced only by a
\* request that comes a whole round of g_msg_counter later.
THEOREM RequestsAreKept == WaitSpec => []RequestsKept
<1>1. ASSUME WInv, JumpInv PROVE RequestsKept
  <2>1. unlinked => leaked
        BY <1>1 DEF JumpInv
  <2>2. ASSUME NEW s \in swaps, NEW r \in SameKey(s.msg)
        PROVE  (s.msg.id - r.id) % (2 * Half) = 0
    <3> DEFINE b == BucketOf(s.msg.n)
    <3>1. shape \in Shapes /\ RequestOk(s.msg)
          BY <1>1 DEF WInv, OnTheWay, TableOk
    <3>2. Half \in Nat \ {0} /\ Cycle \in Nat \ {0} /\ Cycle = 2 * Half
          BY <3>1, Constants
    <3>3. b \in 1..shape.buckets
          BY <3>1, <3>2, Buckets DEF RequestOk
    <3>4. PICK i \in 1..Len(buckets[b]) : r = buckets[b][i] /\ r.n = s.msg.n
      <4>1. Good(buckets[b])
            BY <1>1, <3>3, TheBucket DEF WInv
      <4>2. DOMAIN buckets[b] = 1..Len(buckets[b])
            BY <4>1 DEF Good, IsList
      <4> QED BY <4>2 DEF SameKey, ToSet
    <3>5. ItemOk(b, r)
          BY <1>1, <3>3, <3>4, TheBucket DEF WInv
    <3>6. PICK k \in Int : r.id = r.n + Cycle * k
          BY <3>5 DEF ItemOk, Congruent
    <3>7. PICK l \in Int : s.msg.id = s.msg.n + Cycle * l
          BY <3>1 DEF RequestOk, Congruent
    <3>8. Cycle * l - Cycle * k = Cycle * (l - k) /\ Cycle * l \in Int /\ Cycle * k \in Int
          /\ l - k \in Int
          BY <3>2, <3>6, <3>7
    <3>9. s.msg.n \in Int /\ r.n = s.msg.n
          BY <3>1, <3>2, <3>4 DEF RequestOk
    <3>10. s.msg.id - r.id = Cycle * (l - k)
      <4> DEFINE x == Cycle * l
                 y == Cycle * k
      <4>1. x \in Int /\ y \in Int /\ s.msg.id = s.msg.n + x /\ r.id = s.msg.n + y
            /\ x - y = Cycle * (l - k)
            BY <3>6, <3>7, <3>8, <3>9
      <4> HIDE DEF x, y
      <4>2. s.msg.id - r.id = x - y
            BY <3>9, <4>1
      <4> QED BY <4>1, <4>2
    <3>11. (Cycle * (l - k)) % Cycle = 0
           BY <3>2, <3>8, Multiple
    <3> QED BY <3>2, <3>10, <3>11
  <2> QED BY <2>1, <2>2 DEF RequestsKept
<1> QED BY <1>1, WaitInvariant, JumpInvariant, PTL

=============================================================================
