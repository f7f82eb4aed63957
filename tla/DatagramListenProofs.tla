------------------------- MODULE DatagramListenProofs -------------------------
(***************************************************************************)
(* Proofs about the listening datagram socket, for every number of         *)
(* addresses and every value of the limits. The inductive invariant        *)
(* ListenInv adds to the properties of DatagramListen what they rest on:   *)
(* how each connection stands with the caller (CallersOK), which requests  *)
(* are still to be answered (AnswersOK), and a witness of where each       *)
(* packet came from (PacketsOK), without which a packet could be in two    *)
(* queues.                                                                 *)
(*                                                                         *)
(* The lemmas about sequences come first. What takes elements out of a     *)
(* queue in any way leaves a Part of it: some of its elements, in the same *)
(* order.                                                                  *)
(***************************************************************************)
EXTENDS DatagramListen, FiniteSetTheorems, NaturalsInduction, WellFoundedInduction, TLAPS

-----------------------------------------------------------------------------
(* Parts of sequences *)

\* t is s without some of its elements.
Part(t, s) ==
    \E m \in [DOMAIN t -> DOMAIN s] :
        /\ \A j \in DOMAIN t : t[j] = s[m[j]]
        /\ \A j, k \in DOMAIN t : j < k => m[j] < m[k]

LEMMA LaterPart ==
    ASSUME NEW S, NEW s \in Seq(S), NEW k \in 0 .. Len(s)
    PROVE  /\ SubSeq(s, k + 1, Len(s)) \in Seq(S)
           /\ Len(SubSeq(s, k + 1, Len(s))) = Len(s) - k
           /\ Part(SubSeq(s, k + 1, Len(s)), s)
<1> DEFINE t == SubSeq(s, k + 1, Len(s))
           m == [j \in DOMAIN t |-> j + k]
<1>1. /\ t \in Seq(S) /\ Len(t) = Len(s) - k /\ Len(t) \in Nat /\ DOMAIN t = 1 .. Len(t)
      /\ \A j \in 1 .. Len(t) : t[j] = s[j + k]
  OBVIOUS
<1> HIDE DEF t
<1>2. m \in [DOMAIN t -> DOMAIN s]
  BY <1>1
<1>3. \A j, l \in DOMAIN t : t[j] = s[m[j]] /\ (j < l => m[j] < m[l])
  BY <1>1
<1> HIDE DEF m
<1> QED
  BY <1>1, <1>2, <1>3 DEF Part, t

LEMMA TailPart ==
    ASSUME NEW S, NEW s \in Seq(S), s # <<>>
    PROVE  Tail(s) \in Seq(S) /\ Len(Tail(s)) = Len(s) - 1 /\ Part(Tail(s), s)
<1> DEFINE t == Tail(s)
           m == [j \in DOMAIN t |-> j + 1]
<1>1. /\ t \in Seq(S) /\ Len(t) = Len(s) - 1 /\ Len(t) \in Nat /\ DOMAIN t = 1 .. Len(t)
      /\ \A j \in 1 .. Len(t) : t[j] = s[j + 1]
  OBVIOUS
<1> HIDE DEF t
<1>2. m \in [DOMAIN t -> DOMAIN s]
  BY <1>1
<1>3. \A j, l \in DOMAIN t : t[j] = s[m[j]] /\ (j < l => m[j] < m[l])
  BY <1>1
<1> HIDE DEF m
<1> QED
  BY <1>1, <1>2, <1>3 DEF Part, t

LEMMA Concatenated ==
    ASSUME NEW S, NEW s \in Seq(S), NEW t \in Seq(S)
    PROVE  /\ s \o t \in Seq(S) /\ Len(s \o t) = Len(s) + Len(t)
           /\ \A k \in 1 .. Len(s) : (s \o t)[k] = s[k]
           /\ \A k \in 1 .. Len(t) : (s \o t)[Len(s) + k] = t[k]
  OBVIOUS

LEMMA RemovedPart ==
    ASSUME NEW S, NEW s \in Seq(S), NEW i \in DOMAIN s
    PROVE  /\ RemoveAt(s, i) \in Seq(S) /\ Len(RemoveAt(s, i)) = Len(s) - 1
           /\ Part(RemoveAt(s, i), s)
           /\ \A j \in DOMAIN RemoveAt(s, i) :
                \E k \in DOMAIN s : k # i /\ RemoveAt(s, i)[j] = s[k]
           /\ \A k \in DOMAIN s : k # i =>
                \E j \in DOMAIN RemoveAt(s, i) : RemoveAt(s, i)[j] = s[k]
<1> DEFINE a == SubSeq(s, 1, i - 1)
           b == SubSeq(s, i + 1, Len(s))
           t == RemoveAt(s, i)
           m == [j \in DOMAIN t |-> IF j < i THEN j ELSE j + 1]
<1>1. a \in Seq(S) /\ Len(a) = i - 1 /\ \A j \in 1 .. i - 1 : a[j] = s[j]
  OBVIOUS
<1>2. b \in Seq(S) /\ Len(b) = Len(s) - i /\ \A j \in 1 .. Len(s) - i : b[j] = s[i + j]
  OBVIOUS
<1>3. t = a \o b
  BY DEF RemoveAt
<1>4. i \in 1 .. Len(s) /\ Len(s) \in Nat /\ DOMAIN s = 1 .. Len(s)
  OBVIOUS
<1> HIDE DEF a, b, t
<1>5. t \in Seq(S) /\ Len(t) = Len(s) - 1 /\ DOMAIN t = 1 .. Len(s) - 1
  <2>1. t \in Seq(S) /\ Len(t) = Len(a) + Len(b)
    BY <1>1, <1>2, <1>3, Concatenated
  <2>2. Len(t) = Len(s) - 1
    BY <1>1, <1>2, <1>4, <2>1
  <2> QED
    BY <2>1, <2>2
<1>6. ASSUME NEW j \in 1 .. Len(s) - 1
      PROVE  t[j] = s[IF j < i THEN j ELSE j + 1]
  <2>1. CASE j < i
    <3>1. j \in 1 .. Len(a)
      BY <1>1, <1>4, <2>1
    <3>2. (a \o b)[j] = a[j]
      BY <1>1, <1>2, <3>1, Concatenated
    <3> QED
      BY <1>1, <1>3, <2>1, <3>1, <3>2
  <2>2. CASE j >= i
    <3>0. Len(a) = i - 1 /\ Len(b) = Len(s) - i
      BY <1>1, <1>2
    <3>1. PICK d \in 1 .. Len(b) : Len(a) + d = j /\ i + d = j + 1
      <4>1. j - (i - 1) \in 1 .. Len(b) /\ Len(a) + (j - (i - 1)) = j /\ i + (j - (i - 1)) = j + 1
        BY <1>4, <2>2, <3>0
      <4> QED
        BY <4>1
    <3>2. (a \o b)[Len(a) + d] = b[d]
      BY <1>1, <1>2, Concatenated
    <3>3. b[d] = s[j + 1]
      BY <1>2, <3>0, <3>1
    <3>4. ~(j < i)
      BY <1>4, <2>2
    <3> QED
      BY <1>3, <3>1, <3>2, <3>3, <3>4
  <2> QED
    BY <1>4, <2>1, <2>2
<1>7. m \in [DOMAIN t -> DOMAIN s] /\ \A j \in DOMAIN t : m[j] # i
  BY <1>4, <1>5
<1>8. \A j, l \in DOMAIN t : j < l => m[j] < m[l]
  BY <1>4, <1>5
<1>9. \A j \in DOMAIN t : t[j] = s[m[j]]
  BY <1>5, <1>6
<1> HIDE DEF m
<1>10. Part(t, s)
  BY <1>7, <1>8, <1>9 DEF Part
<1>11. \A j \in DOMAIN t : \E k \in DOMAIN s : k # i /\ t[j] = s[k]
  BY <1>7, <1>9
<1>12. ASSUME NEW k \in DOMAIN s, k # i
       PROVE  \E j \in DOMAIN t : t[j] = s[k]
  <2>1. CASE k < i
    BY <1>4, <1>5, <1>6, <2>1
  <2>2. CASE k > i
    <3>1. k - 1 \in 1 .. Len(s) - 1 /\ ~(k - 1 < i) /\ (k - 1) + 1 = k
      BY <1>4, <2>2
    <3> QED
      BY <1>5, <1>6, <3>1
  <2> QED
    BY <1>4, <1>12, <2>1, <2>2
<1> QED
  BY <1>5, <1>10, <1>11, <1>12 DEF t

LEMMA AppendFacts ==
    ASSUME NEW S, NEW s \in Seq(S), NEW x \in S
    PROVE  /\ Append(s, x) \in Seq(S) /\ Len(Append(s, x)) = Len(s) + 1
           /\ Append(s, x)[Len(s) + 1] = x
           /\ \A j \in DOMAIN Append(s, x) :
                \/ j = Len(s) + 1
                \/ j \in DOMAIN s /\ j <= Len(s) /\ Append(s, x)[j] = s[j]
  OBVIOUS

LEMMA OneFacts ==
    ASSUME NEW S, NEW x \in S
    PROVE  <<x>> \in Seq(S) /\ DOMAIN <<x>> = {1} /\ <<x>>[1] = x /\ Len(<<x>>) = 1
  OBVIOUS

LEMMA NoneFacts ==
    ASSUME NEW S
    PROVE  <<>> \in Seq(S) /\ DOMAIN <<>> = {} /\ Len(<<>>) = 0
<1>1. <<>> \in Seq(S)
  OBVIOUS
<1>2. DOMAIN <<>> = {} /\ Len(<<>>) = 0
  OBVIOUS
<1> QED
  BY <1>1, <1>2

LEMMA Itself ==
    ASSUME NEW S, NEW s \in Seq(S)
    PROVE  Part(s, s)
<1> DEFINE m == [j \in DOMAIN s |-> j]
<1>1. m \in [DOMAIN s -> DOMAIN s] /\ \A j, k \in DOMAIN s : s[j] = s[m[j]] /\ (j < k => m[j] < m[k])
  OBVIOUS
<1> HIDE DEF m
<1> QED
  BY <1>1 DEF Part

LEMMA NoPart ==
    ASSUME NEW s
    PROVE  Part(<<>>, s)
<1> DEFINE t == <<>>
           m == [j \in {} |-> j]
<1>1. DOMAIN t = {}
  OBVIOUS
<1>2. m \in [{} -> DOMAIN s]
  OBVIOUS
<1> HIDE DEF t, m
<1>3. Part(t, s)
  BY <1>1, <1>2 DEF Part
<1> QED
  BY <1>3 DEF t

LEMMA PartOfPart ==
    ASSUME NEW s, NEW t, NEW u, Part(s, t), Part(t, u)
    PROVE  Part(s, u)
<1>1. PICK m \in [DOMAIN s -> DOMAIN t] :
        /\ \A j \in DOMAIN s : s[j] = t[m[j]]
        /\ \A j, k \in DOMAIN s : j < k => m[j] < m[k]
  BY DEF Part
<1>2. PICK l \in [DOMAIN t -> DOMAIN u] :
        /\ \A j \in DOMAIN t : t[j] = u[l[j]]
        /\ \A j, k \in DOMAIN t : j < k => l[j] < l[k]
  BY DEF Part
<1> DEFINE n == [j \in DOMAIN s |-> l[m[j]]]
<1>3. n \in [DOMAIN s -> DOMAIN u] /\ \A j \in DOMAIN s : n[j] = l[m[j]] /\ m[j] \in DOMAIN t
  OBVIOUS
<1> HIDE DEF n
<1>4. \A j \in DOMAIN s : s[j] = u[n[j]]
  BY <1>1, <1>2, <1>3
<1>5. \A j, k \in DOMAIN s : j < k => n[j] < n[k]
  BY <1>1, <1>2, <1>3
<1> QED
  BY <1>3, <1>4, <1>5 DEF Part

-----------------------------------------------------------------------------
(* The inductive invariant *)

\* What the caller knows about each connection.
CallersOK ==
    /\ \A i \in ConnIds : caller[i] = "none" <=> i >= nextId
    /\ \A i \in table : caller[i] = IF conns[idMap[i]].rid THEN "accepted" ELSE "offered"
    /\ \A i \in ConnIds : caller[i] = "accepted" => i \in table

\* Requests have been answered or wait in the order in which they came.
AnswersOK ==
    /\ CompletedInOrder
    /\ \A i \in DOMAIN answered : answered[i] <= requests
    /\ \A i \in DOMAIN accepts : accepts[i] <= requests
    /\ \A i, j \in DOMAIN accepts : i < j => accepts[i] < accepts[j]
    /\ \A i \in DOMAIN answered, j \in DOMAIN accepts : answered[i] < accepts[j]

\* q holds packets from a, among the first r ones that arrived from the
\* addresses in src, all different, and none of them has been sent.
Holds(q, a, src, r, snt) ==
    /\ \A k \in DOMAIN q :
        q[k].from = a /\ src[q[k].n] = a /\ q[k].n <= r /\ snt[q[k].n] = 0
    /\ \A j, k \in DOMAIN q : q[j].n = q[k].n => j = k

PacketsOK ==
    /\ received \in 0 .. MaxPackets /\ sent \in [1 .. MaxPackets -> Nat]
    /\ \A n \in 1 .. MaxPackets : sent[n] \in {0, 1} /\ (n > received => sent[n] = 0)
    /\ \E src \in [1 .. received -> Addresses] :
        /\ \A a \in DOMAIN conns : Holds(conns[a].q, a, src, received, sent)
        /\ \A i \in DOMAIN backlog :
            Holds(backlog[i].packets, backlog[i].addr, src, received, sent)

\* The connections, by address and by id, and what the caller knows of them.
TablesMapped ==
    /\ up \in BOOLEAN
    /\ DOMAIN conns \subseteq Addresses /\ conns \in [DOMAIN conns -> Connection]
    /\ DOMAIN idMap \subseteq ConnIds /\ idMap \in [DOMAIN idMap -> Addresses]
    /\ table \subseteq ConnIds
    /\ nextId \in 1 .. MaxId + 1
    /\ IsFiniteSet(DOMAIN conns) /\ Cardinality(DOMAIN conns) <= ConnLimit
    /\ MapsAgree

TablesOK == TablesMapped /\ caller \in [ConnIds -> CallerStates] /\ CallersOK

\* What waits for the next request or the next packet.
QueuesOK ==
    /\ accepts \in Seq(CallIds) /\ backlog \in Seq(Pending)
    /\ requests \in 0 .. MaxAccepts /\ answered \in Seq(CallIds)
    /\ OneRoutePerAddress
    /\ Len(backlog) <= Backlog
    /\ \A i, j \in DOMAIN backlog : i < j => backlog[i].ttl <= backlog[j].ttl
    /\ AnswersOK

TimerOK == timer \in {NoTimer} \cup 0 .. Timeout

ListenInv == TablesOK /\ QueuesOK /\ TimerOK /\ PacketsOK

-----------------------------------------------------------------------------
(* Times *)

LEMMA LeastOf ==
    ASSUME NEW T \in SUBSET Nat, T # {}
    PROVE  Min(T) \in T /\ \A y \in T : Min(T) <= y
<1> DEFINE R == {ss \in Nat \X Nat : ss[1] < ss[2]}
<1>1. IsWellFoundedOn(R, Nat)
  BY NatLessThanWellFounded DEF OpToRel
<1>2. \A x, y \in Nat : <<x, y>> \in R <=> x < y
  OBVIOUS
<1> HIDE DEF R
<1>3. PICK x \in T : \A y \in T : ~(<<y, x>> \in R)
  <2>1. T \subseteq Nat
    OBVIOUS
  <2> QED
    BY <1>1, <2>1, WFMin, Zenon
<1>4. \A y \in T : x <= y
  <2>1. ASSUME NEW y \in T PROVE x <= y
    <3>1. ~(y < x)
      BY <1>2, <1>3
    <3> QED
      BY <3>1
  <2> QED
    BY <2>1
<1>5. \E z \in T : \A y \in T : z <= y
  BY <1>4
<1> QED
  BY <1>5 DEF Min

LEMMA LessOne ==
    ASSUME NEW t \in Nat
    PROVE  Max({t - 1, 0}) = IF t = 0 THEN 0 ELSE t - 1
<1> DEFINE T == {t - 1, 0}
           x == IF t = 0 THEN 0 ELSE t - 1
<1>1. x \in T /\ \A y \in T : x >= y
  OBVIOUS
<1>2. \A z \in T : (\A y \in T : z >= y) => z = x
  OBVIOUS
<1> HIDE DEF T, x
<1>3. Max(T) = x
  BY <1>1, <1>2 DEF Max
<1> QED
  BY <1>3 DEF T, x

-----------------------------------------------------------------------------
(* The tables of connections *)

LEMMA ConnectionFields ==
    \A c \in Connection :
        /\ c.id \in ConnIds /\ c.ttl \in 0 .. Timeout /\ c.rid \in BOOLEAN
        /\ c.q \in Seq(Packet) /\ c.flush \in BOOLEAN
  BY DEF Connection

LEMMA TouchedFields ==
    ASSUME NEW c \in Connection
    PROVE  /\ Touched(c) \in Connection /\ Touched(c).id = c.id /\ Touched(c).rid = c.rid
           /\ Touched(c).q = c.q
  BY ParametersAssumption DEF Touched, Connection

LEMMA FlushedFields ==
    ASSUME NEW c \in Connection
    PROVE  LET d == [Touched(c) EXCEPT !.flush = FALSE, !.q = <<>>]
           IN d \in Connection /\ d.id = c.id /\ d.rid = c.rid /\ d.q = <<>>
<1> DEFINE q == <<>>
           d == [Touched(c) EXCEPT !.flush = FALSE, !.q = q]
<1>1. q \in Seq(Packet)
  OBVIOUS
<1> HIDE DEF q
<1>2. d \in Connection /\ d.id = c.id /\ d.rid = c.rid /\ d.q = q
  BY <1>1, TouchedFields DEF Connection
<1> QED
  BY <1>2 DEF q

LEMMA IdsUnique ==
    ASSUME TablesOK
    PROVE  /\ \A a \in DOMAIN conns : conns[a] \in Connection /\ a \in Addresses
           /\ \A a, b \in DOMAIN conns : conns[a].id = conns[b].id => a = b
           /\ \A a \in DOMAIN conns : conns[a].id \in table /\ idMap[conns[a].id] = a
           /\ \A i \in table : i \in ConnIds /\ idMap[i] \in DOMAIN conns /\ conns[idMap[i]].id = i
<1>1. \A a \in DOMAIN conns : conns[a] \in Connection /\ a \in Addresses
  BY DEF TablesOK, TablesMapped
<1>2. \A i \in table : i \in ConnIds /\ idMap[i] \in DOMAIN conns /\ conns[idMap[i]].id = i
  BY DEF TablesOK, TablesMapped, MapsAgree
<1> QED
  BY <1>1, <1>2 DEF TablesOK, TablesMapped, MapsAgree

\* The connections are used, each stays what it is.
LEMMA TablesTouched ==
    ASSUME TablesOK, DOMAIN conns' = DOMAIN conns, conns' \in [DOMAIN conns -> Connection],
           \A a \in DOMAIN conns : conns'[a].id = conns[a].id /\ conns'[a].rid = conns[a].rid,
           UNCHANGED <<up, idMap, table, nextId, caller>>
    PROVE  TablesOK'
<1>1. MapsAgree'
  BY DEF TablesOK, TablesMapped, MapsAgree
<1>2. CallersOK'
  BY IdsUnique DEF TablesOK, TablesMapped, CallersOK
<1> QED
  BY <1>1, <1>2 DEF TablesOK, TablesMapped

\* Connections are removed from all the tables.
LEMMA ForgetMaps ==
    ASSUME TablesOK, NEW as \in SUBSET DOMAIN conns, Forget(as),
           up' = up \/ (up' = FALSE /\ as = DOMAIN conns), nextId' = nextId
    PROVE  /\ TablesMapped'
           /\ DOMAIN conns' = DOMAIN conns \ as /\ \A a \in DOMAIN conns' : conns'[a] = conns[a]
           /\ table' \subseteq table
           /\ \A i \in table' : idMap[i] \notin as /\ idMap'[i] = idMap[i]
           /\ \A i \in table : (~\E a \in as : conns[a].id = i) => i \in table'
           /\ \A i \in table' : ~\E a \in as : conns[a].id = i
<1> DEFINE gone == {conns[a].id : a \in as}
<1>1. /\ DOMAIN conns' = DOMAIN conns \ as /\ \A a \in DOMAIN conns' : conns'[a] = conns[a]
      /\ conns' \in [DOMAIN conns' -> Connection]
      /\ table' = table \ gone
      /\ DOMAIN idMap' = DOMAIN idMap \ gone /\ \A i \in DOMAIN idMap' : idMap'[i] = idMap[i]
      /\ idMap' \in [DOMAIN idMap' -> Addresses]
  BY IdsUnique DEF Forget, Restrict, TablesOK, TablesMapped
<1>0. \A i : i \in gone <=> \E a \in as : conns[a].id = i
  OBVIOUS
<1>11. /\ DOMAIN idMap = table /\ table \subseteq ConnIds /\ DOMAIN conns \subseteq Addresses
       /\ (~up => table = {}) /\ up \in BOOLEAN
       /\ as \subseteq DOMAIN conns
  BY DEF TablesOK, TablesMapped, MapsAgree
<1> HIDE DEF gone
<1>4. IsFiniteSet(DOMAIN conns') /\ Cardinality(DOMAIN conns') <= ConnLimit
  <2>1. IsFiniteSet(DOMAIN conns) /\ DOMAIN conns' \in SUBSET DOMAIN conns
    BY <1>1 DEF TablesOK, TablesMapped
  <2>2. IsFiniteSet(DOMAIN conns') /\ Cardinality(DOMAIN conns') <= Cardinality(DOMAIN conns)
    BY <2>1, FS_Subset
  <2>3. Cardinality(DOMAIN conns) \in Nat /\ Cardinality(DOMAIN conns') \in Nat
    BY <2>1, <2>2, FS_CardinalityType
  <2> QED
    BY <2>2, <2>3, ParametersAssumption DEF TablesOK, TablesMapped
<1>5. \A i \in table' : i \in table /\ idMap[i] \notin as /\ idMap'[i] = idMap[i]
  <2>1. ASSUME NEW i \in table'
        PROVE  i \in table /\ idMap[i] \notin as /\ idMap'[i] = idMap[i]
    <3>1. i \in table /\ i \notin gone /\ i \in DOMAIN idMap'
      BY <1>1, <1>11
    <3>2. conns[idMap[i]].id = i
      BY <3>1, IdsUnique
    <3> QED
      BY <1>0, <1>1, <3>1, <3>2
  <2> QED
    BY <2>1
<1>6. \A a \in DOMAIN conns' : a \in DOMAIN conns /\ conns[a].id \notin gone
  <2>1. ASSUME NEW a \in DOMAIN conns'
        PROVE  a \in DOMAIN conns /\ conns[a].id \notin gone
    <3>1. a \in DOMAIN conns /\ a \notin as
      BY <1>1
    <3>2. \A b \in as : conns[a].id # conns[b].id
      BY <1>11, <3>1, IdsUnique
    <3> QED
      BY <1>0, <3>1, <3>2
  <2> QED
    BY <2>1
<1>7. DOMAIN idMap' = table'
  BY <1>1, <1>11
<1>8. up' \in BOOLEAN /\ (~up' => table' = {})
  <2>1. as = DOMAIN conns => table' = {}
    BY <1>0, <1>1, <1>11, IdsUnique
  <2> QED
    BY <1>1, <1>11, <2>1
<1>9. MapsAgree'
  <2>1. \A i \in table' : idMap'[i] \in DOMAIN conns' /\ conns'[idMap'[i]].id = i
    <3>1. ASSUME NEW i \in table'
          PROVE  idMap'[i] \in DOMAIN conns' /\ conns'[idMap'[i]].id = i
      <4>1. idMap'[i] = idMap[i] /\ idMap[i] \in DOMAIN conns /\ idMap[i] \notin as
            /\ conns[idMap[i]].id = i
        BY <1>5, IdsUnique
      <4>2. idMap[i] \in DOMAIN conns' /\ conns'[idMap[i]] = conns[idMap[i]]
        BY <1>1, <4>1
      <4> QED
        BY <4>1, <4>2
    <3> QED
      BY <3>1
  <2>2. \A a \in DOMAIN conns' : conns'[a].id \in table' /\ idMap'[conns'[a].id] = a
    <3>1. ASSUME NEW a \in DOMAIN conns'
          PROVE  conns'[a].id \in table' /\ idMap'[conns'[a].id] = a
      <4>1. conns'[a] = conns[a] /\ conns[a].id \in table /\ idMap[conns[a].id] = a
            /\ conns[a].id \in table'
        BY <1>1, <1>6, IdsUnique
      <4> QED
        BY <1>5, <4>1
    <3> QED
      BY <3>1
  <2> QED
    BY <1>7, <1>8, <2>1, <2>2 DEF MapsAgree
<1>12. \A i \in table : (~\E a \in as : conns[a].id = i) => i \in table'
  BY <1>0, <1>1
<1>13. \A i \in table' : ~\E a \in as : conns[a].id = i
  BY <1>0, <1>1
<1>14. nextId' \in 1 .. MaxId + 1
  BY DEF TablesOK, TablesMapped
<1> QED
  BY <1>1, <1>4, <1>5, <1>7, <1>8, <1>9, <1>11, <1>12, <1>13, <1>14 DEF TablesMapped

\* Connections are removed; their counterparts are told.
LEMMA TablesForget ==
    ASSUME TablesOK, NEW as \in SUBSET DOMAIN conns, Forget(as), caller' = CloseSent(as),
           up' = up \/ (up' = FALSE /\ as = DOMAIN conns), nextId' = nextId
    PROVE  TablesOK'
<1>1. /\ TablesMapped'
      /\ DOMAIN conns' = DOMAIN conns \ as /\ \A a \in DOMAIN conns' : conns'[a] = conns[a]
      /\ table' \subseteq table
      /\ \A i \in table' : idMap[i] \notin as /\ idMap'[i] = idMap[i]
      /\ \A i \in table : (~\E a \in as : conns[a].id = i) => i \in table'
      /\ \A i \in table' : ~\E a \in as : conns[a].id = i
  BY ForgetMaps
<1>2. \A i \in ConnIds : caller'[i] = IF \E a \in as : conns[a].id = i /\ conns[a].rid
                                     THEN "told" ELSE caller[i]
  BY DEF CloseSent
<1>3. caller' \in [ConnIds -> CallerStates]
  BY DEF CloseSent, TablesOK, TablesMapped, CallerStates
<1>10. CallersOK'
  <2>1. \A i \in ConnIds : caller'[i] = "none" <=> i >= nextId'
    <3>1. \A i \in ConnIds : (\E a \in as : conns[a].id = i) => caller[i] # "none"
      BY IdsUnique DEF TablesOK, TablesMapped, CallersOK
    <3> QED
      BY <1>2, <3>1 DEF TablesOK, TablesMapped, CallersOK
  <2>2. ASSUME NEW i \in table'
        PROVE  caller'[i] = IF conns'[idMap'[i]].rid THEN "accepted" ELSE "offered"
    <3>1. i \in table /\ idMap'[i] = idMap[i] /\ idMap[i] \notin as
      BY <1>1, <2>2
    <3>2. \A a \in as : conns[a].id # i
      BY <1>1, <2>2
    <3>3. caller'[i] = caller[i] /\ conns'[idMap[i]] = conns[idMap[i]]
      BY <1>1, <1>2, <3>1, <3>2, IdsUnique
    <3> QED
      BY <3>1, <3>3 DEF TablesOK, TablesMapped, CallersOK
  <2>3. ASSUME NEW i \in ConnIds, caller'[i] = "accepted"
        PROVE  i \in table'
    <3>1. caller[i] = "accepted" /\ ~\E a \in as : conns[a].id = i /\ conns[a].rid
      BY <1>2, <2>3
    <3>2. i \in table /\ conns[idMap[i]].rid
      BY <3>1 DEF TablesOK, TablesMapped, CallersOK
    <3>3. ~\E a \in as : conns[a].id = i
      BY <3>1, <3>2, IdsUnique DEF TablesOK, TablesMapped, MapsAgree
    <3> QED
      BY <1>1, <3>2, <3>3
  <2> QED
    BY <2>1, <2>2, <2>3 DEF CallersOK
<1> QED
  BY <1>1, <1>3, <1>10 DEF TablesOK, TablesMapped

LEMMA TablesClose ==
    ASSUME TablesOK, NEW i \in ConnIds, HandleClose(i)
    PROVE  TablesOK'
<1> DEFINE as == {a \in DOMAIN conns : conns[a].id = i}
<1>1. /\ caller[i] \in {"offered", "accepted"}
      /\ caller' = [caller EXCEPT ![i] = "closed"]
      /\ Forget(as) /\ up' = up /\ nextId' = nextId
  BY DEF HandleClose
<1>2. \A a \in DOMAIN conns : a \in as <=> conns[a].id = i
  OBVIOUS
<1>3. as \in SUBSET DOMAIN conns
  OBVIOUS
<1> HIDE DEF as
<1>4. /\ TablesMapped'
      /\ DOMAIN conns' = DOMAIN conns \ as /\ \A a \in DOMAIN conns' : conns'[a] = conns[a]
      /\ table' \subseteq table
      /\ \A j \in table' : idMap[j] \notin as /\ idMap'[j] = idMap[j]
      /\ \A j \in table : (~\E a \in as : conns[a].id = j) => j \in table'
      /\ \A j \in table' : ~\E a \in as : conns[a].id = j
  BY <1>1, <1>3, ForgetMaps
<1>5. \A j \in ConnIds : caller'[j] = IF j = i THEN "closed" ELSE caller[j]
  BY <1>1 DEF TablesOK
<1>6. caller' \in [ConnIds -> CallerStates]
  BY <1>1 DEF TablesOK, CallerStates
<1>7. i \notin table'
  <2>1. i \in table => conns[idMap[i]].id = i /\ idMap[i] \in as
    BY <1>2, IdsUnique
  <2> QED
    BY <1>4, <2>1
<1>8. \A j \in table : j # i => j \in table'
  BY <1>2, <1>3, <1>4
<1>9. CallersOK'
  <2>1. \A j \in ConnIds : caller'[j] = "none" <=> j >= nextId'
    BY <1>1, <1>5 DEF TablesOK, CallersOK
  <2>2. ASSUME NEW j \in table'
        PROVE  caller'[j] = IF conns'[idMap'[j]].rid THEN "accepted" ELSE "offered"
    <3>1. j \in table /\ j \in ConnIds /\ idMap'[j] = idMap[j] /\ idMap[j] \in DOMAIN conns'
      BY <1>4, IdsUnique
    <3>2. caller'[j] = caller[j] /\ conns'[idMap[j]] = conns[idMap[j]]
      BY <1>4, <1>5, <1>7, <3>1
    <3> QED
      BY <3>1, <3>2 DEF TablesOK, CallersOK
  <2>3. \A j \in ConnIds : caller'[j] = "accepted" => j \in table'
    BY <1>5, <1>8 DEF TablesOK, CallersOK
  <2> QED
    BY <2>1, <2>2, <2>3 DEF CallersOK
<1> QED
  BY <1>4, <1>6, <1>9 DEF TablesOK

LEMMA TablesAccepted ==
    ASSUME TablesOK, NEW i \in ConnIds, HandleAccepted(i)
    PROVE  TablesOK'
<1>1. caller[i] = "offered" /\ UNCHANGED <<up, idMap, table, nextId>>
  BY DEF HandleAccepted
<1>2. CASE i \notin table
  <2>1. caller' = [caller EXCEPT ![i] = "late"] /\ conns' = conns
    BY <1>2 DEF HandleAccepted
  <2>2. \A j \in ConnIds : caller'[j] = IF j = i THEN "late" ELSE caller[j]
    BY <2>1 DEF TablesOK
  <2>3. caller' \in [ConnIds -> CallerStates]
    BY <2>1 DEF TablesOK, CallerStates
  <2>4. CallersOK'
    BY <1>1, <1>2, <2>1, <2>2, IdsUnique DEF TablesOK, CallersOK
  <2> QED
    BY <1>1, <2>1, <2>3, <2>4 DEF TablesOK, TablesMapped, MapsAgree
<1>3. CASE i \in table
  <2> DEFINE a == idMap[i]
             c == [conns[a] EXCEPT !.rid = TRUE, !.flush = TRUE]
  <2>1. a \in DOMAIN conns /\ conns[a].id = i /\ conns[a] \in Connection
    BY <1>3, IdsUnique
  <2>2. caller' = [caller EXCEPT ![i] = "accepted"]
        /\ conns' = [conns EXCEPT ![a].rid = TRUE, ![a].flush = TRUE]
    BY <1>3 DEF HandleAccepted
  <2>3. c \in Connection /\ c.id = i /\ c.rid
    BY <2>1 DEF Connection
  <2>4. DOMAIN conns' = DOMAIN conns /\ \A b \in DOMAIN conns : conns'[b] = IF b = a THEN c ELSE conns[b]
    BY <2>1, <2>2 DEF TablesOK, TablesMapped
  <2> HIDE DEF a, c
  <2>5. conns' \in [DOMAIN conns -> Connection]
    BY <2>2, <2>3, <2>4, IdsUnique
  <2>6. \A b \in DOMAIN conns : conns'[b].id = conns[b].id
    BY <2>1, <2>3, <2>4
  <2>7. \A j \in ConnIds : caller'[j] = IF j = i THEN "accepted" ELSE caller[j]
    BY <2>2 DEF TablesOK
  <2>8. caller' \in [ConnIds -> CallerStates]
    BY <2>2 DEF TablesOK, CallerStates
  <2>9. TablesMapped'
    BY <1>1, <2>4, <2>5, <2>6 DEF TablesOK, TablesMapped, MapsAgree
  <2>10. \A j \in table : j # i => idMap[j] # a
    BY <1>3, <2>1, IdsUnique
  <2>11. CallersOK'
    <3>1. \A j \in ConnIds : caller'[j] = "none" <=> j >= nextId'
      BY <1>1, <2>7 DEF TablesOK, CallersOK
    <3>2. ASSUME NEW j \in table'
          PROVE  caller'[j] = IF conns'[idMap'[j]].rid THEN "accepted" ELSE "offered"
      <4>1. j \in table /\ idMap'[j] = idMap[j] /\ idMap[j] \in DOMAIN conns /\ j \in ConnIds
        BY <1>1, IdsUnique
      <4>2. CASE j = i
        BY <2>3, <2>4, <2>7, <4>1, <4>2 DEF a
      <4>3. CASE j # i
        BY <2>4, <2>7, <2>10, <4>1, <4>3 DEF TablesOK, CallersOK
      <4> QED
        BY <4>2, <4>3
    <3>3. \A j \in ConnIds : caller'[j] = "accepted" => j \in table'
      BY <1>1, <1>3, <2>7 DEF TablesOK, CallersOK
    <3> QED
      BY <3>1, <3>2, <3>3 DEF CallersOK
  <2> QED
    BY <2>8, <2>9, <2>11 DEF TablesOK
<1> QED
  BY <1>2, <1>3

\* What a new connection does to the tables, the least recent one being evicted
\* if there are too many.
LEMMA TablesNew ==
    ASSUME TablesOK, NEW r, NEW a \in Addresses \ DOMAIN conns, NEW packets \in Seq(Packet),
           ConnectionNew(r, a, packets), up, up' = up
    PROVE  /\ TablesOK'
           /\ DOMAIN conns' \subseteq DOMAIN conns \cup {a} /\ a \in DOMAIN conns'
           /\ conns'[a].q = packets
           /\ \A b \in DOMAIN conns' : b # a => conns'[b] = conns[b]
<1> DEFINE new == [id |-> nextId, ttl |-> Timeout, rid |-> FALSE, q |-> packets, flush |-> FALSE]
<1>1. PICK old \in Evicted(conns) :
        /\ conns' = [x \in (DOMAIN conns \ old) \cup {a} |-> IF x # a THEN conns[x] ELSE new]
        /\ idMap' = [i \in (DOMAIN idMap \ {conns[x].id : x \in old}) \cup {nextId} |->
                        IF i = nextId THEN a ELSE idMap[i]]
        /\ table' = (table \ {conns[x].id : x \in old}) \cup {nextId}
        /\ caller' = [CloseSent(old) EXCEPT ![nextId] = "offered"]
  BY DEF ConnectionNew
<1>2. nextId \in ConnIds /\ nextId' = nextId + 1 /\ nextId \in Nat /\ nextId' \in 1 .. MaxId + 1
  BY ParametersAssumption DEF ConnectionNew, TablesOK, TablesMapped, ConnIds
<1>3. \/ old = {} /\ Cardinality(DOMAIN conns) < ConnLimit
      \/ \E o \in DOMAIN conns : old = {o}
  BY DEF Evicted
<1> DEFINE gone == {conns[x].id : x \in old}
<1>4. old \subseteq DOMAIN conns /\ \A i : i \in gone <=> \E x \in old : conns[x].id = i
  BY <1>3
<1>5. new \in Connection /\ new.id = nextId /\ new.q = packets /\ ~new.rid
  BY <1>2, ParametersAssumption DEF Connection
<1> HIDE DEF gone, new
<1>6. /\ DOMAIN conns' = (DOMAIN conns \ old) \cup {a}
      /\ conns'[a] = new
      /\ \A b \in DOMAIN conns \ old : b # a /\ conns'[b] = conns[b]
      /\ conns' \in [DOMAIN conns' -> Connection]
  BY <1>1, <1>5, IdsUnique
<1>7. table' = (table \ gone) \cup {nextId}
  BY <1>1 DEF gone
<1>8. \A i \in table : i \in ConnIds /\ i # nextId /\ i \in Nat
  <2>1. caller[nextId] = "none"
    BY <1>2 DEF TablesOK, CallersOK
  <2>2. \A i \in table : caller[i] # "none"
    BY DEF TablesOK, CallersOK
  <2> QED
    BY <2>1, <2>2, IdsUnique DEF ConnIds
<1>9. DOMAIN idMap = table /\ table \subseteq ConnIds /\ DOMAIN conns \subseteq Addresses
  BY DEF TablesOK, TablesMapped, MapsAgree
<1>10. /\ DOMAIN idMap' = table' /\ idMap'[nextId] = a
       /\ \A i \in table \ gone : idMap'[i] = idMap[i]
       /\ idMap' \in [DOMAIN idMap' -> Addresses]
  <2>1. idMap' = [i \in (table \ gone) \cup {nextId} |-> IF i = nextId THEN a ELSE idMap[i]]
    BY <1>1, <1>9 DEF gone
  <2>2. \A i \in table : idMap[i] \in Addresses
    BY <1>9, IdsUnique
  <2> QED
    BY <1>7, <1>8, <2>1, <2>2
<1>11. \A b \in DOMAIN conns \ old : conns[b].id \in table \ gone
  <2>1. ASSUME NEW b \in DOMAIN conns \ old PROVE conns[b].id \in table \ gone
    <3>1. \A x \in old : conns[x].id # conns[b].id
      BY <1>4, IdsUnique
    <3> QED
      BY <1>4, <3>1, IdsUnique
  <2> QED
    BY <2>1
<1>12. \A i \in table \ gone : idMap[i] \in DOMAIN conns \ old /\ conns[idMap[i]].id = i
  <2>1. ASSUME NEW i \in table \ gone PROVE idMap[i] \in DOMAIN conns \ old /\ conns[idMap[i]].id = i
    <3>1. conns[idMap[i]].id = i /\ idMap[i] \in DOMAIN conns
      BY IdsUnique
    <3> QED
      BY <1>4, <3>1
  <2> QED
    BY <2>1
<1>13. MapsAgree'
  <2>1. \A i \in table' : idMap'[i] \in DOMAIN conns' /\ conns'[idMap'[i]].id = i
    <3>1. ASSUME NEW i \in table \ gone
          PROVE  idMap'[i] \in DOMAIN conns' /\ conns'[idMap'[i]].id = i
      <4>1. idMap'[i] = idMap[i] /\ idMap[i] \in DOMAIN conns \ old /\ conns[idMap[i]].id = i
        BY <1>10, <1>12
      <4> QED
        BY <1>6, <4>1
    <3>2. idMap'[nextId] \in DOMAIN conns' /\ conns'[idMap'[nextId]].id = nextId
      BY <1>5, <1>6, <1>10
    <3> QED
      BY <1>7, <3>1, <3>2
  <2>2. \A b \in DOMAIN conns' : conns'[b].id \in table' /\ idMap'[conns'[b].id] = b
    <3>1. ASSUME NEW b \in DOMAIN conns \ old
          PROVE  conns'[b].id \in table' /\ idMap'[conns'[b].id] = b
      <4>1. conns'[b] = conns[b] /\ conns[b].id \in table \ gone /\ idMap[conns[b].id] = b
        BY <1>6, <1>11, IdsUnique
      <4>2. idMap'[conns[b].id] = b
        BY <1>10, <4>1
      <4> QED
        BY <1>7, <4>1, <4>2
    <3>2. conns'[a].id \in table' /\ idMap'[conns'[a].id] = a
      BY <1>5, <1>6, <1>7, <1>10
    <3> QED
      BY <1>6, <3>1, <3>2
  <2> QED
    BY <1>10, <2>1, <2>2 DEF MapsAgree
<1>14. IsFiniteSet(DOMAIN conns') /\ Cardinality(DOMAIN conns') <= ConnLimit
  <2>1. IsFiniteSet(DOMAIN conns) /\ Cardinality(DOMAIN conns) <= ConnLimit
    BY DEF TablesOK, TablesMapped
  <2>2. Cardinality(DOMAIN conns) \in Nat /\ ConnLimit \in Nat
    BY <2>1, FS_CardinalityType, ParametersAssumption
  <2>3. CASE old = {} /\ Cardinality(DOMAIN conns) < ConnLimit
    <3>1. DOMAIN conns' = DOMAIN conns \cup {a}
      BY <1>6, <2>3
    <3>2. IsFiniteSet(DOMAIN conns \cup {a})
          /\ Cardinality(DOMAIN conns \cup {a}) = Cardinality(DOMAIN conns) + 1
      BY <2>1, FS_AddElement
    <3> QED
      BY <2>2, <2>3, <3>1, <3>2
  <2>4. ASSUME NEW o \in DOMAIN conns, old = {o}
        PROVE  IsFiniteSet(DOMAIN conns') /\ Cardinality(DOMAIN conns') <= ConnLimit
    <3> DEFINE D == DOMAIN conns \ {o}
    <3>1. DOMAIN conns' = D \cup {a} /\ a \notin D
      BY <1>6, <2>4
    <3>2. IsFiniteSet(D) /\ Cardinality(D) = Cardinality(DOMAIN conns) - 1
      BY <2>1, FS_RemoveElement
    <3> HIDE DEF D
    <3>3. IsFiniteSet(D \cup {a}) /\ Cardinality(D \cup {a}) = Cardinality(D) + 1
      BY <3>1, <3>2, FS_AddElement
    <3> QED
      BY <2>1, <2>2, <3>1, <3>2, <3>3
  <2> QED
    BY <1>3, <2>3, <2>4
<1>15. TablesMapped'
  BY <1>2, <1>6, <1>7, <1>9, <1>10, <1>13, <1>14 DEF TablesOK, TablesMapped
<1>16. \A i \in ConnIds : caller'[i] =
            IF i = nextId THEN "offered"
            ELSE IF \E x \in old : conns[x].id = i /\ conns[x].rid THEN "told" ELSE caller[i]
  BY <1>1 DEF CloseSent
<1>17. caller' \in [ConnIds -> CallerStates]
  BY <1>1 DEF CloseSent, TablesOK, CallerStates
<1>18. CallersOK'
  <2>1. ASSUME NEW i \in ConnIds PROVE caller'[i] = "none" <=> i >= nextId'
    <3>1. i \in Nat
      BY DEF ConnIds
    <3>2. (\E x \in old : conns[x].id = i) => caller[i] # "none"
      BY <1>4, IdsUnique DEF TablesOK, CallersOK
    <3>3. caller[i] = "none" <=> i >= nextId
      BY DEF TablesOK, CallersOK
    <3> QED
      BY <1>2, <1>16, <3>1, <3>2, <3>3
  <2>2. ASSUME NEW i \in table'
        PROVE  caller'[i] = IF conns'[idMap'[i]].rid THEN "accepted" ELSE "offered"
    <3>1. CASE i = nextId
      BY <1>2, <1>5, <1>6, <1>10, <1>16, <3>1
    <3>2. CASE i # nextId
      <4>1. i \in table \ gone /\ i \in ConnIds
        BY <1>7, <1>8, <3>2
      <4>2. caller'[i] = caller[i] /\ idMap'[i] = idMap[i] /\ conns'[idMap[i]] = conns[idMap[i]]
        BY <1>4, <1>6, <1>10, <1>12, <1>16, <3>2, <4>1
      <4> QED
        BY <4>1, <4>2 DEF TablesOK, CallersOK
    <3> QED
      BY <3>1, <3>2
  <2>3. ASSUME NEW i \in ConnIds, caller'[i] = "accepted"
        PROVE  i \in table'
    <3>1. /\ i # nextId /\ caller[i] = "accepted"
          /\ ~\E x \in old : conns[x].id = i /\ conns[x].rid
      BY <1>16, <2>3
    <3>2. i \in table /\ conns[idMap[i]].rid
      BY <3>1 DEF TablesOK, CallersOK
    <3>3. i \notin gone
      <4>1. \A x \in old : conns[x].id = i => x = idMap[i]
        BY <1>4, IdsUnique
      <4> QED
        BY <1>4, <3>1, <3>2, <4>1
    <3> QED
      BY <1>7, <3>2, <3>3
  <2> QED
    BY <2>1, <2>2, <2>3 DEF CallersOK
<1>19. TablesOK'
  BY <1>15, <1>17, <1>18 DEF TablesOK
<1> QED
  BY <1>5, <1>6, <1>19

-----------------------------------------------------------------------------
(* The queues *)

LEMMA PendingFields ==
    \A pc \in Pending :
        pc.addr \in Addresses /\ pc.ttl \in 0 .. Timeout /\ pc.packets \in Seq(Packet)
  BY DEF Pending

LEMMA QueueTypes ==
    ASSUME QueuesOK
    PROVE  /\ accepts \in Seq(CallIds) /\ backlog \in Seq(Pending) /\ answered \in Seq(CallIds)
           /\ \A i \in DOMAIN accepts : accepts[i] \in Nat
           /\ \A i \in DOMAIN answered : answered[i] \in Nat
           /\ \A i \in DOMAIN backlog : backlog[i] \in Pending /\ backlog[i].ttl \in Nat
           /\ requests \in Nat
<1>1. accepts \in Seq(CallIds) /\ backlog \in Seq(Pending) /\ answered \in Seq(CallIds)
  BY DEF QueuesOK
<1>2. \A i \in DOMAIN accepts : accepts[i] \in CallIds
  BY <1>1
<1>3. \A i \in DOMAIN answered : answered[i] \in CallIds
  BY <1>1
<1>4. \A i \in DOMAIN backlog : backlog[i] \in Pending
  BY <1>1
<1> QED
  BY <1>1, <1>2, <1>3, <1>4, PendingFields DEF CallIds, QueuesOK

\* Requests and pending connections leave the queues.
LEMMA QueuesPart ==
    ASSUME QueuesOK, accepts' \in Seq(CallIds), Part(accepts', accepts),
           backlog' \in Seq(Pending), Part(backlog', backlog), Len(backlog') <= Len(backlog),
           UNCHANGED <<answered, requests>>, DOMAIN conns' \subseteq DOMAIN conns
    PROVE  QueuesOK'
<1>1. PICK m \in [DOMAIN accepts' -> DOMAIN accepts] :
        /\ \A j \in DOMAIN accepts' : accepts'[j] = accepts[m[j]]
        /\ \A j, k \in DOMAIN accepts' : j < k => m[j] < m[k]
  BY DEF Part
<1>2. PICK l \in [DOMAIN backlog' -> DOMAIN backlog] :
        /\ \A j \in DOMAIN backlog' : backlog'[j] = backlog[l[j]]
        /\ \A j, k \in DOMAIN backlog' : j < k => l[j] < l[k]
  BY DEF Part
<1>3. \A i, j \in DOMAIN backlog' : i = j \/ i < j \/ j < i
  <2>1. \A i \in DOMAIN backlog' : i \in Int
    OBVIOUS
  <2> QED
    BY <2>1
<1>4. \A i, j \in DOMAIN backlog' : backlog'[i].addr = backlog'[j].addr => i = j
  <2>1. \A i, j \in DOMAIN backlog' : backlog'[i].addr = backlog'[j].addr => l[i] = l[j]
    BY <1>2 DEF QueuesOK, OneRoutePerAddress
  <2>2. \A i \in DOMAIN backlog' : l[i] \in Int
    BY <1>2, QueueTypes
  <2> QED
    BY <1>2, <1>3, <2>1, <2>2
<1>5. accepts' = <<>> \/ backlog' = <<>>
  <2>1. accepts = <<>> => accepts' = <<>>
    <3>1. ASSUME DOMAIN accepts = {} PROVE DOMAIN accepts' = {}
      BY <1>1, <3>1
    <3>2. accepts = <<>> => DOMAIN accepts = {}
      OBVIOUS
    <3>3. DOMAIN accepts' = {} => accepts' = <<>>
      OBVIOUS
    <3> QED
      BY <3>1, <3>2, <3>3
  <2>2. backlog = <<>> => backlog' = <<>>
    <3>1. ASSUME DOMAIN backlog = {} PROVE DOMAIN backlog' = {}
      BY <1>2, <3>1
    <3>2. backlog = <<>> => DOMAIN backlog = {}
      OBVIOUS
    <3>3. DOMAIN backlog' = {} => backlog' = <<>>
      OBVIOUS
    <3> QED
      BY <3>1, <3>2, <3>3
  <2> QED
    BY <2>1, <2>2 DEF QueuesOK, OneRoutePerAddress
<1>6. OneRoutePerAddress'
  <2>1. \A i \in DOMAIN backlog' : backlog'[i].addr \notin DOMAIN conns'
    BY <1>2 DEF QueuesOK, OneRoutePerAddress
  <2> QED
    BY <1>4, <1>5, <2>1 DEF OneRoutePerAddress
<1>7. \A i, j \in DOMAIN backlog' : i < j => backlog'[i].ttl <= backlog'[j].ttl
  BY <1>2 DEF QueuesOK
<1>8. AnswersOK'
  BY <1>1 DEF QueuesOK, AnswersOK, CompletedInOrder
<1>9. Len(backlog') <= Backlog
  BY ParametersAssumption, QueueTypes DEF QueuesOK
<1> QED
  BY <1>6, <1>7, <1>8, <1>9 DEF QueuesOK

LEMMA QueuesKept ==
    ASSUME QueuesOK, UNCHANGED <<accepts, backlog, answered, requests>>,
           DOMAIN conns' \subseteq DOMAIN conns
    PROVE  QueuesOK'
<1>1. accepts \in Seq(CallIds) /\ backlog \in Seq(Pending)
  BY DEF QueuesOK
<1>2. Part(accepts, accepts) /\ Part(backlog, backlog)
  BY <1>1, Itself
<1> QED
  BY <1>1, <1>2, QueuesPart

LEMMA QueuesCancel ==
    ASSUME QueuesOK, NEW r \in CallIds, HandleCancel(r)
    PROVE  QueuesOK'
<1>1. PICK i \in DOMAIN accepts : accepts' = RemoveAt(accepts, i)
  BY DEF HandleCancel
<1>2. UNCHANGED <<backlog, answered, requests, conns>>
  BY DEF HandleCancel, history
<1>3. accepts \in Seq(CallIds) /\ backlog \in Seq(Pending)
  BY DEF QueuesOK
<1>4. Part(accepts', accepts) /\ accepts' \in Seq(CallIds)
  BY <1>1, <1>3, RemovedPart
<1>5. Part(backlog, backlog)
  BY <1>3, Itself
<1> QED
  BY <1>2, <1>3, <1>4, <1>5, QueuesPart

LEMMA QueuesExpired ==
    ASSUME QueuesOK, DropExpired, UNCHANGED <<accepts, answered, requests>>,
           DOMAIN conns' \subseteq DOMAIN conns
    PROVE  QueuesOK'
<1>1. PICK k \in 0 .. Len(backlog) : backlog' = SubSeq(backlog, k + 1, Len(backlog))
  BY DEF DropExpired
<1>2. accepts \in Seq(CallIds) /\ backlog \in Seq(Pending)
  BY DEF QueuesOK
<1>3. Part(backlog', backlog) /\ backlog' \in Seq(Pending) /\ Len(backlog') = Len(backlog) - k
  BY <1>1, <1>2, LaterPart
<1>4. Part(accepts, accepts)
  BY <1>2, Itself
<1>5. Len(backlog') <= Len(backlog)
  BY <1>2, <1>3
<1> QED
  BY <1>2, <1>3, <1>4, <1>5, QueuesPart

LEMMA QueuesPurged ==
    ASSUME QueuesOK, accepts' = <<>>, backlog' = <<>>, UNCHANGED <<answered, requests>>,
           DOMAIN conns' \subseteq DOMAIN conns
    PROVE  QueuesOK'
<1>1. Part(accepts', accepts) /\ Part(backlog', backlog)
  BY NoPart
<1>2. accepts' \in Seq(CallIds) /\ backlog' \in Seq(Pending) /\ Len(backlog') = 0
  BY NoneFacts
<1>3. Len(backlog') <= Len(backlog)
  BY <1>2 DEF QueuesOK
<1> QED
  BY <1>1, <1>2, <1>3, QueuesPart

LEMMA QueuesTick ==
    ASSUME QueuesOK, Tick
    PROVE  QueuesOK'
<1>1. backlog' = [i \in DOMAIN backlog |-> [backlog[i] EXCEPT !.ttl = Max({@ - 1, 0})]]
      /\ UNCHANGED <<accepts, answered, requests>> /\ DOMAIN conns' = DOMAIN conns
  BY DEF Tick, history
<1>2. ASSUME NEW i \in DOMAIN backlog
      PROVE  /\ backlog'[i].addr = backlog[i].addr
             /\ backlog'[i].ttl = IF backlog[i].ttl = 0 THEN 0 ELSE backlog[i].ttl - 1
             /\ backlog'[i] \in Pending
  <2>1. backlog[i] \in Pending /\ backlog[i].ttl \in 0 .. Timeout /\ Timeout \in Nat
    BY QueueTypes, PendingFields, ParametersAssumption
  <2> DEFINE t == Max({backlog[i].ttl - 1, 0})
  <2>2. t = IF backlog[i].ttl = 0 THEN 0 ELSE backlog[i].ttl - 1
    BY <2>1, LessOne
  <2>3. t \in 0 .. Timeout
    BY <2>1, <2>2
  <2>4. backlog'[i] = [backlog[i] EXCEPT !.ttl = t]
    BY <1>1
  <2> HIDE DEF t
  <2>5. backlog'[i].addr = backlog[i].addr /\ backlog'[i].ttl = t /\ backlog'[i] \in Pending
    BY <2>1, <2>3, <2>4 DEF Pending
  <2> QED
    BY <2>2, <2>5
<1>3. backlog \in Seq(Pending) /\ Len(backlog) \in Nat /\ DOMAIN backlog = 1 .. Len(backlog)
  BY QueueTypes
<1>4. DOMAIN backlog' = DOMAIN backlog /\ backlog' \in [1 .. Len(backlog) -> Pending]
  BY <1>1, <1>2, <1>3
<1>5. backlog' \in Seq(Pending) /\ Len(backlog') = Len(backlog)
  BY <1>3, <1>4
<1>6. \A i, j \in DOMAIN backlog' : i < j => backlog'[i].ttl <= backlog'[j].ttl
  <2>1. ASSUME NEW i \in DOMAIN backlog, NEW j \in DOMAIN backlog, i < j
        PROVE  backlog'[i].ttl <= backlog'[j].ttl
    <3>1. backlog[i].ttl <= backlog[j].ttl /\ backlog[i].ttl \in Nat /\ backlog[j].ttl \in Nat
      BY <2>1, QueueTypes DEF QueuesOK
    <3>2. /\ backlog'[i].ttl = IF backlog[i].ttl = 0 THEN 0 ELSE backlog[i].ttl - 1
          /\ backlog'[j].ttl = IF backlog[j].ttl = 0 THEN 0 ELSE backlog[j].ttl - 1
      BY <1>2
    <3> QED
      BY <3>1, <3>2
  <2> QED
    BY <1>4, <2>1
<1>7. OneRoutePerAddress'
  <2>1. backlog = <<>> => backlog' = <<>>
    BY <1>5, <1>3
  <2>2. \A i \in DOMAIN backlog' : i \in DOMAIN backlog /\ backlog'[i].addr = backlog[i].addr
    BY <1>2, <1>4
  <2>3. accepts' = <<>> \/ backlog' = <<>>
    BY <1>1, <2>1 DEF QueuesOK, OneRoutePerAddress
  <2>4. \A i, j \in DOMAIN backlog' : backlog'[i].addr = backlog'[j].addr => i = j
    BY <2>2 DEF QueuesOK, OneRoutePerAddress
  <2>5. \A i \in DOMAIN backlog' : backlog'[i].addr \notin DOMAIN conns'
    BY <1>1, <2>2 DEF QueuesOK, OneRoutePerAddress
  <2> QED
    BY <2>3, <2>4, <2>5 DEF OneRoutePerAddress
<1>8. AnswersOK'
  BY <1>1 DEF QueuesOK, AnswersOK, CompletedInOrder
<1> QED
  BY <1>1, <1>5, <1>6, <1>7, <1>8 DEF QueuesOK

\* The request x, later than all answered ones and earlier than those that
\* wait, is answered.
LEMMA AnswersMore ==
    ASSUME QueuesOK, NEW x \in CallIds, answered' = Append(answered, x),
           \A i \in DOMAIN answered : answered[i] < x,
           accepts' \in Seq(CallIds), Part(accepts', accepts),
           \A i \in DOMAIN accepts' : x < accepts'[i],
           x <= requests', requests' \in Nat, requests <= requests'
    PROVE  answered' \in Seq(CallIds) /\ AnswersOK'
<1>1. x \in Nat /\ requests \in Nat
  BY QueueTypes DEF CallIds
<1>2. /\ answered' \in Seq(CallIds) /\ answered'[Len(answered) + 1] = x
      /\ \A i \in DOMAIN answered' :
            \/ i = Len(answered) + 1
            \/ i \in DOMAIN answered /\ i <= Len(answered) /\ answered'[i] = answered[i]
  BY QueueTypes, AppendFacts
<1>3. PICK m \in [DOMAIN accepts' -> DOMAIN accepts] :
        /\ \A j \in DOMAIN accepts' : accepts'[j] = accepts[m[j]]
        /\ \A j, k \in DOMAIN accepts' : j < k => m[j] < m[k]
  BY DEF Part
<1>4. CompletedInOrder'
  <2>1. ASSUME NEW i \in DOMAIN answered', NEW j \in DOMAIN answered', i < j
        PROVE  answered'[i] < answered'[j]
    <3>1. Len(answered) \in Nat /\ i \in Int /\ j \in Int
      BY <1>2, QueueTypes
    <3>2. i \in DOMAIN answered /\ answered'[i] = answered[i]
      BY <1>2, <2>1, <3>1
    <3>3. CASE j = Len(answered) + 1
      BY <1>2, <3>2, <3>3
    <3>4. CASE j # Len(answered) + 1
      BY <1>2, <2>1, <3>2, <3>4 DEF QueuesOK, AnswersOK, CompletedInOrder
    <3> QED
      BY <3>3, <3>4
  <2> QED
    BY <2>1 DEF CompletedInOrder
<1>5. \A i \in DOMAIN answered' : answered'[i] <= requests'
  BY <1>1, <1>2, QueueTypes DEF QueuesOK, AnswersOK
<1>6. \A j \in DOMAIN accepts' : accepts'[j] <= requests' /\ accepts'[j] \in Nat
  BY <1>1, <1>3, QueueTypes DEF QueuesOK, AnswersOK
<1>7. \A i, j \in DOMAIN accepts' : i < j => accepts'[i] < accepts'[j]
  BY <1>3 DEF QueuesOK, AnswersOK
<1>8. \A i \in DOMAIN answered', j \in DOMAIN accepts' : answered'[i] < accepts'[j]
  <2>1. \A i \in DOMAIN answered, j \in DOMAIN accepts' : answered[i] < accepts'[j]
    BY <1>3 DEF QueuesOK, AnswersOK
  <2> QED
    BY <1>2, <2>1
<1> QED
  BY <1>2, <1>4, <1>5, <1>6, <1>7, <1>8 DEF AnswersOK

LEMMA QueuesReceiveAccept ==
    ASSUME QueuesOK, NEW a \in Addresses, ReceiveAccept(a)
    PROVE  QueuesOK'
<1>1. /\ accepts # <<>> /\ accepts' = Tail(accepts) /\ answered' = Append(answered, Head(accepts))
      /\ UNCHANGED <<backlog, requests>>
  BY DEF ReceiveAccept, ConnectionNew
<1>2. accepts \in Seq(CallIds) /\ backlog \in Seq(Pending)
  BY DEF QueuesOK
<1>3. backlog' = <<>> /\ DOMAIN backlog' = {} /\ Len(backlog') = 0
  BY <1>1, NoneFacts DEF QueuesOK, OneRoutePerAddress
<1>4. accepts' \in Seq(CallIds) /\ Part(accepts', accepts)
  BY <1>1, <1>2, TailPart
<1> DEFINE x == Head(accepts)
<1>5. x = accepts[1] /\ 1 \in DOMAIN accepts /\ x \in CallIds /\ x \in Nat
  <2>1. x = accepts[1] /\ 1 \in DOMAIN accepts
    BY <1>1, <1>2
  <2>2. accepts[1] \in CallIds
    BY <1>2, <2>1
  <2> HIDE DEF x
  <2> QED
    BY <2>1, <2>2 DEF CallIds
<1>6. \A j \in DOMAIN accepts' : accepts'[j] = accepts[j + 1] /\ j + 1 \in DOMAIN accepts /\ 1 < j + 1
  BY <1>1, <1>2
<1> HIDE DEF x
<1>7. \A i \in DOMAIN answered : answered[i] < x
  BY <1>5 DEF QueuesOK, AnswersOK
<1>8. \A j \in DOMAIN accepts' : x < accepts'[j]
  BY <1>5, <1>6 DEF QueuesOK, AnswersOK
<1>9. x <= requests /\ requests' = requests /\ requests \in Nat
  BY <1>1, <1>5, QueueTypes DEF QueuesOK, AnswersOK
<1>10. answered' = Append(answered, x) /\ requests <= requests' /\ x <= requests' /\ requests' \in Nat
  BY <1>1, <1>9 DEF x
<1>11. answered' \in Seq(CallIds) /\ AnswersOK'
  BY <1>4, <1>5, <1>7, <1>8, <1>10, AnswersMore
<1>12. OneRoutePerAddress'
  BY <1>3 DEF OneRoutePerAddress
<1> QED
  BY <1>1, <1>2, <1>3, <1>4, <1>11, <1>12, ParametersAssumption DEF QueuesOK

LEMMA QueuesAccept ==
    ASSUME QueuesOK, HandleAccept,
           \/ conns' = conns
           \/ backlog # <<>> /\ DOMAIN conns' \subseteq DOMAIN conns \cup {Head(backlog).addr}
    PROVE  QueuesOK'
<1>1. requests' = requests + 1 /\ requests + 1 \in CallIds /\ requests \in Nat /\ requests' \in Nat
      /\ requests' \in 0 .. MaxAccepts
  BY ParametersAssumption, QueueTypes DEF HandleAccept, CallIds, QueuesOK
<1>2. accepts \in Seq(CallIds) /\ backlog \in Seq(Pending) /\ answered \in Seq(CallIds)
  BY QueueTypes
<1>3. (\A i \in DOMAIN answered : answered[i] < requests + 1)
      /\ (\A i \in DOMAIN accepts : accepts[i] < requests + 1)
  BY <1>1, QueueTypes DEF QueuesOK, AnswersOK
<1>4. CASE backlog # <<>>
  <2>1. /\ answered' = Append(answered, requests + 1) /\ backlog' = Tail(backlog)
        /\ accepts' = accepts
    BY <1>4 DEF HandleAccept, ConnectionNew
  <2>2. accepts' = <<>> /\ DOMAIN accepts' = {}
    BY <1>4, <2>1, NoneFacts DEF QueuesOK, OneRoutePerAddress
  <2>3. answered' \in Seq(CallIds) /\ AnswersOK'
    <3>1. Part(accepts', accepts) /\ accepts' \in Seq(CallIds)
      BY <1>2, <2>1, Itself
    <3>2. \A i \in DOMAIN accepts' : requests + 1 < accepts'[i]
      BY <2>2
    <3>3. requests + 1 <= requests' /\ requests <= requests'
      BY <1>1
    <3> QED
      BY <1>1, <1>3, <2>1, <3>1, <3>2, <3>3, AnswersMore
  <2>4. /\ backlog' \in Seq(Pending) /\ Len(backlog') = Len(backlog) - 1
        /\ \A i \in DOMAIN backlog' : i + 1 \in DOMAIN backlog /\ backlog'[i] = backlog[i + 1] /\ i \in Nat
                                      /\ i # 0
    BY <1>2, <1>4, <2>1
  <2>5. Head(backlog) = backlog[1] /\ 1 \in DOMAIN backlog
    BY <1>2, <1>4
  <2>6. \A i, j \in DOMAIN backlog' :
            /\ backlog'[i].addr = backlog'[j].addr => i = j
            /\ i < j => backlog'[i].ttl <= backlog'[j].ttl
    <3>1. \A i, j \in DOMAIN backlog' : (i + 1 = j + 1 => i = j) /\ (i < j => i + 1 < j + 1)
      BY <2>4
    <3> QED
      BY <2>4, <3>1 DEF QueuesOK, OneRoutePerAddress
  <2>7. \A i \in DOMAIN backlog' : backlog'[i].addr \notin DOMAIN conns'
    <3>1. \A i \in DOMAIN backlog' : backlog'[i].addr # backlog[1].addr
      <4>1. \A i \in DOMAIN backlog' : i + 1 # 1
        BY <2>4
      <4> QED
        BY <2>4, <2>5, <4>1 DEF QueuesOK, OneRoutePerAddress
    <3>2. \A i \in DOMAIN backlog' : backlog'[i].addr \notin DOMAIN conns
      BY <2>4 DEF QueuesOK, OneRoutePerAddress
    <3>3. DOMAIN conns' \subseteq DOMAIN conns \cup {backlog[1].addr}
      BY <2>5
    <3> QED
      BY <3>1, <3>2, <3>3
  <2>8. OneRoutePerAddress'
    BY <2>2, <2>6, <2>7 DEF OneRoutePerAddress
  <2>9. Len(backlog') <= Backlog
    BY <1>2, <2>4, ParametersAssumption DEF QueuesOK
  <2> QED
    BY <1>1, <1>2, <2>1, <2>3, <2>4, <2>6, <2>8, <2>9 DEF QueuesOK
<1>5. CASE backlog = <<>>
  <2>1. /\ accepts' = Append(accepts, requests + 1)
        /\ UNCHANGED <<backlog, conns, answered>>
    BY <1>5 DEF HandleAccept
  <2>2. /\ accepts' \in Seq(CallIds) /\ accepts'[Len(accepts) + 1] = requests + 1
        /\ \A j \in DOMAIN accepts' :
                \/ j = Len(accepts) + 1
                \/ j \in DOMAIN accepts /\ j <= Len(accepts) /\ accepts'[j] = accepts[j]
    BY <1>1, <1>2, <2>1, AppendFacts
  <2>3. \A i, j \in DOMAIN accepts' : i < j => accepts'[i] < accepts'[j]
    <3>1. ASSUME NEW i \in DOMAIN accepts', NEW j \in DOMAIN accepts', i < j
          PROVE  accepts'[i] < accepts'[j]
      <4>1. Len(accepts) \in Nat /\ i \in Int /\ j \in Int
        BY <1>2, <2>2
      <4>2. i \in DOMAIN accepts /\ accepts'[i] = accepts[i]
        BY <2>2, <3>1, <4>1
      <4>3. CASE j = Len(accepts) + 1
        BY <1>3, <2>2, <4>2, <4>3
      <4>4. CASE j # Len(accepts) + 1
        BY <2>2, <3>1, <4>2, <4>4 DEF QueuesOK, AnswersOK
      <4> QED
        BY <4>3, <4>4
    <3> QED
      BY <3>1
  <2>4. \A j \in DOMAIN accepts' : accepts'[j] <= requests'
    BY <1>1, <1>3, <2>2, QueueTypes
  <2>5. \A i \in DOMAIN answered, j \in DOMAIN accepts' : answered[i] < accepts'[j]
    BY <1>3, <2>2 DEF QueuesOK, AnswersOK
  <2>6. \A i \in DOMAIN answered : answered[i] <= requests'
    BY <1>1, QueueTypes DEF QueuesOK, AnswersOK
  <2>7. AnswersOK'
    BY <2>1, <2>3, <2>4, <2>5, <2>6 DEF AnswersOK, CompletedInOrder, QueuesOK
  <2>8. OneRoutePerAddress'
    BY <1>5, <2>1 DEF QueuesOK, OneRoutePerAddress
  <2> QED
    BY <1>1, <2>1, <2>2, <2>7, <2>8 DEF QueuesOK
<1> QED
  BY <1>4, <1>5

\* The packet p joins the pending connection x, or starts it; t is what else
\* there is.
Joined(p, t, x) ==
    /\ t \in Seq(Pending) /\ Part(t, backlog) /\ Len(t) < Backlog
    /\ \A j \in DOMAIN t : t[j].addr # p.from
    /\ x \in Pending /\ x.addr = p.from /\ x.ttl = Timeout
    /\ \/ x.packets = <<p>>
       \/ \E i \in DOMAIN backlog :
            backlog[i].addr = p.from /\ x.packets = Append(backlog[i].packets, p)

LEMMA QueuedFacts ==
    ASSUME QueuesOK, NEW p \in Packet
    PROVE  \E t, x : Joined(p, t, x) /\ Queued(backlog, p) = Append(t, x)
<1> DEFINE room == IF Len(backlog) >= Backlog THEN Tail(backlog) ELSE backlog
           same == {i \in DOMAIN room : room[i].addr = p.from}
<1>1. backlog \in Seq(Pending) /\ Len(backlog) \in Nat /\ Len(backlog) <= Backlog
      /\ Backlog \in Nat /\ Backlog >= 1 /\ Timeout \in Nat
  BY ParametersAssumption DEF QueuesOK
<1>2. room \in Seq(Pending) /\ Part(room, backlog) /\ Len(room) < Backlog
  <2>1. CASE Len(backlog) >= Backlog
    <3>1. backlog # <<>>
      BY <1>1, <2>1
    <3>2. Tail(backlog) \in Seq(Pending) /\ Part(Tail(backlog), backlog)
          /\ Len(Tail(backlog)) = Len(backlog) - 1
      BY <1>1, <3>1, TailPart
    <3>3. room = Tail(backlog)
      BY <2>1
    <3> HIDE DEF room
    <3>4. Len(room) < Backlog
      BY <1>1, <3>2, <3>3
    <3> QED
      BY <3>2, <3>3, <3>4
  <2>2. CASE ~(Len(backlog) >= Backlog)
    <3>1. room = backlog
      BY <2>2
    <3>2. Part(backlog, backlog)
      BY <1>1, Itself
    <3> QED
      BY <1>1, <2>2, <3>1, <3>2
  <2> QED
    BY <2>1, <2>2
<1>3. p.from \in Addresses /\ p \in Packet
  BY DEF Packet
<1>4. Queued(backlog, p) =
        IF same = {}
        THEN Append(room, [addr |-> p.from, ttl |-> Timeout, packets |-> <<p>>])
        ELSE Append(RemoveAt(room, CHOOSE j \in same : TRUE),
                    [addr |-> p.from, ttl |-> Timeout,
                     packets |-> Append(room[CHOOSE j \in same : TRUE].packets, p)])
  BY DEF Queued
<1>5. PICK m \in [DOMAIN room -> DOMAIN backlog] :
        /\ \A j \in DOMAIN room : room[j] = backlog[m[j]]
        /\ \A j, k \in DOMAIN room : j < k => m[j] < m[k]
  BY <1>2 DEF Part
<1>6. \A i : i \in same <=> i \in DOMAIN room /\ room[i].addr = p.from
  OBVIOUS
<1> HIDE DEF room, same
<1>7. CASE same = {}
  <2> DEFINE x == [addr |-> p.from, ttl |-> Timeout, packets |-> <<p>>]
  <2>1. x.addr = p.from /\ x.ttl = Timeout /\ x.packets = <<p>>
    OBVIOUS
  <2>2. x \in Pending
    <3>1. <<p>> \in Seq(Packet) /\ Timeout \in 0 .. Timeout
      BY <1>1
    <3> QED
      BY <1>3, <3>1 DEF Pending
  <2>3. \A j \in DOMAIN room : room[j].addr # p.from
    BY <1>6, <1>7
  <2>4. Queued(backlog, p) = Append(room, x)
    BY <1>4, <1>7
  <2> HIDE DEF x
  <2>5. Joined(p, room, x)
    BY <1>2, <2>1, <2>2, <2>3 DEF Joined
  <2> QED
    BY <2>4, <2>5
<1>8. CASE same # {}
  <2> DEFINE i == CHOOSE j \in same : TRUE
             t == RemoveAt(room, i)
             y == Append(room[i].packets, p)
             x == [addr |-> p.from, ttl |-> Timeout, packets |-> y]
  <2>1. Queued(backlog, p) = Append(t, x)
    BY <1>4, <1>8
  <2>2. i \in DOMAIN room /\ room[i].addr = p.from
    BY <1>6, <1>8
  <2> HIDE DEF i
  <2>3. /\ t \in Seq(Pending) /\ Len(t) = Len(room) - 1 /\ Part(t, room)
        /\ \A j \in DOMAIN t : \E k \in DOMAIN room : k # i /\ t[j] = room[k]
    BY <1>2, <2>2, RemovedPart
  <2> HIDE DEF t
  <2>4. Part(t, backlog) /\ Len(t) < Backlog
    <3>1. Len(room) \in Nat /\ Len(t) \in Nat
      BY <1>2, <2>3
    <3> QED
      BY <1>1, <1>2, <2>3, <3>1, PartOfPart
  <2>5. \A j \in DOMAIN t : t[j].addr # p.from
    <3>1. \A k \in DOMAIN room : k # i => m[k] # m[i]
      <4>1. ASSUME NEW k \in DOMAIN room, k # i PROVE m[k] # m[i]
        <5>1. k \in Int /\ i \in Int /\ m[k] \in Int /\ m[i] \in Int
          BY <1>1, <1>2, <2>2
        <5>2. k < i \/ i < k
          BY <4>1, <5>1
        <5> QED
          BY <1>5, <2>2, <5>1, <5>2
      <4> QED
        BY <4>1
    <3>2. \A k \in DOMAIN room : k # i => room[k].addr # p.from
      BY <1>5, <2>2, <3>1 DEF QueuesOK, OneRoutePerAddress
    <3> QED
      BY <2>3, <3>2
  <2>6. m[i] \in DOMAIN backlog /\ backlog[m[i]] = room[i]
    BY <1>5, <2>2
  <2>7. y \in Seq(Packet)
    <3>1. room[i].packets \in Seq(Packet)
      BY <1>1, <2>6, PendingFields
    <3> QED
      BY <1>3, <3>1
  <2>8. y = Append(backlog[m[i]].packets, p) /\ backlog[m[i]].addr = p.from
    BY <2>2, <2>6
  <2> HIDE DEF y
  <2>9. x.addr = p.from /\ x.ttl = Timeout /\ x.packets = y
    OBVIOUS
  <2>10. x \in Pending
    BY <1>1, <1>3, <2>7 DEF Pending
  <2> HIDE DEF x
  <2>11. Joined(p, t, x)
    BY <2>3, <2>4, <2>5, <2>6, <2>8, <2>9, <2>10 DEF Joined
  <2> QED
    BY <2>1, <2>11
<1> QED
  BY <1>7, <1>8

LEMMA QueuesPending ==
    ASSUME QueuesOK, NEW p \in Packet, p.from \notin DOMAIN conns, accepts = <<>>,
           backlog' = Queued(backlog, p), UNCHANGED <<accepts, conns, answered, requests>>
    PROVE  QueuesOK'
<1>1. PICK t, x : Joined(p, t, x) /\ backlog' = Append(t, x)
  BY QueuedFacts
<1>2. /\ t \in Seq(Pending) /\ Len(t) < Backlog /\ \A j \in DOMAIN t : t[j].addr # p.from
      /\ x \in Pending /\ x.addr = p.from /\ x.ttl = Timeout
  BY <1>1 DEF Joined
<1>3. PICK m \in [DOMAIN t -> DOMAIN backlog] :
        /\ \A j \in DOMAIN t : t[j] = backlog[m[j]]
        /\ \A j, k \in DOMAIN t : j < k => m[j] < m[k]
  BY <1>1 DEF Joined, Part
<1>4. /\ backlog' \in Seq(Pending) /\ Len(backlog') = Len(t) + 1
      /\ backlog'[Len(t) + 1] = x
      /\ \A j \in DOMAIN backlog' :
            \/ j = Len(t) + 1
            \/ j \in DOMAIN t /\ j <= Len(t) /\ backlog'[j] = t[j]
  BY <1>1, <1>2, AppendFacts
<1>5. \A j \in DOMAIN t : m[j] \in DOMAIN backlog /\ m[j] \in Int /\ j \in Int
  BY <1>2, <1>3, QueueTypes
<1>6. \A j, k \in DOMAIN t : t[j].addr = t[k].addr => j = k
  <2>1. \A j, k \in DOMAIN t : t[j].addr = t[k].addr => m[j] = m[k]
    BY <1>3 DEF QueuesOK, OneRoutePerAddress
  <2>2. \A j, k \in DOMAIN t : j = k \/ j < k \/ k < j
    BY <1>5
  <2> QED
    BY <1>3, <1>5, <2>1, <2>2
<1>7. OneRoutePerAddress'
  <2>1. \A j \in DOMAIN t : t[j].addr \notin DOMAIN conns
    BY <1>3 DEF QueuesOK, OneRoutePerAddress
  <2>2. \A j \in DOMAIN backlog' : backlog'[j].addr \notin DOMAIN conns'
    BY <1>2, <1>4, <2>1
  <2>3. \A j, k \in DOMAIN backlog' : backlog'[j].addr = backlog'[k].addr => j = k
    BY <1>2, <1>4, <1>6
  <2> QED
    BY <2>2, <2>3 DEF OneRoutePerAddress
<1>8. \A j, k \in DOMAIN backlog' : j < k => backlog'[j].ttl <= backlog'[k].ttl
  <2>1. ASSUME NEW j \in DOMAIN backlog', NEW k \in DOMAIN backlog', j < k
        PROVE  backlog'[j].ttl <= backlog'[k].ttl
    <3>1. j \in Int /\ k \in Int /\ Len(t) \in Nat /\ k <= Len(t) + 1
      BY <1>2, <1>4
    <3>2. j \in DOMAIN t /\ backlog'[j] = t[j]
      BY <1>4, <2>1, <3>1
    <3>3. CASE k = Len(t) + 1
      <4>1. t[j].ttl \in 0 .. Timeout
        BY <1>2, <3>2, PendingFields
      <4> QED
        BY <1>2, <1>4, <3>2, <3>3, <4>1, ParametersAssumption
    <3>4. CASE k # Len(t) + 1
      BY <1>3, <1>4, <2>1, <3>2, <3>4 DEF QueuesOK
    <3> QED
      BY <3>3, <3>4
  <2> QED
    BY <2>1
<1>9. Len(backlog') <= Backlog
  BY <1>2, <1>4, ParametersAssumption
<1>10. AnswersOK'
  BY DEF QueuesOK, AnswersOK, CompletedInOrder
<1> QED
  BY <1>4, <1>7, <1>8, <1>9, <1>10 DEF QueuesOK

-----------------------------------------------------------------------------
(* The packets *)

LEMMA PacketFields ==
    ASSUME NEW q \in Seq(Packet)
    PROVE  \A k \in DOMAIN q : q[k] \in Packet /\ q[k].n \in 1 .. MaxPackets /\ q[k].n \in Nat
<1>1. \A p \in Packet : p.n \in 1 .. MaxPackets /\ p.n \in Nat
  BY DEF Packet
<1>2. \A k \in DOMAIN q : q[k] \in Packet
  OBVIOUS
<1> QED
  BY <1>1, <1>2

\* Later packets, and packets from elsewhere, do not matter to a queue.
LEMMA HoldsStill ==
    ASSUME NEW q \in Seq(Packet), NEW a, NEW src, NEW src2, NEW r \in Nat, NEW r2 \in Nat,
           NEW snt, NEW snt2, Holds(q, a, src, r, snt), r <= r2,
           \A n \in 1 .. MaxPackets : n <= r => src2[n] = src[n],
           \A n \in 1 .. MaxPackets : n <= r /\ src[n] = a /\ snt[n] = 0 => snt2[n] = 0
    PROVE  Holds(q, a, src2, r2, snt2)
  BY PacketFields DEF Holds

LEMMA HoldsMore ==
    ASSUME NEW q \in Seq(Packet), NEW p \in Packet, NEW src, NEW r \in Nat, NEW r2 \in Nat, NEW snt,
           Holds(q, p.from, src, r, snt), p.n = r + 1, r2 = r + 1,
           src[r + 1] = p.from, snt[r + 1] = 0
    PROVE  Holds(Append(q, p), p.from, src, r2, snt)
<1> DEFINE t == Append(q, p)
<1>1. \A k \in DOMAIN t : \/ k = Len(q) + 1 /\ t[k] = p
                          \/ k \in DOMAIN q /\ t[k] = q[k]
  BY AppendFacts
<1>2. \A k \in DOMAIN q : q[k].n <= r /\ q[k].n \in Nat /\ src[q[k].n] = p.from /\ snt[q[k].n] = 0
                          /\ q[k].from = p.from
  BY PacketFields DEF Holds
<1>3. \A j, k \in DOMAIN q : q[j].n = q[k].n => j = k
  BY DEF Holds
<1> HIDE DEF t
<1>4. \A k \in DOMAIN t : t[k].from = p.from /\ src[t[k].n] = p.from /\ t[k].n <= r2 /\ snt[t[k].n] = 0
  BY <1>1, <1>2
<1>5. \A j, k \in DOMAIN t : t[j].n = t[k].n => j = k
  BY <1>1, <1>2, <1>3
<1> QED
  BY <1>4, <1>5 DEF Holds, t

LEMMA HoldsOne ==
    ASSUME NEW p \in Packet, NEW src, NEW r, NEW snt,
           p.n <= r, src[p.n] = p.from, snt[p.n] = 0
    PROVE  Holds(<<p>>, p.from, src, r, snt)
<1> DEFINE t == <<p>>
<1>1. DOMAIN t = {1} /\ t[1] = p
  BY OneFacts
<1> HIDE DEF t
<1>2. Holds(t, p.from, src, r, snt)
  BY <1>1 DEF Holds
<1> QED
  BY <1>2 DEF t

LEMMA HoldsNone ==
    ASSUME NEW a, NEW src, NEW r, NEW snt
    PROVE  Holds(<<>>, a, src, r, snt)
<1> DEFINE t == <<>>
<1>1. DOMAIN t = {}
  OBVIOUS
<1> HIDE DEF t
<1>2. Holds(t, a, src, r, snt)
  BY <1>1 DEF Holds
<1> QED
  BY <1>2 DEF t

\* Packets stay where they are, move from a pending connection to an active one
\* or are dropped.
LEMMA PacketsKept ==
    ASSUME PacketsOK, UNCHANGED <<received, sent>>,
           \A a \in DOMAIN conns' :
                \/ a \in DOMAIN conns /\ conns'[a].q = conns[a].q
                \/ \E i \in DOMAIN backlog : backlog[i].addr = a /\ conns'[a].q = backlog[i].packets,
           \A i \in DOMAIN backlog' : \E j \in DOMAIN backlog :
                backlog'[i].addr = backlog[j].addr /\ backlog'[i].packets = backlog[j].packets
    PROVE  PacketsOK'
<1>1. PICK src \in [1 .. received -> Addresses] :
        /\ \A a \in DOMAIN conns : Holds(conns[a].q, a, src, received, sent)
        /\ \A i \in DOMAIN backlog :
            Holds(backlog[i].packets, backlog[i].addr, src, received, sent)
  BY DEF PacketsOK
<1>2. received' = received /\ sent' = sent
  OBVIOUS
<1>3. \A a \in DOMAIN conns' : Holds(conns'[a].q, a, src, received', sent')
  <2>1. ASSUME NEW a \in DOMAIN conns' PROVE Holds(conns'[a].q, a, src, received', sent')
    <3>1. CASE a \in DOMAIN conns /\ conns'[a].q = conns[a].q
      BY <1>1, <1>2, <3>1
    <3>2. ASSUME NEW i \in DOMAIN backlog, backlog[i].addr = a, conns'[a].q = backlog[i].packets
          PROVE  Holds(conns'[a].q, a, src, received', sent')
      BY <1>1, <1>2, <3>2
    <3> QED
      BY <3>1, <3>2
  <2> QED
    BY <2>1
<1>4. \A i \in DOMAIN backlog' :
        Holds(backlog'[i].packets, backlog'[i].addr, src, received', sent')
  <2>1. ASSUME NEW i \in DOMAIN backlog'
        PROVE  Holds(backlog'[i].packets, backlog'[i].addr, src, received', sent')
    <3>1. PICK j \in DOMAIN backlog :
            backlog'[i].addr = backlog[j].addr /\ backlog'[i].packets = backlog[j].packets
      OBVIOUS
    <3> QED
      BY <1>1, <1>2, <3>1
  <2> QED
    BY <2>1
<1>5. /\ received' \in 0 .. MaxPackets /\ sent' \in [1 .. MaxPackets -> Nat]
      /\ \A n \in 1 .. MaxPackets : sent'[n] \in {0, 1} /\ (n > received' => sent'[n] = 0)
  BY <1>2 DEF PacketsOK
<1> QED
  BY <1>1, <1>3, <1>4, <1>5 DEF PacketsOK

\* The packet p is the next one; it goes to the end of a queue of its address.
LEMMA PacketsArrived ==
    ASSUME TablesOK, QueuesOK, PacketsOK, NEW p \in Packet,
           received < MaxPackets, p.n = received + 1, received' = received + 1, sent' = sent,
           \A a \in DOMAIN conns' :
                \/ a \in DOMAIN conns /\ conns'[a].q = conns[a].q
                \/ a = p.from /\ conns'[a].q = <<p>>
                \/ a = p.from /\ a \in DOMAIN conns /\ conns'[a].q = Append(conns[a].q, p),
           \A i \in DOMAIN backlog' :
                \/ \E j \in DOMAIN backlog : backlog'[i].addr = backlog[j].addr
                                             /\ backlog'[i].packets = backlog[j].packets
                \/ backlog'[i].addr = p.from /\ backlog'[i].packets = <<p>>
                \/ /\ backlog'[i].addr = p.from
                   /\ \E j \in DOMAIN backlog : backlog[j].addr = p.from
                                /\ backlog'[i].packets = Append(backlog[j].packets, p)
    PROVE  PacketsOK'
<1>1. PICK src \in [1 .. received -> Addresses] :
        /\ \A a \in DOMAIN conns : Holds(conns[a].q, a, src, received, sent)
        /\ \A i \in DOMAIN backlog :
            Holds(backlog[i].packets, backlog[i].addr, src, received, sent)
  BY DEF PacketsOK
<1>2. /\ received \in Nat /\ received' \in Nat /\ received' = received + 1 /\ received <= received'
      /\ received' \in 0 .. MaxPackets /\ received + 1 \in 1 .. MaxPackets /\ MaxPackets \in Nat
  BY ParametersAssumption DEF PacketsOK
<1>3. sent[received + 1] = 0
  BY <1>2 DEF PacketsOK
<1>4. p.from \in Addresses
  BY DEF Packet
<1> DEFINE src2 == [n \in 1 .. received' |-> IF n = received + 1 THEN p.from ELSE src[n]]
<1>5. /\ src2 \in [1 .. received' -> Addresses] /\ src2[received + 1] = p.from
      /\ \A n \in 1 .. MaxPackets : n <= received => src2[n] = src[n]
  BY <1>2, <1>4
<1> HIDE DEF src2
<1>6. ASSUME NEW q \in Seq(Packet), NEW a, Holds(q, a, src, received, sent)
      PROVE  /\ Holds(q, a, src2, received, sent)
             /\ Holds(q, a, src2, received', sent')
  <2>1. \A n \in 1 .. MaxPackets : n <= received /\ src[n] = a /\ sent[n] = 0 => sent'[n] = 0
    OBVIOUS
  <2>2. Holds(q, a, src2, received, sent)
    BY <1>2, <1>5, <1>6, HoldsStill
  <2>3. Holds(q, a, src2, received', sent')
    BY <1>2, <1>5, <1>6, <2>1, HoldsStill
  <2> QED
    BY <2>2, <2>3
<1>7. Holds(<<p>>, p.from, src2, received', sent')
  <2>1. p.n <= received' /\ src2[p.n] = p.from /\ sent'[p.n] = 0
    BY <1>2, <1>3, <1>5
  <2> QED
    BY <2>1, HoldsOne, Zenon
<1>8. ASSUME NEW q \in Seq(Packet), Holds(q, p.from, src, received, sent)
      PROVE  Holds(Append(q, p), p.from, src2, received', sent')
  BY <1>2, <1>3, <1>5, <1>6, <1>8, HoldsMore
<1>9. \A a \in DOMAIN conns : conns[a].q \in Seq(Packet)
  BY IdsUnique, ConnectionFields
<1>10. \A i \in DOMAIN backlog : backlog[i].packets \in Seq(Packet)
  BY QueueTypes, PendingFields
<1>11. ASSUME NEW a \in DOMAIN conns' PROVE Holds(conns'[a].q, a, src2, received', sent')
  <2>1. CASE a \in DOMAIN conns /\ conns'[a].q = conns[a].q
    BY <1>1, <1>6, <1>9, <2>1
  <2>2. CASE a = p.from /\ conns'[a].q = <<p>>
    BY <1>7, <2>2, Zenon
  <2>3. CASE a = p.from /\ a \in DOMAIN conns /\ conns'[a].q = Append(conns[a].q, p)
    BY <1>1, <1>8, <1>9, <2>3
  <2> QED
    BY <2>1, <2>2, <2>3, Zenon
<1>12. ASSUME NEW i \in DOMAIN backlog'
       PROVE  Holds(backlog'[i].packets, backlog'[i].addr, src2, received', sent')
  <2>1. ASSUME NEW j \in DOMAIN backlog, backlog'[i].addr = backlog[j].addr,
               backlog'[i].packets = backlog[j].packets
        PROVE  Holds(backlog'[i].packets, backlog'[i].addr, src2, received', sent')
    BY <1>1, <1>6, <1>10, <2>1
  <2>2. CASE backlog'[i].addr = p.from /\ backlog'[i].packets = <<p>>
    BY <1>7, <2>2, Zenon
  <2>3. ASSUME NEW j \in DOMAIN backlog, backlog'[i].addr = p.from, backlog[j].addr = p.from,
               backlog'[i].packets = Append(backlog[j].packets, p)
        PROVE  Holds(backlog'[i].packets, backlog'[i].addr, src2, received', sent')
    BY <1>1, <1>8, <1>10, <2>3
  <2> QED
    BY <2>1, <2>2, <2>3, Zenon
<1>13. /\ received' \in 0 .. MaxPackets /\ sent' \in [1 .. MaxPackets -> Nat]
       /\ \A n \in 1 .. MaxPackets : sent'[n] \in {0, 1} /\ (n > received' => sent'[n] = 0)
  BY <1>2 DEF PacketsOK
<1> QED
  BY <1>5, <1>11, <1>12, <1>13 DEF PacketsOK

\* The queue of a connection is sent.
LEMMA PacketsFlushed ==
    ASSUME TablesOK, QueuesOK, PacketsOK, NEW a \in DOMAIN conns, Flush(a)
    PROVE  PacketsOK'
<1>1. PICK src \in [1 .. received -> Addresses] :
        /\ \A b \in DOMAIN conns : Holds(conns[b].q, b, src, received, sent)
        /\ \A i \in DOMAIN backlog :
            Holds(backlog[i].packets, backlog[i].addr, src, received, sent)
  BY DEF PacketsOK
<1> DEFINE q == conns[a].q
<1>2. q \in Seq(Packet) /\ Holds(q, a, src, received, sent)
  BY <1>1, IdsUnique, ConnectionFields
<1>3. /\ UNCHANGED <<received, backlog>>
      /\ sent' = [n \in 1 .. MaxPackets |-> sent[n] + Cardinality({k \in DOMAIN q : q[k].n = n})]
      /\ DOMAIN conns' = DOMAIN conns /\ conns'[a].q = <<>>
      /\ \A b \in DOMAIN conns : b # a => conns'[b] = conns[b]
  <2>0. conns[a] \in Connection
    BY IdsUnique
  <2>1. conns' = [conns EXCEPT ![a] = [Touched(conns[a]) EXCEPT !.flush = FALSE, !.q = <<>>]]
    BY DEF Flush
  <2>2. [Touched(conns[a]) EXCEPT !.flush = FALSE, !.q = <<>>].q = <<>>
    BY <2>0, FlushedFields
  <2>3. DOMAIN conns' = DOMAIN conns /\ conns'[a].q = <<>>
        /\ \A b \in DOMAIN conns : b # a => conns'[b] = conns[b]
    BY <2>1, <2>2 DEF TablesOK, TablesMapped
  <2> QED
    BY <2>3 DEF Flush
<1> HIDE DEF q
<1>4. ASSUME NEW n \in 1 .. MaxPackets
      PROVE  \/ sent'[n] = sent[n]
             \/ sent'[n] = 1 /\ sent[n] = 0 /\ n <= received /\ src[n] = a
  <2> DEFINE I == {k \in DOMAIN q : q[k].n = n}
  <2>1. sent'[n] = sent[n] + Cardinality(I) /\ sent[n] \in Nat
    BY <1>3 DEF PacketsOK
  <2>2. CASE I = {}
    <3>1. Cardinality(I) = 0
      BY <2>2, FS_EmptySet
    <3> HIDE DEF I
    <3> QED
      BY <2>1, <3>1
  <2>3. ASSUME NEW k \in I
        PROVE  sent'[n] = 1 /\ sent[n] = 0 /\ n <= received /\ src[n] = a
    <3>1. k \in DOMAIN q /\ q[k].n = n
      BY <2>3
    <3>2. sent[n] = 0 /\ n <= received /\ src[n] = a
      BY <1>2, <3>1 DEF Holds
    <3>3. I = {k}
      BY <1>2, <3>1 DEF Holds
    <3>4. Cardinality({k}) = 1
      BY FS_Singleton
    <3> HIDE DEF I
    <3> QED
      BY <2>1, <3>2, <3>3, <3>4
  <2> QED
    BY <2>2, <2>3
<1>5. /\ received' \in 0 .. MaxPackets /\ received \in Nat
      /\ \A n \in 1 .. MaxPackets : sent'[n] \in {0, 1} /\ (n > received' => sent'[n] = 0)
  BY <1>3, <1>4 DEF PacketsOK
<1>6. sent' \in [1 .. MaxPackets -> Nat]
  <2>1. \A n \in 1 .. MaxPackets : sent'[n] \in Nat
    BY <1>5
  <2> QED
    BY <1>3, <2>1
<1>7. ASSUME NEW t \in Seq(Packet), NEW b, b # a, Holds(t, b, src, received, sent)
      PROVE  Holds(t, b, src, received', sent')
  <2>1. \A n \in 1 .. MaxPackets : n <= received /\ src[n] = b /\ sent[n] = 0 => sent'[n] = 0
    BY <1>4, <1>7
  <2>2. received' = received /\ received' \in Nat /\ received <= received'
    BY <1>3, <1>5
  <2> QED
    BY <1>5, <1>7, <2>1, <2>2, HoldsStill
<1>8. ASSUME NEW b \in DOMAIN conns' PROVE Holds(conns'[b].q, b, src, received', sent')
  <2>1. CASE b = a
    BY <1>3, <2>1, HoldsNone
  <2>2. CASE b # a
    <3>1. conns[b].q \in Seq(Packet) /\ Holds(conns[b].q, b, src, received, sent)
          /\ conns'[b].q = conns[b].q
      BY <1>1, <1>3, <2>2, IdsUnique, ConnectionFields
    <3> QED
      BY <1>7, <2>2, <3>1
  <2> QED
    BY <2>1, <2>2
<1>9. ASSUME NEW i \in DOMAIN backlog'
      PROVE  Holds(backlog'[i].packets, backlog'[i].addr, src, received', sent')
  <2>1. /\ backlog' = backlog /\ backlog[i].addr # a /\ backlog[i].packets \in Seq(Packet)
        /\ Holds(backlog[i].packets, backlog[i].addr, src, received, sent)
    BY <1>1, <1>3, QueueTypes, PendingFields DEF QueuesOK, OneRoutePerAddress
  <2> QED
    BY <1>7, <2>1
<1>10. src \in [1 .. received' -> Addresses]
  BY <1>3
<1> QED
  BY <1>5, <1>6, <1>8, <1>9, <1>10 DEF PacketsOK

-----------------------------------------------------------------------------
(* The timer *)

LEMMA ExpirationTimeoutType ==
    ASSUME NEW cs, \A a \in DOMAIN cs : cs[a] \in Connection, NEW bl \in Seq(Pending)
    PROVE  ExpirationTimeout(cs, bl) \in {NoTimer} \cup 0 .. Timeout
<1>1. CASE DOMAIN cs = {}
  BY <1>1 DEF ExpirationTimeout
<1>2. CASE DOMAIN cs # {}
  <2> DEFINE H == IF bl = <<>> THEN {} ELSE {Head(bl).ttl}
             T == {cs[a].ttl : a \in DOMAIN cs} \cup H
  <2>1. H \subseteq 0 .. Timeout
    <3>1. CASE bl = <<>>
      BY <3>1
    <3>2. CASE bl # <<>>
      <4>1. Head(bl) \in Pending
        BY <3>2
      <4>2. Head(bl).ttl \in 0 .. Timeout
        BY <4>1, PendingFields
      <4> QED
        BY <3>2, <4>2, Zenon
    <3> QED
      BY <3>1, <3>2
  <2> HIDE DEF H
  <2>2. T # {}
    BY <1>2
  <2>3. T \subseteq 0 .. Timeout
    BY <2>1, ConnectionFields
  <2>4. ExpirationTimeout(cs, bl) = Min(T)
    BY <1>2 DEF ExpirationTimeout, H
  <2> HIDE DEF T
  <2>5. T \in SUBSET Nat
    BY <2>3, ParametersAssumption
  <2>6. Min(T) \in T
    BY <2>2, <2>5, LeastOf
  <2> QED
    BY <2>3, <2>4, <2>6
<1> QED
  BY <1>1, <1>2

LEMMA ScheduleType ==
    ASSUME NEW cs, \A a \in DOMAIN cs : cs[a] \in Connection, NEW bl \in Seq(Pending),
           NEW t \in {NoTimer} \cup 0 .. Timeout
    PROVE  Schedule(t, cs, bl) \in {NoTimer} \cup 0 .. Timeout
  BY ExpirationTimeoutType DEF Schedule

LEMMA ConnectionsBefore ==
    ASSUME TablesOK, QueuesOK
    PROVE  (\A a \in DOMAIN conns : conns[a] \in Connection) /\ backlog \in Seq(Pending)
  BY IdsUnique, QueueTypes

LEMMA ConnectionsAfter ==
    ASSUME TablesOK', QueuesOK'
    PROVE  (\A a \in DOMAIN conns' : conns'[a] \in Connection) /\ backlog' \in Seq(Pending)
  BY DEF TablesOK, TablesMapped, QueuesOK

LEMMA TimerTick ==
    ASSUME TimerOK, Tick
    PROVE  TimerOK'
<1>1. timer' = IF timer = NoTimer THEN timer ELSE Max({timer - 1, 0})
  BY DEF Tick
<1>2. CASE timer = NoTimer
  BY <1>1, <1>2 DEF TimerOK
<1>3. CASE timer # NoTimer
  <2>1. timer \in Nat /\ timer \in 0 .. Timeout /\ Timeout \in Nat
    BY <1>3, ParametersAssumption DEF TimerOK
  <2>2. timer' = IF timer = 0 THEN 0 ELSE timer - 1
    BY <1>1, <1>3, <2>1, LessOne
  <2>3. timer' \in 0 .. Timeout
    BY <2>1, <2>2
  <2> QED
    BY <2>3 DEF TimerOK
<1> QED
  BY <1>2, <1>3

-----------------------------------------------------------------------------
(* The steps *)

LEMMA ListenTick ==
    ASSUME ListenInv, Tick
    PROVE  ListenInv'
<1>1. TablesOK /\ QueuesOK /\ TimerOK /\ PacketsOK
  BY DEF ListenInv
<1>2. /\ conns' = [a \in DOMAIN conns |-> [conns[a] EXCEPT !.ttl = Max({@ - 1, 0})]]
      /\ backlog' = [i \in DOMAIN backlog |-> [backlog[i] EXCEPT !.ttl = Max({@ - 1, 0})]]
      /\ UNCHANGED <<up, idMap, table, nextId, caller, received, sent>>
  BY DEF Tick, history
<1>3. ASSUME NEW a \in DOMAIN conns
      PROVE  /\ conns'[a] \in Connection /\ conns'[a].id = conns[a].id
             /\ conns'[a].rid = conns[a].rid /\ conns'[a].q = conns[a].q
  <2>1. conns[a] \in Connection /\ conns[a].ttl \in 0 .. Timeout /\ Timeout \in Nat
    BY <1>1, IdsUnique, ConnectionFields, ParametersAssumption
  <2> DEFINE t == Max({conns[a].ttl - 1, 0})
  <2>2. t = IF conns[a].ttl = 0 THEN 0 ELSE conns[a].ttl - 1
    BY <2>1, LessOne
  <2>3. t \in 0 .. Timeout
    BY <2>1, <2>2
  <2>4. conns'[a] = [conns[a] EXCEPT !.ttl = t]
    BY <1>2
  <2> HIDE DEF t
  <2> QED
    BY <2>1, <2>3, <2>4 DEF Connection
<1>4. DOMAIN conns' = DOMAIN conns /\ conns' \in [DOMAIN conns -> Connection]
  BY <1>2, <1>3
<1>5. TablesOK'
  BY <1>1, <1>2, <1>3, <1>4, TablesTouched
<1>6. QueuesOK' /\ TimerOK'
  BY <1>1, QueuesTick, TimerTick
<1>7. \A i \in DOMAIN backlog' : i \in DOMAIN backlog /\ backlog'[i].addr = backlog[i].addr
                                 /\ backlog'[i].packets = backlog[i].packets
  <2>1. ASSUME NEW i \in DOMAIN backlog
        PROVE  backlog'[i].addr = backlog[i].addr /\ backlog'[i].packets = backlog[i].packets
    <3>1. backlog[i] \in Pending /\ backlog'[i] = [backlog[i] EXCEPT !.ttl = Max({@ - 1, 0})]
      BY <1>1, <1>2, QueueTypes
    <3> QED
      BY <3>1 DEF Pending
  <2>2. DOMAIN backlog' = DOMAIN backlog
    BY <1>2
  <2> QED
    BY <2>1, <2>2
<1>8. PacketsOK'
  BY <1>1, <1>2, <1>3, <1>4, <1>7, PacketsKept
<1> QED
  BY <1>5, <1>6, <1>8 DEF ListenInv

\* Connections are removed, with or without all or some of what waits.
LEMMA PacketsForgotten ==
    ASSUME TablesOK, PacketsOK, NEW as \in SUBSET DOMAIN conns, Forget(as),
           UNCHANGED <<received, sent>>, Part(backlog', backlog)
    PROVE  PacketsOK' /\ DOMAIN conns' \subseteq DOMAIN conns
<1>1. DOMAIN conns' = DOMAIN conns \ as /\ \A a \in DOMAIN conns' : conns'[a] = conns[a]
  BY DEF Forget, Restrict
<1>2. PICK m \in [DOMAIN backlog' -> DOMAIN backlog] :
        \A j \in DOMAIN backlog' : backlog'[j] = backlog[m[j]]
  BY DEF Part
<1>3. \A i \in DOMAIN backlog' : m[i] \in DOMAIN backlog /\
        backlog'[i].addr = backlog[m[i]].addr /\ backlog'[i].packets = backlog[m[i]].packets
  BY <1>2
<1> QED
  BY <1>1, <1>3, PacketsKept

LEMMA ListenTimerFires ==
    ASSUME ListenInv, TimerFires
    PROVE  ListenInv'
<1>1. TablesOK /\ QueuesOK /\ TimerOK /\ PacketsOK
  BY DEF ListenInv
<1> DEFINE as == {a \in DOMAIN conns : conns[a].ttl = 0}
<1>2. /\ DropExpired /\ Forget(as) /\ caller' = CloseSent(as)
      /\ timer' = ExpirationTimeout(conns', backlog')
      /\ UNCHANGED <<up, nextId, accepts, requests, answered, received, sent>>
  BY DEF TimerFires, history
<1>3. as \in SUBSET DOMAIN conns
  OBVIOUS
<1> HIDE DEF as
<1>4. TablesOK'
  BY <1>1, <1>2, <1>3, TablesForget
<1>5. Part(backlog', backlog)
  <2>1. PICK k \in 0 .. Len(backlog) : backlog' = SubSeq(backlog, k + 1, Len(backlog))
    BY <1>2 DEF DropExpired
  <2> QED
    BY <1>1, <2>1, LaterPart, QueueTypes
<1>6. PacketsOK' /\ DOMAIN conns' \subseteq DOMAIN conns
  BY <1>1, <1>2, <1>3, <1>5, PacketsForgotten
<1>7. QueuesOK'
  BY <1>1, <1>2, <1>6, QueuesExpired
<1>8. TimerOK'
  BY <1>2, <1>4, <1>7, ConnectionsAfter, ExpirationTimeoutType DEF TimerOK
<1> QED
  BY <1>4, <1>6, <1>7, <1>8 DEF ListenInv

\* RemoveConnection and HandleClose
LEMMA ListenForget ==
    ASSUME ListenInv, NEW as \in SUBSET DOMAIN conns, Forget(as), TablesOK',
           UNCHANGED <<accepts, backlog, timer, requests, received, history>>
    PROVE  ListenInv'
<1>1. TablesOK /\ QueuesOK /\ TimerOK /\ PacketsOK
  BY DEF ListenInv
<1>2. UNCHANGED <<accepts, backlog, timer, requests, received, answered, sent>>
  BY DEF history
<1>3. Part(backlog', backlog)
  BY <1>1, <1>2, QueueTypes, Itself
<1>4. PacketsOK' /\ DOMAIN conns' \subseteq DOMAIN conns
  BY <1>1, <1>2, <1>3, PacketsForgotten
<1>5. QueuesOK'
  BY <1>1, <1>2, <1>4, QueuesKept
<1> QED
  BY <1>1, <1>2, <1>4, <1>5 DEF ListenInv, TimerOK

LEMMA ListenRemoveListener ==
    ASSUME ListenInv, RemoveListener
    PROVE  ListenInv'
<1>1. TablesOK /\ QueuesOK /\ TimerOK /\ PacketsOK
  BY DEF ListenInv
<1> DEFINE as == DOMAIN conns
<1>2. /\ up' = FALSE /\ accepts' = <<>> /\ backlog' = <<>> /\ timer' = NoTimer
      /\ Forget(as) /\ caller' = CloseSent(as)
      /\ UNCHANGED <<nextId, requests, answered, received, sent>>
  BY DEF RemoveListener, history
<1>3. TablesOK'
  BY <1>1, <1>2, TablesForget
<1>4. Part(backlog', backlog)
  BY <1>2, NoPart
<1>5. PacketsOK' /\ DOMAIN conns' \subseteq DOMAIN conns
  BY <1>1, <1>2, <1>4, PacketsForgotten
<1>6. QueuesOK'
  BY <1>1, <1>2, <1>5, QueuesPurged
<1>7. TimerOK'
  BY <1>2 DEF TimerOK
<1> QED
  BY <1>3, <1>5, <1>6, <1>7 DEF ListenInv

LEMMA ListenCancel ==
    ASSUME ListenInv, NEW r \in CallIds, HandleCancel(r)
    PROVE  ListenInv'
<1>1. TablesOK /\ QueuesOK /\ TimerOK /\ PacketsOK
  BY DEF ListenInv
<1>2. UNCHANGED <<up, backlog, conns, idMap, table, timer, nextId, caller, received, sent>>
  BY DEF HandleCancel, history
<1>3. TablesOK'
  BY <1>1, <1>2, TablesTouched DEF TablesOK, TablesMapped
<1>4. QueuesOK'
  BY <1>1, QueuesCancel
<1>5. PacketsOK'
  BY <1>1, <1>2, PacketsKept
<1> QED
  BY <1>1, <1>2, <1>3, <1>4, <1>5 DEF ListenInv, TimerOK

\* One connection becomes c, which has the same ids.
LEMMA ConnectionReplaced ==
    ASSUME TablesOK, NEW a \in DOMAIN conns, NEW c \in Connection,
           c.id = conns[a].id, c.rid = conns[a].rid, conns' = [conns EXCEPT ![a] = c],
           UNCHANGED <<up, idMap, table, nextId, caller>>
    PROVE  /\ TablesOK' /\ DOMAIN conns' = DOMAIN conns
           /\ conns'[a] = c /\ \A b \in DOMAIN conns : b # a => conns'[b] = conns[b]
<1>1. /\ DOMAIN conns' = DOMAIN conns
      /\ conns'[a] = c /\ \A b \in DOMAIN conns : b # a => conns'[b] = conns[b]
  BY DEF TablesOK, TablesMapped
<1>2. conns' \in [DOMAIN conns -> Connection]
  BY <1>1 DEF TablesOK, TablesMapped
<1>3. \A b \in DOMAIN conns : conns'[b].id = conns[b].id /\ conns'[b].rid = conns[b].rid
  BY <1>1
<1> QED
  BY <1>1, <1>2, <1>3, TablesTouched

LEMMA ListenFlush ==
    ASSUME ListenInv, NEW a \in DOMAIN conns, Flush(a)
    PROVE  ListenInv'
<1>1. TablesOK /\ QueuesOK /\ TimerOK /\ PacketsOK
  BY DEF ListenInv
<1> DEFINE c == [Touched(conns[a]) EXCEPT !.flush = FALSE, !.q = <<>>]
<1>2. conns[a] \in Connection
  BY <1>1, IdsUnique
<1>3. c \in Connection /\ c.id = conns[a].id /\ c.rid = conns[a].rid
  BY <1>2, FlushedFields
<1>4. /\ conns' = [conns EXCEPT ![a] = c] /\ timer' = Schedule(timer, conns', backlog)
      /\ UNCHANGED <<up, idMap, table, nextId, caller, accepts, backlog, requests, answered>>
  BY DEF Flush
<1> HIDE DEF c
<1>5. TablesOK' /\ DOMAIN conns' = DOMAIN conns
  BY <1>1, <1>3, <1>4, ConnectionReplaced
<1>6. QueuesOK'
  BY <1>1, <1>4, <1>5, QueuesKept
<1>7. PacketsOK'
  BY <1>1, PacketsFlushed
<1>8. TimerOK'
  BY <1>1, <1>4, <1>5, <1>6, ConnectionsAfter, ScheduleType DEF TimerOK
<1> QED
  BY <1>5, <1>6, <1>7, <1>8 DEF ListenInv

LEMMA ListenData ==
    ASSUME ListenInv, NEW i \in ConnIds, HandleData(i)
    PROVE  ListenInv'
<1>1. TablesOK /\ QueuesOK /\ TimerOK /\ PacketsOK
  BY DEF ListenInv
<1> DEFINE a == idMap[i]
           c == Touched(conns[a])
<1>2. i \in table
  BY DEF HandleData
<1>3. a \in DOMAIN conns /\ conns[a] \in Connection
  BY <1>1, <1>2, IdsUnique
<1>4. /\ conns' = [conns EXCEPT ![a] = c] /\ timer' = Schedule(timer, conns', backlog)
      /\ UNCHANGED <<up, idMap, table, nextId, caller, accepts, backlog, requests, answered,
                     received, sent>>
  BY DEF HandleData, history
<1> HIDE DEF a
<1>5. c \in Connection /\ c.id = conns[a].id /\ c.rid = conns[a].rid /\ c.q = conns[a].q
  BY <1>3, TouchedFields
<1> HIDE DEF c
<1>6. /\ TablesOK' /\ DOMAIN conns' = DOMAIN conns
      /\ conns'[a] = c /\ \A b \in DOMAIN conns : b # a => conns'[b] = conns[b]
  BY <1>1, <1>3, <1>4, <1>5, ConnectionReplaced
<1>7. QueuesOK'
  BY <1>1, <1>4, <1>6, QueuesKept
<1>8. PacketsOK'
  <2>1. \A b \in DOMAIN conns' : b \in DOMAIN conns /\ conns'[b].q = conns[b].q
    BY <1>5, <1>6
  <2> QED
    BY <1>1, <1>4, <2>1, PacketsKept
<1>9. TimerOK'
  BY <1>1, <1>4, <1>6, <1>7, ConnectionsAfter, ScheduleType DEF TimerOK
<1> QED
  BY <1>6, <1>7, <1>8, <1>9 DEF ListenInv

LEMMA ListenAccepted ==
    ASSUME ListenInv, NEW i \in ConnIds, HandleAccepted(i)
    PROVE  ListenInv'
<1>1. TablesOK /\ QueuesOK /\ TimerOK /\ PacketsOK
  BY DEF ListenInv
<1>2. UNCHANGED <<accepts, backlog, timer, requests, answered, received, sent>>
  BY DEF HandleAccepted, history
<1>3. TablesOK'
  BY <1>1, TablesAccepted
<1>4. DOMAIN conns' = DOMAIN conns /\ \A b \in DOMAIN conns : conns'[b].q = conns[b].q
  <2>1. CASE i \notin table
    BY <2>1 DEF HandleAccepted
  <2>2. CASE i \in table
    <3> DEFINE a == idMap[i]
               c == [conns[a] EXCEPT !.rid = TRUE, !.flush = TRUE]
    <3>1. a \in DOMAIN conns /\ conns[a] \in Connection
      BY <1>1, <2>2, IdsUnique
    <3>2. conns' = [conns EXCEPT ![a].rid = TRUE, ![a].flush = TRUE]
      BY <2>2 DEF HandleAccepted
    <3>3. DOMAIN conns' = DOMAIN conns /\ \A b \in DOMAIN conns : conns'[b] = IF b = a THEN c ELSE conns[b]
      BY <1>1, <3>1, <3>2 DEF TablesOK, TablesMapped
    <3> HIDE DEF a
    <3>4. c.q = conns[a].q
      BY <3>1 DEF Connection
    <3> HIDE DEF c
    <3> QED
      BY <3>3, <3>4
  <2> QED
    BY <2>1, <2>2
<1>5. QueuesOK'
  BY <1>1, <1>2, <1>4, QueuesKept
<1>6. PacketsOK'
  BY <1>1, <1>2, <1>4, PacketsKept
<1> QED
  BY <1>1, <1>2, <1>3, <1>5, <1>6 DEF ListenInv, TimerOK

LEMMA ArrivedFacts ==
    ASSUME ListenInv, NEW a \in Addresses, Arrives(a)
    PROVE  /\ Arrived(a) \in Packet /\ Arrived(a).from = a /\ Arrived(a).n = received + 1
           /\ received < MaxPackets /\ received' = received + 1 /\ up
           /\ received \in Nat /\ received + 1 \in 1 .. MaxPackets
  BY ParametersAssumption DEF ListenInv, PacketsOK, Arrives, Arrived, Packet

LEMMA ListenReceiveKnown ==
    ASSUME ListenInv, NEW a \in Addresses, ReceiveKnown(a)
    PROVE  ListenInv'
<1>1. TablesOK /\ QueuesOK /\ TimerOK /\ PacketsOK
  BY DEF ListenInv
<1>2. /\ Arrives(a) /\ a \in DOMAIN conns
      /\ UNCHANGED <<up, accepts, backlog, idMap, table, nextId, caller, requests, answered>>
  BY DEF ReceiveKnown
<1>3. /\ Arrived(a) \in Packet /\ Arrived(a).from = a /\ Arrived(a).n = received + 1
      /\ received < MaxPackets /\ received' = received + 1
      /\ received \in Nat /\ received + 1 \in 1 .. MaxPackets
  BY <1>2, ArrivedFacts
<1>4. conns[a] \in Connection
  BY <1>1, <1>2, IdsUnique
<1>5. CASE conns[a].rid
  <2> DEFINE c == Touched(conns[a])
  <2>1. /\ conns' = [conns EXCEPT ![a] = c] /\ timer' = Schedule(timer, conns', backlog)
        /\ sent' = [sent EXCEPT ![received + 1] = @ + 1]
    BY <1>5 DEF ReceiveKnown
  <2>2. c \in Connection /\ c.id = conns[a].id /\ c.rid = conns[a].rid /\ c.q = conns[a].q
    BY <1>4, TouchedFields
  <2> HIDE DEF c
  <2>3. /\ TablesOK' /\ DOMAIN conns' = DOMAIN conns
        /\ conns'[a] = c /\ \A b \in DOMAIN conns : b # a => conns'[b] = conns[b]
    BY <1>1, <1>2, <2>1, <2>2, ConnectionReplaced
  <2>4. QueuesOK'
    BY <1>1, <1>2, <2>3, QueuesKept
  <2>5. TimerOK'
    BY <1>1, <1>2, <2>1, <2>3, <2>4, ConnectionsAfter, ScheduleType DEF TimerOK
  <2>6. PacketsOK'
    <3>1. PICK src \in [1 .. received -> Addresses] :
            /\ \A b \in DOMAIN conns : Holds(conns[b].q, b, src, received, sent)
            /\ \A i \in DOMAIN backlog :
                Holds(backlog[i].packets, backlog[i].addr, src, received, sent)
      BY <1>1 DEF PacketsOK
    <3> DEFINE src2 == [n \in 1 .. received' |-> IF n = received + 1 THEN a ELSE src[n]]
    <3>0. /\ src2 \in [1 .. received' -> Addresses]
          /\ \A n \in 1 .. MaxPackets : n <= received => src2[n] = src[n]
      BY <1>3
    <3> HIDE DEF src2
    <3>2. sent[received + 1] = 0
      BY <1>1, <1>3 DEF PacketsOK
    <3>3. /\ sent' \in [1 .. MaxPackets -> Nat]
          /\ \A n \in 1 .. MaxPackets : sent'[n] = IF n = received + 1 THEN 1 ELSE sent[n]
      BY <1>1, <1>3, <2>1, <3>2 DEF PacketsOK
    <3>4. /\ received' \in 0 .. MaxPackets
          /\ \A n \in 1 .. MaxPackets : sent'[n] \in {0, 1} /\ (n > received' => sent'[n] = 0)
      BY <1>1, <1>3, <3>3, ParametersAssumption DEF PacketsOK
    <3>5. ASSUME NEW q \in Seq(Packet), NEW b, Holds(q, b, src, received, sent)
          PROVE  Holds(q, b, src2, received', sent')
      <4>1. \A n \in 1 .. MaxPackets : n <= received /\ src[n] = b /\ sent[n] = 0 => sent'[n] = 0
        BY <1>3, <3>3
      <4>2. received' \in Nat /\ received <= received'
        BY <1>3
      <4> QED
        BY <1>3, <3>0, <3>5, <4>1, <4>2, HoldsStill
    <3>6. ASSUME NEW b \in DOMAIN conns' PROVE Holds(conns'[b].q, b, src2, received', sent')
      <4>1. conns'[b].q = conns[b].q /\ b \in DOMAIN conns
        BY <2>2, <2>3
      <4>2. conns[b].q \in Seq(Packet)
        BY <1>1, <4>1, IdsUnique, ConnectionFields
      <4> QED
        BY <3>1, <3>5, <4>1, <4>2
    <3>7. ASSUME NEW i \in DOMAIN backlog'
          PROVE  Holds(backlog'[i].packets, backlog'[i].addr, src2, received', sent')
      <4>1. backlog' = backlog /\ backlog[i].packets \in Seq(Packet)
        BY <1>1, <1>2, QueueTypes, PendingFields
      <4> QED
        BY <3>1, <3>5, <4>1
    <3> QED
      BY <3>0, <3>3, <3>4, <3>6, <3>7 DEF PacketsOK
  <2> QED
    BY <2>3, <2>4, <2>5, <2>6 DEF ListenInv
<1>6. CASE ~conns[a].rid
  <2> DEFINE y == Append(conns[a].q, Arrived(a))
             c == [conns[a] EXCEPT !.q = y]
  <2>1. conns' = [conns EXCEPT ![a] = c] /\ timer' = timer /\ sent' = sent
    BY <1>6 DEF ReceiveKnown
  <2>2. y \in Seq(Packet)
    BY <1>3, <1>4, ConnectionFields, AppendFacts
  <2>3. y = Append(conns[a].q, Arrived(a))
    OBVIOUS
  <2> HIDE DEF y
  <2>4. c \in Connection /\ c.id = conns[a].id /\ c.rid = conns[a].rid /\ c.q = y
    BY <1>4, <2>2 DEF Connection
  <2> HIDE DEF c
  <2>5. /\ TablesOK' /\ DOMAIN conns' = DOMAIN conns
        /\ conns'[a] = c /\ \A b \in DOMAIN conns : b # a => conns'[b] = conns[b]
    BY <1>1, <1>2, <2>1, <2>4, ConnectionReplaced
  <2>6. QueuesOK'
    BY <1>1, <1>2, <2>5, QueuesKept
  <2>7. TimerOK'
    BY <1>1, <2>1 DEF TimerOK
  <2>8. PacketsOK'
    <3>1. \A b \in DOMAIN conns' :
            \/ b \in DOMAIN conns /\ conns'[b].q = conns[b].q
            \/ b = a /\ b \in DOMAIN conns /\ conns'[b].q = Append(conns[b].q, Arrived(a))
      BY <2>3, <2>4, <2>5
    <3> QED
      BY <1>1, <1>2, <1>3, <2>1, <3>1, PacketsArrived
  <2> QED
    BY <2>5, <2>6, <2>7, <2>8 DEF ListenInv
<1> QED
  BY <1>5, <1>6

LEMMA ListenReceiveAccept ==
    ASSUME ListenInv, NEW a \in Addresses, ReceiveAccept(a)
    PROVE  ListenInv'
<1>1. TablesOK /\ QueuesOK /\ TimerOK /\ PacketsOK
  BY DEF ListenInv
<1> DEFINE y == <<Arrived(a)>>
<1>2. /\ Arrives(a) /\ a \notin DOMAIN conns /\ ConnectionNew(Head(accepts), a, y)
      /\ timer' = Schedule(Schedule(timer, conns, backlog), conns', backlog)
      /\ UNCHANGED <<up, backlog, requests, sent>>
  BY DEF ReceiveAccept
<1>3. /\ Arrived(a) \in Packet /\ Arrived(a).from = a /\ Arrived(a).n = received + 1
      /\ received < MaxPackets /\ received' = received + 1 /\ up
  BY <1>2, ArrivedFacts
<1>4. y \in Seq(Packet)
  BY <1>3, OneFacts, Zenon
<1>5. y = <<Arrived(a)>>
  OBVIOUS
<1> HIDE DEF y
<1>6. /\ TablesOK' /\ DOMAIN conns' \subseteq DOMAIN conns \cup {a}
      /\ conns'[a].q = y /\ \A b \in DOMAIN conns' : b # a => conns'[b] = conns[b]
  BY <1>1, <1>2, <1>3, <1>4, TablesNew
<1>7. QueuesOK'
  BY <1>1, QueuesReceiveAccept
<1>8. TimerOK'
  <2>1. Schedule(timer, conns, backlog) \in {NoTimer} \cup 0 .. Timeout
    BY <1>1, ConnectionsBefore, ScheduleType DEF TimerOK
  <2>2. (\A b \in DOMAIN conns' : conns'[b] \in Connection) /\ backlog \in Seq(Pending)
    BY <1>1, <1>6, <1>7, ConnectionsAfter, ConnectionsBefore
  <2> QED
    BY <1>2, <2>1, <2>2, ScheduleType DEF TimerOK
<1>9. PacketsOK'
  <2>1. \A b \in DOMAIN conns' :
            \/ b \in DOMAIN conns /\ conns'[b].q = conns[b].q
            \/ b = a /\ conns'[b].q = <<Arrived(a)>>
    BY <1>5, <1>6, Zenon
  <2>2. \A i \in DOMAIN backlog' : \E j \in DOMAIN backlog :
            backlog'[i].addr = backlog[j].addr /\ backlog'[i].packets = backlog[j].packets
    BY <1>2
  <2> QED
    BY <1>1, <1>2, <1>3, <2>1, <2>2, PacketsArrived, Zenon
<1> QED
  BY <1>6, <1>7, <1>8, <1>9 DEF ListenInv

LEMMA ListenReceivePending ==
    ASSUME ListenInv, NEW a \in Addresses, ReceivePending(a)
    PROVE  ListenInv'
<1>1. TablesOK /\ QueuesOK /\ TimerOK /\ PacketsOK
  BY DEF ListenInv
<1> DEFINE p == Arrived(a)
<1>2. /\ Arrives(a) /\ a \notin DOMAIN conns /\ accepts = <<>>
      /\ backlog' = Queued(backlog, p)
      /\ timer' = IF Len(Last(backlog').packets) = 1
                  THEN Schedule(timer, conns, backlog') ELSE timer
      /\ UNCHANGED <<up, accepts, conns, idMap, table, nextId, caller, requests,
                     answered, sent>>
  BY DEF ReceivePending, history
<1>3. /\ p \in Packet /\ p.from = a /\ p.n = received + 1
      /\ received < MaxPackets /\ received' = received + 1
  BY <1>2, ArrivedFacts
<1> HIDE DEF p
<1>4. QueuesOK'
  BY <1>1, <1>2, <1>3, QueuesPending
<1>5. TablesOK'
  BY <1>1, <1>2, TablesTouched DEF TablesOK, TablesMapped
<1>6. TimerOK'
  <2>1. backlog' \in Seq(Pending) /\ \A b \in DOMAIN conns : conns[b] \in Connection
    BY <1>1, <1>4, <1>5, ConnectionsAfter, ConnectionsBefore
  <2>2. Schedule(timer, conns, backlog') \in {NoTimer} \cup 0 .. Timeout
    BY <1>1, <2>1, ScheduleType DEF TimerOK
  <2> QED
    BY <1>1, <1>2, <2>2 DEF TimerOK
<1>7. PacketsOK'
  <2>1. PICK t, x : Joined(p, t, x) /\ Queued(backlog, p) = Append(t, x)
    BY <1>1, <1>3, QueuedFacts
  <2>2. /\ t \in Seq(Pending) /\ x \in Pending /\ x.addr = p.from
        /\ \/ x.packets = <<p>>
           \/ \E i \in DOMAIN backlog :
                backlog[i].addr = p.from /\ x.packets = Append(backlog[i].packets, p)
    BY <2>1 DEF Joined
  <2>3. PICK m \in [DOMAIN t -> DOMAIN backlog] : \A j \in DOMAIN t : t[j] = backlog[m[j]]
    BY <2>1 DEF Joined, Part
  <2>4. \A j \in DOMAIN backlog' :
            \/ backlog'[j] = x
            \/ j \in DOMAIN t /\ backlog'[j] = t[j]
    BY <1>2, <2>1, <2>2, AppendFacts
  <2>5. \A j \in DOMAIN t : m[j] \in DOMAIN backlog /\
            t[j].addr = backlog[m[j]].addr /\ t[j].packets = backlog[m[j]].packets
    BY <2>3
  <2>6. \A i \in DOMAIN backlog' :
            \/ \E j \in DOMAIN backlog : backlog'[i].addr = backlog[j].addr
                                         /\ backlog'[i].packets = backlog[j].packets
            \/ backlog'[i].addr = p.from /\ backlog'[i].packets = <<p>>
            \/ /\ backlog'[i].addr = p.from
               /\ \E j \in DOMAIN backlog : backlog[j].addr = p.from
                            /\ backlog'[i].packets = Append(backlog[j].packets, p)
    <3>1. ASSUME NEW i \in DOMAIN backlog', backlog'[i] = x
          PROVE  \/ backlog'[i].addr = p.from /\ backlog'[i].packets = <<p>>
                 \/ /\ backlog'[i].addr = p.from
                    /\ \E j \in DOMAIN backlog : backlog[j].addr = p.from
                                 /\ backlog'[i].packets = Append(backlog[j].packets, p)
      BY <2>2, <3>1, Zenon
    <3>2. ASSUME NEW i \in DOMAIN backlog', i \in DOMAIN t, backlog'[i] = t[i]
          PROVE  \E j \in DOMAIN backlog : backlog'[i].addr = backlog[j].addr
                                           /\ backlog'[i].packets = backlog[j].packets
      BY <2>5, <3>2
    <3> QED
      BY <2>4, <3>1, <3>2, Zenon
  <2>7. \A b \in DOMAIN conns' : b \in DOMAIN conns /\ conns'[b].q = conns[b].q
    BY <1>2
  <2> QED
    BY <1>1, <1>2, <1>3, <2>6, <2>7, PacketsArrived, Zenon
<1> QED
  BY <1>4, <1>5, <1>6, <1>7 DEF ListenInv

LEMMA ListenAccept ==
    ASSUME ListenInv, HandleAccept
    PROVE  ListenInv'
<1>1. TablesOK /\ QueuesOK /\ TimerOK /\ PacketsOK
  BY DEF ListenInv
<1>2. up /\ UNCHANGED <<up, received, sent>>
  BY DEF HandleAccept
<1>3. backlog \in Seq(Pending)
  BY <1>1, QueueTypes
<1>4. CASE backlog # <<>>
  <2> DEFINE pc == Head(backlog)
  <2>1. /\ ConnectionNew(requests + 1, pc.addr, pc.packets)
        /\ backlog' = Tail(backlog) /\ timer' = Schedule(timer, conns, Tail(backlog))
    BY <1>4 DEF HandleAccept
  <2>2. pc = backlog[1] /\ 1 \in DOMAIN backlog
    BY <1>3, <1>4
  <2> HIDE DEF pc
  <2>3. pc.addr \in Addresses \ DOMAIN conns /\ pc.packets \in Seq(Packet)
    BY <1>1, <2>2, QueueTypes, PendingFields DEF QueuesOK, OneRoutePerAddress
  <2>4. /\ TablesOK' /\ DOMAIN conns' \subseteq DOMAIN conns \cup {pc.addr}
        /\ conns'[pc.addr].q = pc.packets
        /\ \A b \in DOMAIN conns' : b # pc.addr => conns'[b] = conns[b]
    BY <1>1, <1>2, <2>1, <2>3, TablesNew
  <2>5. QueuesOK'
    BY <1>1, <1>4, <2>4, QueuesAccept DEF pc
  <2>6. TimerOK'
    <3>1. backlog' \in Seq(Pending) /\ \A b \in DOMAIN conns : conns[b] \in Connection
      BY <1>1, <2>4, <2>5, ConnectionsAfter, ConnectionsBefore
    <3> QED
      BY <1>1, <2>1, <3>1, ScheduleType DEF TimerOK
  <2>7. PacketsOK'
    <3>1. \A b \in DOMAIN conns' :
            \/ b \in DOMAIN conns /\ conns'[b].q = conns[b].q
            \/ \E i \in DOMAIN backlog : backlog[i].addr = b /\ conns'[b].q = backlog[i].packets
      BY <2>2, <2>4
    <3>2. Part(backlog', backlog)
      BY <1>3, <1>4, <2>1, TailPart
    <3>3. \A i \in DOMAIN backlog' : \E j \in DOMAIN backlog :
            backlog'[i].addr = backlog[j].addr /\ backlog'[i].packets = backlog[j].packets
      BY <3>2 DEF Part
    <3> QED
      BY <1>1, <1>2, <3>1, <3>3, PacketsKept
  <2> QED
    BY <2>4, <2>5, <2>6, <2>7 DEF ListenInv
<1>5. CASE backlog = <<>>
  <2>1. UNCHANGED <<backlog, conns, idMap, table, timer, nextId, caller, answered>>
    BY <1>5 DEF HandleAccept
  <2>2. TablesOK'
    BY <1>1, <1>2, <2>1, TablesTouched DEF TablesOK, TablesMapped
  <2>3. QueuesOK'
    BY <1>1, <2>1, QueuesAccept
  <2>4. PacketsOK'
    BY <1>1, <1>2, <2>1, PacketsKept
  <2> QED
    BY <1>1, <2>1, <2>2, <2>3, <2>4 DEF ListenInv, TimerOK
<1> QED
  BY <1>4, <1>5

LEMMA ListenInit ==
    ASSUME Init
    PROVE  ListenInv
<1> DEFINE e == <<>>
<1>1. /\ up = TRUE /\ accepts = e /\ backlog = e /\ conns = e /\ idMap = e /\ table = {}
      /\ timer = NoTimer /\ nextId = 1 /\ caller = [i \in ConnIds |-> "none"]
      /\ requests = 0 /\ received = 0 /\ answered = e
      /\ sent = [n \in 1 .. MaxPackets |-> 0]
  BY DEF Init
<1>2. DOMAIN e = {} /\ Len(e) = 0
  BY NoneFacts
<1>3. e \in Seq(CallIds) /\ e \in Seq(Pending) /\ e \in [{} -> Connection] /\ e \in [{} -> Addresses]
  OBVIOUS
<1>4. IsFiniteSet({}) /\ Cardinality({}) = 0
  BY FS_EmptySet
<1>5. QueuesOK
  <2>1. accepts = <<>> /\ DOMAIN accepts = {} /\ DOMAIN backlog = {} /\ DOMAIN answered = {}
    BY <1>1, <1>2
  <2>2. OneRoutePerAddress
    BY <2>1 DEF OneRoutePerAddress
  <2>3. AnswersOK
    BY <2>1 DEF AnswersOK, CompletedInOrder
  <2> HIDE DEF e
  <2> QED
    BY <1>1, <1>2, <1>3, <2>1, <2>2, <2>3, ParametersAssumption DEF QueuesOK
<1> HIDE DEF e
<1>6. MapsAgree
  BY <1>1, <1>2 DEF MapsAgree
<1>7. TablesMapped
  BY <1>1, <1>2, <1>3, <1>4, <1>6, ParametersAssumption DEF TablesMapped
<1>8. CallersOK
  BY <1>1 DEF CallersOK, ConnIds
<1>9. caller \in [ConnIds -> CallerStates]
  BY <1>1 DEF CallerStates
<1>10. PacketsOK
  <2>1. [n \in {} |-> n] \in [1 .. received -> Addresses]
    BY <1>1
  <2>2. received \in 0 .. MaxPackets /\ sent \in [1 .. MaxPackets -> Nat]
        /\ \A n \in 1 .. MaxPackets : sent[n] = 0
    BY <1>1, ParametersAssumption
  <2>3. DOMAIN conns = {} /\ DOMAIN backlog = {}
    BY <1>1, <1>2
  <2>4. \E src \in [1 .. received -> Addresses] : TRUE
    BY <2>1
  <2> QED
    BY <2>2, <2>3, <2>4 DEF PacketsOK
<1>11. TimerOK
  BY <1>1 DEF TimerOK
<1> QED
  BY <1>5, <1>7, <1>8, <1>9, <1>10, <1>11 DEF ListenInv, TablesOK

LEMMA ListenNext ==
    ASSUME ListenInv, [Next]_vars
    PROVE  ListenInv'
<1>1. ASSUME NEW a \in DOMAIN conns, RemoveConnection(a)
      PROVE  ListenInv'
  <2>1. TablesOK'
    BY <1>1, TablesForget DEF RemoveConnection, ListenInv
  <2> QED
    BY <1>1, <2>1, ListenForget DEF RemoveConnection
<1>2. ASSUME NEW i \in ConnIds, HandleClose(i)
      PROVE  ListenInv'
  <2>1. TablesOK'
    BY <1>2, TablesClose DEF ListenInv
  <2> QED
    BY <1>2, <2>1, ListenForget DEF HandleClose
<1>3. ASSUME UNCHANGED vars
      PROVE  ListenInv'
  <2>1. TablesOK /\ QueuesOK /\ TimerOK /\ PacketsOK
    BY DEF ListenInv
  <2>2. UNCHANGED <<up, accepts, backlog, conns, idMap, table, timer, nextId, caller,
                    requests, received, answered, sent>>
    BY <1>3 DEF vars, history
  <2>3. TablesOK'
    BY <2>1, <2>2, TablesTouched DEF TablesOK, TablesMapped
  <2>4. QueuesOK' /\ PacketsOK'
    BY <2>1, <2>2, QueuesKept, PacketsKept
  <2> QED
    BY <2>1, <2>2, <2>3, <2>4 DEF ListenInv, TimerOK
<1> QED
  BY <1>1, <1>2, <1>3, ListenTick, ListenTimerFires, ListenRemoveListener, ListenAccept,
     ListenReceiveKnown, ListenReceiveAccept, ListenReceivePending, ListenFlush, ListenCancel,
     ListenAccepted, ListenData
     DEF Next

-----------------------------------------------------------------------------
(* What the listener promises *)

\* ListenInv holds always: with what the caller knows, where the packets wait
\* and which requests are still to be answered, the invariants below follow from
\* it.  In every handler of fwd_entry_datagram_listen.c.
THEOREM ListenInvariant == Spec => []ListenInv
<1>1. Init => ListenInv
  BY ListenInit
<1>2. ListenInv /\ [Next]_vars => ListenInv'
  BY ListenNext
<1> QED
  BY <1>1, <1>2, PTL DEF Spec

\* All state keeps its type: the ids fit, expiry times never exceed the timeout
\* and neither does the timer.
THEOREM TypeCorrect == Spec => []TypeOK
<1>1. ListenInv => TypeOK
  BY ParametersAssumption
     DEF ListenInv, TablesOK, TablesMapped, QueuesOK, TimerOK, PacketsOK, TypeOK
<1> QED
  BY <1>1, ListenInvariant, PTL

\* addr_map, id_map and the table of the peer have the same connections,
\* whichever way a connection ends.
THEOREM MapsAlwaysAgree == Spec => []MapsAgree
<1>1. ListenInv => MapsAgree
  BY DEF ListenInv, TablesOK, TablesMapped
<1> QED
  BY <1>1, ListenInvariant, PTL

\* No packet waits for a request while a request waits for a packet, and an
\* address is never both pending and active (io_receive, accept).
THEOREM OneRoute == Spec => []OneRoutePerAddress
<1>1. ListenInv => OneRoutePerAddress
  BY DEF ListenInv, QueuesOK
<1> QED
  BY <1>1, ListenInvariant, PTL

\* conn_limit and backlog hold for every value of the limits, the one of the
\* table of the peer too, and the backlog stays sorted by expiry.
THEOREM LimitsAlwaysHold == Spec => []LimitsHold
<1>1. ASSUME ListenInv PROVE IsFiniteSet(table) /\ Cardinality(table) <= Cardinality(DOMAIN conns)
  <2>1. TablesOK /\ IsFiniteSet(DOMAIN conns)
    BY <1>1 DEF ListenInv, TablesOK, TablesMapped
  <2> DEFINE f == [i \in table |-> idMap[i]]
  <2>2. f \in [table -> DOMAIN conns]
    BY <2>1, IdsUnique
  <2>3. \A i, j \in table : f[i] = f[j] => i = j
    BY <2>1, IdsUnique
  <2> HIDE DEF f
  <2>4. f \in Injection(table, DOMAIN conns)
    BY <2>2, <2>3, Zenon DEF Injection, IsInjective
  <2> QED
    BY <2>1, <2>4, FS_Injection
<1>2. ASSUME ListenInv PROVE LimitsHold
  <2>1. Cardinality(DOMAIN conns) <= ConnLimit /\ IsFiniteSet(DOMAIN conns)
    BY <1>2 DEF ListenInv, TablesOK, TablesMapped
  <2>2. Cardinality(table) \in Nat /\ Cardinality(DOMAIN conns) \in Nat /\ ConnLimit \in Nat
    BY <1>1, <1>2, <2>1, FS_CardinalityType, ParametersAssumption
  <2>3. Cardinality(table) <= ConnLimit
    BY <1>1, <1>2, <2>1, <2>2
  <2> QED
    BY <1>2, <2>1, <2>3 DEF ListenInv, QueuesOK, LimitsHold
<1> QED
  BY <1>2, ListenInvariant, PTL

\* A connection that the caller has accepted in time exists until one end has
\* told the other, and not after that.
THEOREM EndsAlwaysAgree == Spec => []EndsAgree
<1>1. ASSUME ListenInv PROVE EndsAgree
  <2>1. \A i \in ConnIds : caller[i] = "accepted" => i \in table
    BY <1>1 DEF ListenInv, TablesOK, CallersOK
  <2>2. \A i \in table : caller[i] = "accepted" \/ caller[i] = "offered"
    BY <1>1 DEF ListenInv, TablesOK, CallersOK
  <2> QED
    BY <2>1, <2>2 DEF EndsAgree
<1> QED
  BY <1>1, ListenInvariant, PTL

\* ACCEPT requests are completed in the order in which they were submitted,
\* cancelled ones being skipped.
THEOREM AnsweredInOrder == Spec => []CompletedInOrder
<1>1. ListenInv => CompletedInOrder
  BY DEF ListenInv, QueuesOK, AnswersOK
<1> QED
  BY <1>1, ListenInvariant, PTL

\* A packet waits in one queue at most, with those from its own address, and is
\* sent to the caller at most once.
THEOREM PacketsOnce == Spec => []EachPacketOnce
<1>1. ASSUME ListenInv PROVE EachPacketOnce
  <2>1. TablesOK /\ QueuesOK /\ PacketsOK
    BY <1>1 DEF ListenInv
  <2>2. PICK src \in [1 .. received -> Addresses] :
          /\ \A a \in DOMAIN conns : Holds(conns[a].q, a, src, received, sent)
          /\ \A i \in DOMAIN backlog :
              Holds(backlog[i].packets, backlog[i].addr, src, received, sent)
    BY <2>1 DEF PacketsOK
  <2>3. \A a \in DOMAIN conns : \A p \in Range(conns[a].q) :
            p.from = a /\ src[p.n] = a /\ sent[p.n] = 0
    BY <2>2 DEF Holds, Range
  <2>4. \A i \in DOMAIN backlog : \A p \in Range(backlog[i].packets) :
            p.from = backlog[i].addr /\ src[p.n] = backlog[i].addr /\ sent[p.n] = 0
    BY <2>2 DEF Holds, Range
  <2> DEFINE P(n) == {x \in DOMAIN backlog : \E p \in Range(backlog[x].packets) : p.n = n}
             H(n) == {x \in DOMAIN conns : \E p \in Range(conns[x].q) : p.n = n}
             W(n) == {<<"pending", i>> : i \in P(n)} \cup {<<"held", a>> : a \in H(n)}
  <2>5. ASSUME NEW n \in 1 .. MaxPackets
        PROVE  sent[n] + Cardinality(W(n)) <= 1
    <3>1. sent[n] \in {0, 1}
      BY <2>1 DEF PacketsOK
    <3>2. \A i \in P(n) : i \in DOMAIN backlog /\ src[n] = backlog[i].addr /\ sent[n] = 0
      BY <2>4
    <3>3. \A a \in H(n) : a \in DOMAIN conns /\ src[n] = a /\ sent[n] = 0
      BY <2>3
    <3>4. (\A i \in DOMAIN backlog : backlog[i].addr \notin DOMAIN conns)
          /\ \A i, j \in DOMAIN backlog : backlog[i].addr = backlog[j].addr => i = j
      BY <2>1 DEF QueuesOK, OneRoutePerAddress
    <3> HIDE DEF P, H
    <3>5. CASE P(n) = {} /\ H(n) = {}
      <4>1. W(n) = {}
        BY <3>5
      <4>2. Cardinality(W(n)) = 0
        BY <4>1, FS_EmptySet
      <4> HIDE DEF W
      <4> QED
        BY <3>1, <4>2
    <3>6. ASSUME NEW i \in P(n)
          PROVE  sent[n] + Cardinality(W(n)) <= 1
      <4>1. H(n) = {} /\ P(n) = {i}
        BY <3>2, <3>3, <3>4
      <4>2. W(n) = {<<"pending", i>>}
        BY <4>1, Zenon
      <4>3. Cardinality(W(n)) = 1
        BY <4>2, FS_Singleton
      <4> HIDE DEF W
      <4> QED
        BY <3>2, <4>3
    <3>7. ASSUME NEW a \in H(n)
          PROVE  sent[n] + Cardinality(W(n)) <= 1
      <4>1. P(n) = {} /\ H(n) = {a}
        BY <3>2, <3>3, <3>4
      <4>2. W(n) = {<<"held", a>>}
        BY <4>1, Zenon
      <4>3. Cardinality(W(n)) = 1
        BY <4>2, FS_Singleton
      <4> HIDE DEF W
      <4> QED
        BY <3>3, <4>3
    <3> QED
      BY <3>5, <3>6, <3>7
  <2>6. EachPacketOnce <=>
            /\ \A n \in 1 .. MaxPackets : sent[n] + Cardinality(W(n)) <= 1
            /\ \A a \in DOMAIN conns : \A p \in Range(conns[a].q) : p.from = a
            /\ \A i \in DOMAIN backlog :
                 \A p \in Range(backlog[i].packets) : p.from = backlog[i].addr
    BY DEF EachPacketOnce
  <2> HIDE DEF W
  <2> QED
    BY <2>3, <2>4, <2>5, <2>6
<1> QED
  BY <1>1, ListenInvariant, PTL

=============================================================================
