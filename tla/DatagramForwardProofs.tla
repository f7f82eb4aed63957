------------------------ MODULE DatagramForwardProofs -------------------------
(***************************************************************************)
(* Theorems about DatagramForward, for every set of addresses, limit on    *)
(* connections, and number of ids, packets and replies: the two maps of    *)
(* the forwarder have the same connections, a connection that has been set *)
(* up is watched by the inactivity timer, the variables keep their types,  *)
(* no packet comes to a far socket before its target, and what becomes of  *)
(* the packets implements DatagramPipe.                                    *)
(*                                                                         *)
(* IInv is the invariant about the tables of the forwarder, FlowInv adds   *)
(* the channels and what is on its way in them.                            *)
(***************************************************************************)
EXTENDS DatagramForward, FiniteSetTheorems, TLAPS

-----------------------------------------------------------------------------
(* The inductive invariant *)

\* addr_map: connections by the addresses of packets.
ConnsOK ==
    /\ conns = [a \in DOMAIN conns |-> conns[a]]
    /\ DOMAIN conns \subseteq Addresses
    /\ \A a \in DOMAIN conns : conns[a] \in Connection

\* What the id and the first packet of a connection are counted with.
CountersOK ==
    /\ origin \in Seq(Addresses)
    /\ taken \in [there : 0 .. MaxPackets, back : 0 .. MaxReplies]

\* The maps are inverse to each other, and no id has been given that is still to
\* come.  Without the first a connection could leave id_map with another one
\* that has its id, without the second a new connection could replace one there.
MapsInverse ==
    /\ idMap = [i \in DOMAIN idMap |-> idMap[i]]
    /\ DOMAIN idMap \subseteq 1 .. Len(origin)
    /\ \A a \in DOMAIN conns : idMap[conns[a].id] = a

IInv == ConnsOK /\ CountersOK /\ MapsInverse /\ MapsAgree /\ SilenceIsNoticed

-----------------------------------------------------------------------------
(* The ways in which the maps change *)

\* The connections of some addresses go, the timer may be left as it is.
LEMMA ForgetStep ==
    ASSUME IInv, NEW as, as \subseteq DOMAIN conns, Forget(as),
           UNCHANGED <<origin, taken>>
    PROVE  /\ ConnsOK' /\ CountersOK' /\ MapsInverse' /\ MapsAgree'
           /\ DOMAIN conns' = DOMAIN conns \ as
           /\ (timer' = timer) => SilenceIsNoticed'
<1>1. /\ conns' = [a \in DOMAIN conns \ as |-> conns[a]]
      /\ DOMAIN conns' = DOMAIN conns \ as
      /\ \A a \in DOMAIN conns' : conns'[a] = conns[a]
  BY DEF Forget, Restrict
<1>2. ConnsOK'
  BY <1>1 DEF IInv, ConnsOK
<1>3. CountersOK'
  BY DEF IInv, CountersOK
<1> DEFINE left == DOMAIN idMap \ {conns[a].id : a \in as}
<1>4. idMap' = [i \in left |-> idMap[i]]
  BY DEF Forget, Restrict
<1>5. ASSUME NEW a \in DOMAIN conns'
      PROVE  conns'[a].id \in DOMAIN idMap' /\ idMap'[conns'[a].id] = a
  <2>1. conns[a].id \in DOMAIN idMap /\ idMap[conns[a].id] = a
    BY <1>1 DEF IInv, MapsInverse, MapsAgree
  <2>2. \A b \in as : conns[b].id # conns[a].id
    BY <1>1, <2>1 DEF IInv, MapsInverse
  <2> QED
    BY <1>1, <1>4, <2>1, <2>2
<1>6. ASSUME NEW i \in DOMAIN idMap'
      PROVE  idMap'[i] \in DOMAIN conns' /\ conns'[idMap'[i]].id = i
  <2>1. i \in left /\ idMap'[i] = idMap[i]
    BY <1>4
  <2>2. idMap[i] \in DOMAIN conns /\ conns[idMap[i]].id = i
    BY <2>1 DEF IInv, MapsAgree
  <2>3. idMap[i] \notin as
    BY <2>1, <2>2
  <2> QED
    BY <1>1, <2>1, <2>2, <2>3
<1>7. MapsAgree'
  BY <1>5, <1>6 DEF MapsAgree
<1>8. MapsInverse'
  BY <1>4, <1>5 DEF IInv, MapsInverse
<1>9. (timer' = timer) => SilenceIsNoticed'
  BY <1>1 DEF IInv, SilenceIsNoticed
<1> QED
  BY <1>1, <1>2, <1>3, <1>7, <1>8, <1>9

\* One connection changes, not its id.
LEMMA UpdateStep ==
    ASSUME IInv, CountersOK', NEW a \in DOMAIN conns, NEW c \in Connection,
           c.id = conns[a].id, conns' = [conns EXCEPT ![a] = c],
           UNCHANGED <<idMap, origin>>,
           timer' \/ (timer' = timer /\ c.setup \in {"socket", "connect", conns[a].setup})
    PROVE  IInv'
<1>1. /\ DOMAIN conns' = DOMAIN conns
      /\ \A b \in DOMAIN conns : conns'[b].id = conns[b].id
      /\ \A b \in DOMAIN conns : conns'[b] = IF b = a THEN c ELSE conns[b]
  BY DEF IInv, ConnsOK
<1>2. ConnsOK'
  BY <1>1 DEF IInv, ConnsOK
<1>3. MapsInverse' /\ MapsAgree'
  BY <1>1 DEF IInv, MapsInverse, MapsAgree
<1>4. SilenceIsNoticed'
  BY <1>1 DEF IInv, SilenceIsNoticed
<1> QED
  BY <1>2, <1>3, <1>4 DEF IInv

\* The maps stay, the timer may be armed.
LEMMA SameStep ==
    ASSUME IInv, CountersOK', UNCHANGED <<conns, idMap, origin>>, timer => timer'
    PROVE  IInv'
  BY DEF IInv, ConnsOK, MapsInverse, MapsAgree, SilenceIsNoticed

\* A connection is made, and the oldest one may go for it.
LEMMA NewStep ==
    ASSUME IInv, NEW a \in Addresses, ReceiveNew(a)
    PROVE  IInv'
<1> DEFINE i == Len(origin) + 1
           old == Oldest
           new == NewConnection(i, Arrived(a))
           gone == {conns[o].id : o \in old}
<1>1. /\ taken.there < MaxPackets
      /\ taken' = [taken EXCEPT !.there = @ + 1]
      /\ a \notin DOMAIN conns /\ i <= MaxId
      /\ timer' = Schedule(conns)
      /\ conns' = [x \in (DOMAIN conns \ old) \cup {a} |->
                        IF x = a THEN new ELSE conns[x]]
      /\ idMap' = [x \in (DOMAIN idMap \ gone) \cup {i} |->
                        IF x = i THEN a ELSE idMap[x]]
      /\ origin' = Append(origin, a)
  BY DEF ReceiveNew, Arrives
<1>2. old \subseteq DOMAIN conns
  BY DEF Oldest
<1>3. CountersOK'
  BY <1>1, ForwardAssumption DEF IInv, CountersOK
<1>4. i \in Ids /\ i \notin DOMAIN idMap /\ Len(origin') = i
  BY <1>1 DEF IInv, CountersOK, MapsInverse, Ids
<1>5. new \in Connection /\ new.id = i /\ new.setup = "socket"
  <2>1. Arrived(a) \in Packet
    BY <1>1, ForwardAssumption DEF IInv, CountersOK, Arrived, Packet
  <2>2. <<Arrived(a)>> \in Seq(Packet)
    BY <2>1
  <2> QED
    BY <1>4, <2>2, ForwardAssumption DEF NewConnection, Connection
<1> HIDE DEF i, old, new, gone
<1>6. /\ DOMAIN conns' = (DOMAIN conns \ old) \cup {a}
      /\ conns'[a] = new
      /\ \A x \in DOMAIN conns \ old : conns'[x] = conns[x]
      /\ DOMAIN idMap' = (DOMAIN idMap \ gone) \cup {i}
      /\ idMap'[i] = a
      /\ \A x \in DOMAIN idMap \ gone : idMap'[x] = idMap[x]
  BY <1>1, <1>4
<1>7. ConnsOK'
  BY <1>1, <1>5, <1>6 DEF IInv, ConnsOK
<1>8. ASSUME NEW x \in DOMAIN conns'
      PROVE  conns'[x].id \in DOMAIN idMap' /\ idMap'[conns'[x].id] = x
  <2>1. CASE x = a
    BY <1>5, <1>6, <2>1
  <2>2. CASE x # a
    <3>1. x \in DOMAIN conns \ old
      BY <1>6, <2>2
    <3>2. conns[x].id \in DOMAIN idMap /\ idMap[conns[x].id] = x
      BY <3>1 DEF IInv, MapsInverse, MapsAgree
    <3>3. conns[x].id \notin gone
      BY <1>2, <3>1, <3>2 DEF IInv, MapsInverse, gone
    <3> QED
      BY <1>6, <3>1, <3>2, <3>3
  <2> QED
    BY <2>1, <2>2
<1>9. ASSUME NEW x \in DOMAIN idMap'
      PROVE  idMap'[x] \in DOMAIN conns' /\ conns'[idMap'[x]].id = x
  <2>1. CASE x = i
    BY <1>5, <1>6, <2>1
  <2>2. CASE x # i
    <3>1. x \in DOMAIN idMap \ gone
      BY <1>6, <2>2
    <3>2. idMap[x] \in DOMAIN conns /\ conns[idMap[x]].id = x
      BY <3>1 DEF IInv, MapsAgree
    <3>3. idMap[x] \notin old
      BY <3>1, <3>2 DEF gone
    <3> QED
      BY <1>1, <1>6, <3>1, <3>2, <3>3
  <2> QED
    BY <2>1, <2>2
<1>10. MapsAgree'
  BY <1>8, <1>9 DEF MapsAgree
<1>11. MapsInverse'
  <2>1. idMap' = [x \in DOMAIN idMap' |-> idMap'[x]]
    BY <1>1
  <2>2. DOMAIN idMap' \subseteq 1 .. i
    BY <1>4, <1>6 DEF IInv, MapsInverse, CountersOK, i
  <2> QED
    BY <1>4, <1>8, <2>1, <2>2 DEF MapsInverse
<1>12. SilenceIsNoticed'
  <2>1. DOMAIN conns # {} => timer'
    BY <1>1 DEF Schedule
  <2>2. ASSUME NEW x \in DOMAIN conns', conns'[x].setup = "done"
        PROVE  timer'
    BY <1>5, <1>6, <2>1, <2>2
  <2> QED
    BY <2>2 DEF SilenceIsNoticed
<1> QED
  BY <1>3, <1>7, <1>10, <1>11, <1>12 DEF IInv

-----------------------------------------------------------------------------
(* The actions of the near peer *)

LEMMA TimerFiresStep ==
    ASSUME IInv, TimerFires
    PROVE  IInv'
<1>1. PICK k \in 0 .. Len(order) :
        Forget({a \in DOMAIN conns : \E i \in 1 .. k : order[i] = a})
  BY DEF TimerFires, Expire
<1>2. {a \in DOMAIN conns : \E i \in 1 .. k : order[i] = a} \subseteq DOMAIN conns
  OBVIOUS
<1>3. timer' = (DOMAIN conns' # {}) /\ UNCHANGED <<origin, taken>>
  BY DEF TimerFires, history
<1>4. ConnsOK' /\ CountersOK' /\ MapsInverse' /\ MapsAgree'
  BY <1>1, <1>2, <1>3, ForgetStep
<1>5. SilenceIsNoticed'
  BY <1>3 DEF SilenceIsNoticed
<1> QED
  BY <1>4, <1>5 DEF IInv

LEMMA RemoveForwarderStep ==
    ASSUME IInv, RemoveForwarder
    PROVE  IInv'
<1>1. Forget(DOMAIN conns) /\ UNCHANGED <<origin, taken>>
  BY DEF RemoveForwarder, history
<1>2. /\ ConnsOK' /\ CountersOK' /\ MapsInverse' /\ MapsAgree'
      /\ DOMAIN conns' = {}
  BY <1>1, ForgetStep
<1> QED
  BY <1>2 DEF IInv, SilenceIsNoticed

\* Connections go by themselves.
LEMMA ForgetOnly ==
    ASSUME IInv, NEW as, as \subseteq DOMAIN conns, Forget(as),
           UNCHANGED <<origin, taken, timer>>
    PROVE  IInv'
  BY ForgetStep DEF IInv

LEMMA Unchanged ==
    ASSUME IInv, UNCHANGED <<near, taken>>
    PROVE  IInv'
  BY DEF IInv, ConnsOK, CountersOK, MapsInverse, MapsAgree, SilenceIsNoticed, near

LEMMA ReceiveKnownStep ==
    ASSUME IInv, NEW a \in Addresses, ReceiveKnown(a)
    PROVE  IInv'
<1>1. /\ taken.there < MaxPackets
      /\ taken' = [taken EXCEPT !.there = @ + 1]
      /\ a \in DOMAIN conns
      /\ UNCHANGED <<idMap, origin>>
  BY DEF ReceiveKnown, Arrives
<1>2. CountersOK'
  BY <1>1, ForwardAssumption DEF IInv, CountersOK
<1>3. CASE conns[a].rid # 0
  <2>1. UNCHANGED conns /\ timer' = Schedule(conns)
    BY <1>3 DEF ReceiveKnown
  <2> QED
    BY <1>1, <1>2, <2>1, SameStep DEF Schedule
<1>4. CASE conns[a].rid = 0
  <2> DEFINE c == [conns[a] EXCEPT !.q = Append(@, Arrived(a))]
  <2>1. conns' = [conns EXCEPT ![a] = c] /\ timer' = timer
    BY <1>4 DEF ReceiveKnown
  <2>2. Arrived(a) \in Packet
    BY <1>1, ForwardAssumption DEF IInv, CountersOK, Arrived, Packet
  <2>3. c \in Connection /\ c.id = conns[a].id /\ c.setup = conns[a].setup
    <3>1. conns[a] \in Connection
      BY <1>1 DEF IInv, ConnsOK
    <3>2. Append(conns[a].q, Arrived(a)) \in Seq(Packet)
      BY <2>2, <3>1 DEF Connection
    <3> QED
      BY <3>1, <3>2 DEF Connection
  <2> QED
    BY <1>1, <1>2, <2>1, <2>3, UpdateStep
<1> QED
  BY <1>3, <1>4

LEMMA SocketCreatedStep ==
    ASSUME IInv, SocketCreated
    PROVE  IInv'
<1>1. PICK i \in Ids, s \in 0 .. MaxId :
        \/ i \notin DOMAIN idMap /\ UNCHANGED <<conns, idMap>>
        \/ i \in DOMAIN idMap /\ s = 0 /\ Forget({idMap[i]})
        \/ /\ i \in DOMAIN idMap /\ s # 0
           /\ conns' = [conns EXCEPT ![idMap[i]].rid = s, ![idMap[i]].setup = "connect"]
           /\ UNCHANGED idMap
  BY DEF SocketCreated, ForgetOne
<1>2. UNCHANGED <<timer, origin, taken>>
  BY DEF SocketCreated
<1>3. CountersOK'
  BY <1>2 DEF IInv, CountersOK
<1>4. CASE UNCHANGED <<conns, idMap>>
  BY <1>2, <1>3, <1>4, SameStep
<1>5. CASE i \in DOMAIN idMap /\ Forget({idMap[i]})
  <2>1. {idMap[i]} \subseteq DOMAIN conns
    BY <1>5 DEF IInv, MapsAgree
  <2> QED
    BY <1>2, <1>5, <2>1, ForgetOnly
<1>6. CASE /\ i \in DOMAIN idMap
           /\ conns' = [conns EXCEPT ![idMap[i]].rid = s, ![idMap[i]].setup = "connect"]
           /\ UNCHANGED idMap
  <2> DEFINE a == idMap[i]
             c == [conns[a] EXCEPT !.rid = s, !.setup = "connect"]
  <2>1. a \in DOMAIN conns
    BY <1>6 DEF IInv, MapsAgree
  <2>2. conns' = [conns EXCEPT ![a] = c]
    BY <1>6, <2>1
  <2>3. c \in Connection /\ c.id = conns[a].id /\ c.setup = "connect"
    BY <2>1 DEF IInv, ConnsOK, Connection
  <2> QED
    BY <1>2, <1>3, <1>6, <2>1, <2>2, <2>3, UpdateStep
<1> QED
  BY <1>1, <1>4, <1>5, <1>6

LEMMA SocketConnectedStep ==
    ASSUME IInv, SocketConnected
    PROVE  IInv'
<1>1. PICK s \in Ids, ok \in BOOLEAN :
        \/ UNCHANGED near
        \/ \E a \in Knows(s) : Forget({a}) /\ UNCHANGED <<timer, origin>>
        \/ \E a \in Knows(s) :
            /\ conns' = [conns EXCEPT ![a].q = <<>>, ![a].setup = "done"]
            /\ timer' = Schedule(conns)
            /\ UNCHANGED <<idMap, origin>>
  BY DEF SocketConnected, ForgetOne
<1>2. UNCHANGED taken
  BY DEF SocketConnected, history
<1>3. origin' = origin
  BY <1>1 DEF near
<1>4. CountersOK'
  BY <1>2, <1>3 DEF IInv, CountersOK
<1>5. CASE UNCHANGED near
  BY <1>4, <1>5, SameStep DEF near
<1>6. ASSUME NEW a \in Knows(s), Forget({a}), UNCHANGED <<timer, origin>>
      PROVE  IInv'
  <2>1. {a} \subseteq DOMAIN conns
    BY DEF Knows
  <2> QED
    BY <1>2, <1>6, <2>1, ForgetOnly
<1>7. ASSUME NEW a \in Knows(s),
             conns' = [conns EXCEPT ![a].q = <<>>, ![a].setup = "done"],
             timer' = Schedule(conns), UNCHANGED <<idMap, origin>>
      PROVE  IInv'
  <2> DEFINE c == [conns[a] EXCEPT !.q = <<>>, !.setup = "done"]
  <2>1. a \in DOMAIN conns
    BY DEF Knows
  <2>2. conns' = [conns EXCEPT ![a] = c]
    BY <1>7, <2>1
  <2>3. c \in Connection /\ c.id = conns[a].id
    <3>1. conns[a] \in Connection
      BY <2>1 DEF IInv, ConnsOK
    <3>2. <<>> \in Seq(Packet)
      OBVIOUS
    <3> QED
      BY <3>1, <3>2 DEF Connection
  <2>4. timer'
    BY <1>7, <2>1 DEF Schedule
  <2> QED
    BY <1>4, <1>7, <2>1, <2>2, <2>3, <2>4, UpdateStep
<1> QED
  BY <1>1, <1>5, <1>6, <1>7

LEMMA HandleReplyStep ==
    ASSUME IInv, HandleReply
    PROVE  IInv'
<1>1. /\ UNCHANGED <<conns, idMap, origin, taken>>
      /\ timer' = timer \/ timer' = Schedule(conns)
  BY DEF HandleReply
<1>2. CountersOK'
  BY <1>1 DEF IInv, CountersOK
<1>3. timer => timer'
  BY <1>1, Zenon DEF Schedule
<1> QED
  BY <1>1, <1>2, <1>3, SameStep

\* The rest of what makes connections go.
LEMMA GoneStep ==
    ASSUME IInv,
           \/ DataFailed \/ HandleNearClose
           \/ \E a \in Addresses : RemoveConnection(a)
    PROVE  IInv'
<1>1. UNCHANGED <<timer, origin, taken>>
  BY DEF DataFailed, HandleNearClose, RemoveConnection, near, history
<1>2. CASE DataFailed
  <2>1. UNCHANGED near \/ \E a \in DOMAIN conns : Forget({a})
    BY <1>2 DEF DataFailed, ForgetOne, Knows
  <2> QED
    BY <1>1, <2>1, ForgetOnly, Unchanged
<1>3. CASE HandleNearClose
  <2>1. UNCHANGED near \/ \E a \in DOMAIN conns : Forget({a})
    BY <1>3 DEF HandleNearClose, ForgetOne
  <2> QED
    BY <1>1, <2>1, ForgetOnly, Unchanged
<1>4. ASSUME NEW a \in Addresses, RemoveConnection(a)
      PROVE  IInv'
  <2>1. {a} \subseteq DOMAIN conns /\ Forget({a})
    BY <1>4 DEF RemoveConnection, ForgetOne
  <2> QED
    BY <1>1, <2>1, ForgetOnly
<1> QED
  BY <1>2, <1>3, <1>4

-----------------------------------------------------------------------------
(* The far peer *)

LEMMA FarStep ==
    ASSUME IInv,
           \/ HandleSocket \/ HandleConnect \/ HandleData \/ HandleFarClose
           \/ ReplyFailed
           \/ \E s \in Ids : RemoveSocket(s) \/ ReceiveReply(s)
    PROVE  IInv'
<1>1. UNCHANGED near
  BY DEF HandleSocket, HandleConnect, HandleData, HandleFarClose, ReplyFailed,
         RemoveSocket, ReceiveReply, near, far
<1>2. CountersOK'
  <2>1. ASSUME NEW s \in Ids, ReceiveReply(s)
        PROVE  taken' \in [there : 0 .. MaxPackets, back : 0 .. MaxReplies]
    <3>1. taken.back < MaxReplies /\ taken' = [taken EXCEPT !.back = @ + 1]
      BY <2>1 DEF ReceiveReply
    <3> QED
      BY <3>1, ForwardAssumption DEF IInv, CountersOK
  <2>2. CASE UNCHANGED taken
    BY <1>1, <2>2 DEF IInv, CountersOK, near
  <2>3. UNCHANGED taken \/ \E s \in Ids : ReceiveReply(s)
    BY DEF HandleSocket, HandleConnect, HandleData, HandleFarClose, ReplyFailed,
           RemoveSocket, history
  <2> QED
    BY <1>1, <2>1, <2>2, <2>3 DEF IInv, CountersOK, near
<1> QED
  BY <1>1, <1>2, SameStep DEF near

-----------------------------------------------------------------------------
(* The theorems *)

LEMMA InitIInv == Init => IInv
<1> SUFFICES ASSUME Init PROVE IInv
  OBVIOUS
<1>1. DOMAIN conns = {} /\ DOMAIN idMap = {}
  BY DEF Init
<1>2. ConnsOK /\ CountersOK /\ MapsInverse
  BY <1>1, ForwardAssumption DEF Init, ConnsOK, CountersOK, MapsInverse
<1> QED
  BY <1>1, <1>2 DEF IInv, MapsAgree, SilenceIsNoticed

LEMMA NextIInv == IInv /\ [Next]_vars => IInv'
<1> SUFFICES ASSUME IInv, [Next]_vars PROVE IInv'
  OBVIOUS
<1>1. CASE UNCHANGED vars
  BY <1>1 DEF IInv, ConnsOK, CountersOK, MapsInverse, MapsAgree,
              SilenceIsNoticed, vars, near, history
<1>2. CASE Next
  BY <1>2, TimerFiresStep, RemoveForwarderStep, ReceiveKnownStep, NewStep,
     SocketCreatedStep, SocketConnectedStep, HandleReplyStep, GoneStep, FarStep
     DEF Next, Deliver
<1> QED
  BY <1>1, <1>2

LEMMA InvariantHolds == Spec => []IInv
  BY InitIInv, NextIInv, PTL DEF Spec

\* The two maps of the forwarder have the same connections under their ids and
\* addresses, whatever removes one: expiry, eviction by a new one, a failed call,
\* CLOSE, the API or the end of the forwarder.
THEOREM MapsCorrect == Spec => []MapsAgree
<1>1. IInv => MapsAgree
  BY DEF IInv
<1> QED
  BY <1>1, InvariantHolds, PTL

\* A connection that has been set up never stays without a timer, although the
\* timer is looked at before a new connection is in the map.
THEOREM SilenceCorrect == Spec => []SilenceIsNoticed
<1>1. IInv => SilenceIsNoticed
  BY DEF IInv
<1> QED
  BY <1>1, InvariantHolds, PTL

-----------------------------------------------------------------------------
(* Sequences *)

LEMMA Concatenated ==
    ASSUME NEW S, NEW s \in Seq(S), NEW t \in Seq(S)
    PROVE  /\ s \o t \in Seq(S) /\ Len(s \o t) = Len(s) + Len(t)
           /\ \A k \in 1 .. Len(s) : (s \o t)[k] = s[k]
           /\ \A k \in 1 .. Len(t) : (s \o t)[Len(s) + k] = t[k]
  OBVIOUS

LEMMA RemovedFacts ==
    ASSUME NEW S, NEW s \in Seq(S), NEW i \in DOMAIN s
    PROVE  /\ RemoveAt(s, i) \in Seq(S)
           /\ \A j \in DOMAIN RemoveAt(s, i) :
                \E k \in DOMAIN s : k # i /\ RemoveAt(s, i)[j] = s[k]
           /\ \A k \in DOMAIN s : k # i =>
                \E j \in DOMAIN RemoveAt(s, i) : RemoveAt(s, i)[j] = s[k]
           /\ (\A j, k \in DOMAIN s : s[j] = s[k] => j = k)
              => \A j, k \in DOMAIN RemoveAt(s, i) :
                    RemoveAt(s, i)[j] = RemoveAt(s, i)[k] => j = k
<1> DEFINE a == SubSeq(s, 1, i - 1)
           b == SubSeq(s, i + 1, Len(s))
           t == RemoveAt(s, i)
           m == [j \in DOMAIN t |-> IF j < i THEN j ELSE j + 1]
<1>1. a \in Seq(S) /\ Len(a) = i - 1 /\ \A j \in 1 .. i - 1 : a[j] = s[j]
  OBVIOUS
<1>2. b \in Seq(S) /\ Len(b) = Len(s) - i /\ \A j \in 1 .. Len(s) - i : b[j] = s[i + j]
  OBVIOUS
<1>3. t = a \o b
  BY DEF RemoveAt
<1>4. i \in 1 .. Len(s) /\ Len(s) \in Nat /\ DOMAIN s = 1 .. Len(s)
  OBVIOUS
<1> HIDE DEF a, b, t
<1>5. t \in Seq(S) /\ Len(t) = Len(s) - 1 /\ DOMAIN t = 1 .. Len(s) - 1
  <2>1. t \in Seq(S) /\ Len(t) = Len(a) + Len(b)
    BY <1>1, <1>2, <1>3, Concatenated
  <2>2. Len(t) = Len(s) - 1
    BY <1>1, <1>2, <1>4, <2>1
  <2> QED
    BY <2>1, <2>2
<1>6. ASSUME NEW j \in 1 .. Len(s) - 1
      PROVE  t[j] = s[IF j < i THEN j ELSE j + 1]
  <2>1. CASE j < i
    <3>1. j \in 1 .. Len(a)
      BY <1>1, <1>4, <2>1
    <3>2. (a \o b)[j] = a[j]
      BY <1>1, <1>2, <3>1, Concatenated
    <3> QED
      BY <1>1, <1>3, <2>1, <3>1, <3>2
  <2>2. CASE j >= i
    <3>0. Len(a) = i - 1 /\ Len(b) = Len(s) - i
      BY <1>1, <1>2
    <3>1. PICK d \in 1 .. Len(b) : Len(a) + d = j /\ i + d = j + 1
      <4>1. j - (i - 1) \in 1 .. Len(b) /\ Len(a) + (j - (i - 1)) = j /\ i + (j - (i - 1)) = j + 1
        BY <1>4, <2>2, <3>0
      <4> QED
        BY <4>1
    <3>2. (a \o b)[Len(a) + d] = b[d]
      BY <1>1, <1>2, Concatenated
    <3>3. b[d] = s[j + 1]
      BY <1>2, <3>0, <3>1
    <3>4. ~(j < i)
      BY <1>4, <2>2
    <3> QED
      BY <1>3, <3>1, <3>2, <3>3, <3>4
  <2> QED
    BY <1>4, <2>1, <2>2
<1>7. m \in [DOMAIN t -> DOMAIN s] /\ \A j \in DOMAIN t : m[j] # i
  BY <1>4, <1>5
<1>8. \A j, l \in DOMAIN t : m[j] = m[l] => j = l
  BY <1>4, <1>5
<1>9. \A j \in DOMAIN t : t[j] = s[m[j]]
  BY <1>5, <1>6
<1> HIDE DEF m
<1>10. (\A j, k \in DOMAIN s : s[j] = s[k] => j = k)
          => \A j, k \in DOMAIN t : t[j] = t[k] => j = k
  BY <1>7, <1>8, <1>9
<1>11. \A j \in DOMAIN t : \E k \in DOMAIN s : k # i /\ t[j] = s[k]
  BY <1>7, <1>9
<1>12. ASSUME NEW k \in DOMAIN s, k # i
       PROVE  \E j \in DOMAIN t : t[j] = s[k]
  <2>1. CASE k < i
    BY <1>4, <1>5, <1>6, <2>1
  <2>2. CASE k > i
    <3>1. k - 1 \in 1 .. Len(s) - 1 /\ ~(k - 1 < i) /\ (k - 1) + 1 = k
      BY <1>4, <2>2
    <3> QED
      BY <1>5, <1>6, <3>1
  <2> QED
    BY <1>4, <1>12, <2>1, <2>2
<1> QED
  BY <1>5, <1>10, <1>11, <1>12 DEF t

LEMMA AppendFacts ==
    ASSUME NEW S, NEW s \in Seq(S), NEW x \in S
    PROVE  /\ Append(s, x) \in Seq(S) /\ Len(Append(s, x)) = Len(s) + 1
           /\ Append(s, x)[Len(s) + 1] = x
           /\ \A j \in DOMAIN Append(s, x) :
                \/ j = Len(s) + 1
                \/ j \in DOMAIN s /\ j <= Len(s) /\ Append(s, x)[j] = s[j]
  OBVIOUS

LEMMA AppendIs ==
    ASSUME NEW S, NEW s \in Seq(S), NEW x \in S, NEW t \in Seq(S),
           Len(t) = Len(s) + 1, t[Len(s) + 1] = x, \A k \in 1 .. Len(s) : t[k] = s[k]
    PROVE  t = Append(s, x)
<1> DEFINE u == Append(s, x)
<1>1. /\ u \in Seq(S) /\ Len(u) = Len(s) + 1 /\ Len(s) \in Nat
      /\ u[Len(s) + 1] = x /\ \A k \in 1 .. Len(s) : u[k] = s[k]
  OBVIOUS
<1> HIDE DEF u
<1>2. u = [k \in 1 .. Len(s) + 1 |-> u[k]]
  BY <1>1
<1>3. \A k \in 1 .. Len(s) + 1 : k = Len(s) + 1 \/ k \in 1 .. Len(s)
  BY <1>1
<1>4. \A k \in 1 .. Len(s) + 1 : t[k] = u[k]
  BY <1>1, <1>3
<1>5. t = [k \in 1 .. Len(s) + 1 |-> t[k]]
  OBVIOUS
<1> QED
  BY <1>2, <1>4, <1>5 DEF u

LEMMA OneFacts ==
    ASSUME NEW S, NEW x \in S
    PROVE  <<x>> \in Seq(S) /\ DOMAIN <<x>> = {1} /\ <<x>>[1] = x /\ Len(<<x>>) = 1
  OBVIOUS

LEMMA NoneFacts ==
    ASSUME NEW S
    PROVE  <<>> \in Seq(S) /\ DOMAIN <<>> = {} /\ Len(<<>>) = 0
<1>1. <<>> \in Seq(S)
  OBVIOUS
<1>2. DOMAIN <<>> = {} /\ Len(<<>>) = 0
  OBVIOUS
<1> QED
  BY <1>1, <1>2

-----------------------------------------------------------------------------
(* What is on its way: the inductive invariant *)

Message ==
    [type : {"SOCKET", "CONNECT", "DATA_error", "CLOSE"}, id : Ids]
    \cup [type : {"SOCKET_done"}, id : Ids, rid : 0 .. MaxId]
    \cup [type : {"CONNECT_done"}, id : Ids, ok : BOOLEAN]
    \cup [type : {"DATA"}, id : Ids, packet : Packet \cup Reply]

ChanOK ==
    /\ chan = [p \in Peers |-> chan[p]]
    /\ \A p \in Peers : chan[p] \in Seq(Message)

\* The connections are in the order of their expiry, none of them twice, and
\* there are not too many.
OrderOK ==
    /\ order \in Seq(Addresses)
    /\ \A i, j \in DOMAIN order : order[i] = order[j] => i = j
    /\ \A i \in DOMAIN order : order[i] \in DOMAIN conns
    /\ \A a \in DOMAIN conns : \E i \in DOMAIN order : order[i] = a
    /\ IsFiniteSet(DOMAIN conns) /\ Cardinality(DOMAIN conns) <= ConnLimit

\* The far sockets, and the history of those that there have been.
SocksOK ==
    /\ mate \in Seq(Ids) /\ Len(mate) <= Len(origin) /\ Len(origin) <= MaxId
    /\ \A s \in DOMAIN mate : mate[s] \in DOMAIN origin
    /\ socks = [s \in DOMAIN socks |-> socks[s]]
    /\ DOMAIN socks \subseteq DOMAIN mate
    /\ \A s \in DOMAIN socks : socks[s] \in FarSocket /\ socks[s].rid = mate[s]
    /\ known \subseteq Ids

\* A connection knows no far socket but its own.
LinksOK ==
    \A a \in DOMAIN conns :
        /\ conns[a].id \in DOMAIN origin /\ origin[conns[a].id] = a
        /\ conns[a].rid # 0 =>
            conns[a].rid \in DOMAIN mate /\ mate[conns[a].rid] = conns[a].id

\* What a message to the far peer says is still true, when the addresses of the
\* connections are as, the connections of the far sockets are cs, and n packets
\* have been taken: SOCKET comes from a connection later than those that have a
\* far socket, a packet from the address for which its socket speaks.
FarFits(m, as, cs, n) ==
    /\ m.type \in {"SOCKET", "CONNECT", "DATA", "DATA_error", "CLOSE"}
    /\ m.type = "SOCKET" => m.id \in DOMAIN as /\ Len(cs) < m.id
    /\ m.type = "DATA" =>
        /\ m.packet \in Packet
        /\ m.id \in DOMAIN cs /\ as[cs[m.id]] = m.packet.from
        /\ m.packet.n <= n

\* The same for a message to the near peer.
NearFits(m, cs, n) ==
    /\ m.type \in {"SOCKET_done", "CONNECT_done", "DATA", "DATA_error", "CLOSE"}
    /\ m.type = "SOCKET_done" /\ m.rid # 0 => m.rid \in DOMAIN cs /\ cs[m.rid] = m.id
    /\ m.type = "DATA" =>
        /\ m.packet \in Reply
        /\ m.packet.from \in DOMAIN cs /\ cs[m.packet.from] = m.id
        /\ m.packet.n <= n

AllFarFit(c, as, cs, n) == \A j \in DOMAIN c : FarFits(c[j], as, cs, n)
AllNearFit(c, cs, n) == \A j \in DOMAIN c : NearFits(c[j], cs, n)

MessagesFit ==
    /\ AllFarFit(chan.far, origin, mate, taken.there)
    /\ AllNearFit(chan.near, mate, taken.back)

\* SOCKET calls are in the order of their connections.  Without this the far peer
\* could make more sockets than there are ids.
Rising(c) ==
    \A j, k \in DOMAIN c :
        j < k /\ c[j].type = "SOCKET" /\ c[k].type = "SOCKET" => c[j].id < c[k].id

\* No packet is in c twice.
Once(c) ==
    \A j, k \in DOMAIN c :
        c[j].type = "DATA" /\ c[k].type = "DATA" /\ c[j].packet = c[k].packet => j = k

\* The socket s of ss has its target, or CONNECT is ahead of what is j-th in c.
Aimed(s, j, c, ss) ==
    s \in DOMAIN ss => ss[s].to \/ \E i \in DOMAIN c : i < j /\ c[i] = Connect(s)

TargetOK ==
    /\ \A j \in DOMAIN chan.far :
        chan.far[j].type = "DATA" => Aimed(chan.far[j].id, j, chan.far, socks)
    /\ \A a \in DOMAIN conns :
        conns[a].rid # 0 => Aimed(conns[a].rid, Len(chan.far) + 1, chan.far, socks)

\* What is held back in q comes from the address a, in order, and is not on its
\* way in c; n packets have been taken.
Held(q, a, n, c) ==
    \A k \in DOMAIN q :
        /\ q[k].from = a /\ q[k].n <= n
        /\ \A l \in DOMAIN q : k < l => q[k].n < q[l].n
        /\ \A j \in DOMAIN c : c[j].type = "DATA" => c[j].packet # q[k]

HeldOK == \A a \in DOMAIN conns : Held(conns[a].q, a, taken.there, chan.far)

FlowInv ==
    /\ IInv /\ ChanOK /\ OrderOK /\ SocksOK /\ LinksOK /\ MessagesFit
    /\ TargetOK /\ HeldOK /\ Rising(chan.far) /\ Once(chan.far) /\ Once(chan.near)

-----------------------------------------------------------------------------
(* The order of the connections *)

LEMMA WithoutFacts ==
    ASSUME OrderOK, NEW a \in DOMAIN conns
    PROVE  /\ Without(a) \in Seq(Addresses)
           /\ \A i, j \in DOMAIN Without(a) : Without(a)[i] = Without(a)[j] => i = j
           /\ \A i \in DOMAIN Without(a) : Without(a)[i] \in DOMAIN conns \ {a}
           /\ \A b \in DOMAIN conns \ {a} : \E i \in DOMAIN Without(a) : Without(a)[i] = b
<1> DEFINE i == CHOOSE i \in DOMAIN order : order[i] = a
           w == RemoveAt(order, i)
<1>1. i \in DOMAIN order /\ order[i] = a
  BY DEF OrderOK
<1> HIDE DEF i
<1>2. order \in Seq(Addresses)
  BY DEF OrderOK
<1>3. /\ w \in Seq(Addresses)
      /\ \A j \in DOMAIN w : \E k \in DOMAIN order : k # i /\ w[j] = order[k]
      /\ \A k \in DOMAIN order : k # i => \E j \in DOMAIN w : w[j] = order[k]
      /\ (\A j, k \in DOMAIN order : order[j] = order[k] => j = k)
         => \A j, k \in DOMAIN w : w[j] = w[k] => j = k
  BY <1>1, <1>2, RemovedFacts
<1> HIDE DEF w
<1>4. \A j, k \in DOMAIN w : w[j] = w[k] => j = k
  BY <1>3 DEF OrderOK
<1>5. \A j \in DOMAIN w : w[j] \in DOMAIN conns \ {a}
  BY <1>1, <1>3 DEF OrderOK
<1>6. \A b \in DOMAIN conns \ {a} : \E j \in DOMAIN w : w[j] = b
  BY <1>1, <1>3 DEF OrderOK
<1>7. w = Without(a)
  BY DEF Without, w, i
<1> QED
  BY <1>3, <1>4, <1>5, <1>6, <1>7

LEMMA LeftFinite ==
    ASSUME OrderOK, NEW left, left \subseteq DOMAIN conns
    PROVE  IsFiniteSet(left) /\ Cardinality(left) <= ConnLimit
<1>1. /\ IsFiniteSet(left) /\ Cardinality(left) <= Cardinality(DOMAIN conns)
      /\ Cardinality(left) \in Nat /\ Cardinality(DOMAIN conns) \in Nat
  BY FS_Subset, FS_CardinalityType DEF OrderOK
<1> QED
  BY <1>1, ForwardAssumption DEF OrderOK

LEMMA OrderForgetOne ==
    ASSUME OrderOK, NEW a \in DOMAIN conns, ForgetOne(a)
    PROVE  OrderOK'
<1>1. DOMAIN conns' = DOMAIN conns \ {a} /\ order' = Without(a)
  BY DEF ForgetOne, Forget, Restrict
<1>2. IsFiniteSet(DOMAIN conns') /\ Cardinality(DOMAIN conns') <= ConnLimit
  BY <1>1, LeftFinite
<1> QED
  BY <1>1, <1>2, WithoutFacts DEF OrderOK

LEMMA OrderTouched ==
    ASSUME OrderOK, NEW a \in DOMAIN conns, order' = Touched(a),
           DOMAIN conns' = DOMAIN conns
    PROVE  OrderOK'
<1> DEFINE w == Without(a)
<1>1. /\ w \in Seq(Addresses)
      /\ \A i, j \in DOMAIN w : w[i] = w[j] => i = j
      /\ \A i \in DOMAIN w : w[i] \in DOMAIN conns \ {a}
      /\ \A b \in DOMAIN conns \ {a} : \E i \in DOMAIN w : w[i] = b
  BY WithoutFacts
<1>2. order' = Append(w, a)
  BY DEF Touched
<1>3. a \in Addresses
  BY DEF OrderOK
<1> HIDE DEF w
<1>4. /\ order' \in Seq(Addresses) /\ Len(order') = Len(w) + 1
      /\ DOMAIN order' = 1 .. Len(w) + 1 /\ DOMAIN w = 1 .. Len(w) /\ Len(w) \in Nat
      /\ order'[Len(w) + 1] = a
      /\ \A i \in DOMAIN w : order'[i] = w[i]
  BY <1>1, <1>2, <1>3
<1>5. \A i, j \in DOMAIN order' : order'[i] = order'[j] => i = j
  BY <1>1, <1>4
<1>6. /\ \A i \in DOMAIN order' : order'[i] \in DOMAIN conns
      /\ \A b \in DOMAIN conns : \E i \in DOMAIN order' : order'[i] = b
  BY <1>1, <1>4
<1> QED
  BY <1>4, <1>5, <1>6 DEF OrderOK

LEMMA OrderExpired ==
    ASSUME OrderOK, Expire
    PROVE  OrderOK'
<1>1. PICK k \in 0 .. Len(order) :
        /\ Forget({a \in DOMAIN conns : \E i \in 1 .. k : order[i] = a})
        /\ order' = SubSeq(order, k + 1, Len(order))
  BY DEF Expire
<1> DEFINE gone == {a \in DOMAIN conns : \E i \in 1 .. k : order[i] = a}
<1>2. DOMAIN conns' = DOMAIN conns \ gone
  BY <1>1 DEF Forget, Restrict
<1>3. order \in Seq(Addresses) /\ Len(order) \in Nat /\ DOMAIN order = 1 .. Len(order)
  BY DEF OrderOK
<1>4. /\ order' \in Seq(Addresses) /\ DOMAIN order' = 1 .. Len(order) - k
      /\ \A i \in 1 .. Len(order) - k : order'[i] = order[i + k]
  BY <1>1, <1>3
<1>5. \A i \in DOMAIN order' : i + k \in DOMAIN order /\ i + k \notin 1 .. k
  BY <1>3, <1>4
<1>6. \A i, j \in DOMAIN order' : order'[i] = order'[j] => i = j
  <2>1. \A i, j \in DOMAIN order' : order'[i] = order'[j] => i + k = j + k
    BY <1>4, <1>5 DEF OrderOK
  <2> QED
    BY <1>4, <2>1
<1>7. \A i \in DOMAIN order' : order'[i] \in DOMAIN conns'
  <2>1. ASSUME NEW i \in DOMAIN order'
        PROVE  order[i + k] \in DOMAIN conns \ gone
    <3>1. \A j \in 1 .. k : j \in DOMAIN order /\ j # i + k
      BY <1>3, <1>4
    <3> QED
      BY <1>5, <3>1 DEF OrderOK
  <2> QED
    BY <1>2, <1>4, <2>1
<1>8. \A a \in DOMAIN conns' : \E i \in DOMAIN order' : order'[i] = a
  <2> SUFFICES ASSUME NEW a \in DOMAIN conns'
               PROVE  \E i \in DOMAIN order' : order'[i] = a
    OBVIOUS
  <2>1. PICK j \in DOMAIN order : order[j] = a
    BY <1>2 DEF OrderOK
  <2>2. j \notin 1 .. k
    BY <1>2, <2>1
  <2>3. j - k \in 1 .. Len(order) - k /\ (j - k) + k = j
    BY <1>3, <2>2
  <2> QED
    BY <1>4, <2>1, <2>3
<1>9. IsFiniteSet(DOMAIN conns') /\ Cardinality(DOMAIN conns') <= ConnLimit
  BY <1>2, LeftFinite
<1> QED
  BY <1>2, <1>4, <1>6, <1>7, <1>8, <1>9 DEF OrderOK

LEMMA OrderRemoved ==
    ASSUME OrderOK, RemoveForwarder
    PROVE  OrderOK'
<1>1. DOMAIN conns' = {} /\ order' = <<>>
  BY DEF RemoveForwarder, Forget, Restrict
<1>2. IsFiniteSet(DOMAIN conns') /\ Cardinality(DOMAIN conns') <= ConnLimit
  BY <1>1, LeftFinite
<1>3. <<>> \in Seq(Addresses) /\ DOMAIN <<>> = {}
  BY NoneFacts
<1> QED
  BY <1>1, <1>2, <1>3 DEF OrderOK

\* A connection is made, and the oldest one goes if there are too many.
LEMMA OrderNew ==
    ASSUME OrderOK, NEW a \in Addresses, ReceiveNew(a)
    PROVE  OrderOK'
<1> DEFINE old == Oldest
           rest == IF old = {} THEN order ELSE Tail(order)
           left == DOMAIN conns \ old
<1>1. a \notin DOMAIN conns /\ DOMAIN conns' = left \cup {a} /\ order' = Append(rest, a)
  BY DEF ReceiveNew
<1>2. order \in Seq(Addresses) /\ Len(order) \in Nat /\ DOMAIN order = 1 .. Len(order)
  BY DEF OrderOK
<1>3. IsFiniteSet(DOMAIN conns) /\ Cardinality(DOMAIN conns) \in Nat
  BY FS_CardinalityType DEF OrderOK
<1>4. /\ rest \in Seq(Addresses)
      /\ \A i, j \in DOMAIN rest : rest[i] = rest[j] => i = j
      /\ \A i \in DOMAIN rest : rest[i] \in left
      /\ \A b \in left : \E i \in DOMAIN rest : rest[i] = b
      /\ IsFiniteSet(left) /\ Cardinality(left) < ConnLimit
  <2>1. CASE old = {}
    <3>1. ~(Cardinality(DOMAIN conns) >= ConnLimit)
      <4>1. SUFFICES ASSUME Cardinality(DOMAIN conns) >= ConnLimit PROVE FALSE
        OBVIOUS
      <4>2. DOMAIN conns # {}
        BY <4>1, FS_EmptySet, ForwardAssumption
      <4>3. 1 \in DOMAIN order /\ Head(order) = order[1]
        BY <1>2, <4>2 DEF OrderOK
      <4> QED
        BY <2>1, <4>1, <4>3 DEF Oldest, OrderOK
    <3>2. Cardinality(DOMAIN conns) < ConnLimit
      BY <1>3, <3>1, ForwardAssumption
    <3> QED
      BY <1>2, <1>3, <2>1, <3>2 DEF OrderOK
  <2>2. CASE old # {}
    <3>1. PICK o \in DOMAIN conns : old = {o} /\ o = Head(order)
      BY <2>2 DEF Oldest
    <3>2. order # <<>> /\ 1 \in DOMAIN order /\ order[1] = o
      BY <1>2, <3>1 DEF OrderOK
    <3>3. /\ rest \in Seq(Addresses) /\ DOMAIN rest = 1 .. Len(order) - 1
          /\ \A i \in 1 .. Len(order) - 1 : rest[i] = order[i + 1]
      BY <1>2, <2>2, <3>2
    <3> HIDE DEF rest
    <3>4. \A i \in DOMAIN rest : i + 1 \in DOMAIN order /\ i + 1 # 1
      BY <1>2, <3>3
    <3>5. \A i, j \in DOMAIN rest : rest[i] = rest[j] => i = j
      <4>1. \A i, j \in DOMAIN rest : rest[i] = rest[j] => i + 1 = j + 1
        BY <3>3, <3>4 DEF OrderOK
      <4> QED
        BY <3>3, <4>1
    <3>6. \A i \in DOMAIN rest : rest[i] \in left
      <4>1. \A i \in DOMAIN rest : order[i + 1] \in DOMAIN conns /\ order[i + 1] # o
        BY <3>2, <3>4 DEF OrderOK
      <4> QED
        BY <3>1, <3>3, <4>1
    <3>7. ASSUME NEW b \in left
          PROVE  \E i \in DOMAIN rest : rest[i] = b
      <4>1. PICK j \in DOMAIN order : order[j] = b
        BY DEF OrderOK
      <4>2. j # 1
        BY <3>1, <3>2, <4>1
      <4>3. j - 1 \in 1 .. Len(order) - 1 /\ (j - 1) + 1 = j
        BY <1>2, <4>2
      <4> QED
        BY <3>3, <4>1, <4>3
    <3>8. IsFiniteSet(left) /\ Cardinality(left) = Cardinality(DOMAIN conns) - 1
      BY <1>3, <3>1, FS_RemoveElement
    <3>9. Cardinality(left) < ConnLimit
      BY <1>3, <3>8, ForwardAssumption DEF OrderOK
    <3> QED
      BY <3>3, <3>5, <3>6, <3>7, <3>8, <3>9
  <2> QED
    BY <2>1, <2>2
<1>5. a \notin left
  BY <1>1
<1> HIDE DEF rest, left
<1>6. /\ order' \in Seq(Addresses)
      /\ DOMAIN order' = 1 .. Len(rest) + 1 /\ DOMAIN rest = 1 .. Len(rest) /\ Len(rest) \in Nat
      /\ order'[Len(rest) + 1] = a
      /\ \A i \in DOMAIN rest : order'[i] = rest[i]
  BY <1>1, <1>4
<1>7. \A i, j \in DOMAIN order' : order'[i] = order'[j] => i = j
  BY <1>4, <1>5, <1>6
<1>8. /\ \A i \in DOMAIN order' : order'[i] \in DOMAIN conns'
      /\ \A b \in DOMAIN conns' : \E i \in DOMAIN order' : order'[i] = b
  BY <1>1, <1>4, <1>6
<1>9. IsFiniteSet(DOMAIN conns') /\ Cardinality(DOMAIN conns') <= ConnLimit
  <2>1. /\ IsFiniteSet(left \cup {a})
        /\ Cardinality(left \cup {a}) = Cardinality(left) + 1
    BY <1>4, <1>5, FS_AddElement
  <2>2. Cardinality(left) \in Nat
    BY <1>4, FS_CardinalityType
  <2> QED
    BY <1>1, <1>4, <2>1, <2>2, ForwardAssumption
<1> QED
  BY <1>6, <1>7, <1>8, <1>9 DEF OrderOK

LEMMA OrderSame ==
    ASSUME OrderOK, DOMAIN conns' = DOMAIN conns, order' = order
    PROVE  OrderOK'
  BY DEF OrderOK

-----------------------------------------------------------------------------
(* How the channels change *)

\* c1 is c without its first message, if d = 1, with ms after it.
Follows(c1, c, d, ms) ==
    /\ c1 \in Seq(Message) /\ Len(c1) + d = Len(c) + Len(ms) /\ d <= 1
    /\ \A j \in DOMAIN c1 :
        \/ j + d \in DOMAIN c /\ c1[j] = c[j + d]
        \/ \E k \in DOMAIN ms : j + d = Len(c) + k /\ c1[j] = ms[k]
    /\ \A k \in DOMAIN c : k > d => \E j \in DOMAIN c1 : j + d = k /\ c1[j] = c[k]
    /\ \A k \in DOMAIN ms : \E j \in DOMAIN c1 : j + d = Len(c) + k /\ c1[j] = ms[k]

LEMMA Before ==
    ASSUME NEW c \in Seq(Message), NEW c1, NEW d \in Nat, NEW ms \in Seq(Message),
           Follows(c1, c, d, ms)
    PROVE  \A j \in DOMAIN c1 :
            (\E i \in DOMAIN c : c1[j] = c[i]) \/ (\E i \in DOMAIN ms : c1[j] = ms[i])
  BY DEF Follows

LEMMA MoreFollows ==
    ASSUME NEW c \in Seq(Message), NEW ms \in Seq(Message)
    PROVE  Follows(c \o ms, c, 0, ms)
<1> DEFINE c1 == c \o ms
<1>1. /\ DOMAIN c = 1 .. Len(c) /\ Len(c) \in Nat
      /\ DOMAIN ms = 1 .. Len(ms) /\ Len(ms) \in Nat
  OBVIOUS
<1>2. /\ c1 \in Seq(Message) /\ Len(c1) = Len(c) + Len(ms)
      /\ \A k \in 1 .. Len(c) : c1[k] = c[k]
      /\ \A k \in 1 .. Len(ms) : c1[Len(c) + k] = ms[k]
  BY Concatenated
<1> HIDE DEF c1
<1>3. DOMAIN c1 = 1 .. Len(c) + Len(ms)
  BY <1>2
<1>4. ASSUME NEW j \in DOMAIN c1
      PROVE  \/ j + 0 \in DOMAIN c /\ c1[j] = c[j + 0]
             \/ \E k \in DOMAIN ms : j + 0 = Len(c) + k /\ c1[j] = ms[k]
  <2>1. CASE j <= Len(c)
    BY <1>1, <1>2, <1>3, <2>1
  <2>2. CASE j > Len(c)
    <3>1. j - Len(c) \in 1 .. Len(ms) /\ Len(c) + (j - Len(c)) = j
      BY <1>1, <1>3, <2>2
    <3>2. PICK k \in 1 .. Len(ms) : Len(c) + k = j
      BY <3>1
    <3>3. j + 0 = Len(c) + k
      BY <1>1, <1>3, <3>2
    <3>4. k \in DOMAIN ms /\ c1[j] = ms[k]
      BY <1>1, <1>2, <3>2
    <3> QED
      BY <3>3, <3>4
  <2> QED
    BY <1>1, <1>3, <2>1, <2>2
<1>5. \A k \in DOMAIN c : k > 0 => \E j \in DOMAIN c1 : j + 0 = k /\ c1[j] = c[k]
  BY <1>1, <1>2, <1>3
<1>6. ASSUME NEW k \in DOMAIN ms
      PROVE  \E j \in DOMAIN c1 : j + 0 = Len(c) + k /\ c1[j] = ms[k]
  <2>1. Len(c) + k \in DOMAIN c1 /\ (Len(c) + k) + 0 = Len(c) + k
    BY <1>1, <1>3
  <2> QED
    BY <1>1, <1>2, <2>1
<1>7. Len(c1) + 0 = Len(c) + Len(ms)
  BY <1>1, <1>2
<1> QED
  BY <1>2, <1>4, <1>5, <1>6, <1>7 DEF Follows, c1

LEMMA TailFollows ==
    ASSUME NEW c \in Seq(Message), c # <<>>
    PROVE  Follows(Tail(c), c, 1, <<>>)
<1> DEFINE c1 == Tail(c)
           none == <<>>
<1>1. DOMAIN c = 1 .. Len(c) /\ Len(c) \in Nat /\ Len(c) >= 1
  OBVIOUS
<1>2. /\ c1 \in Seq(Message) /\ Len(c1) = Len(c) - 1 /\ DOMAIN c1 = 1 .. Len(c) - 1
      /\ \A j \in 1 .. Len(c) - 1 : c1[j] = c[j + 1]
  OBVIOUS
<1>3. DOMAIN none = {} /\ Len(none) = 0
  BY NoneFacts
<1> HIDE DEF c1, none
<1>4. \A j \in DOMAIN c1 : j + 1 \in DOMAIN c /\ c1[j] = c[j + 1]
  BY <1>1, <1>2
<1>5. ASSUME NEW k \in DOMAIN c, k > 1
      PROVE  \E j \in DOMAIN c1 : j + 1 = k /\ c1[j] = c[k]
  <2>1. k - 1 \in DOMAIN c1 /\ (k - 1) + 1 = k
    BY <1>1, <1>2, <1>5
  <2> QED
    BY <1>2, <2>1
<1>6. Len(c1) + 1 = Len(c) + Len(none)
  BY <1>1, <1>2, <1>3
<1>7. Follows(c1, c, 1, none)
  BY <1>2, <1>3, <1>4, <1>5, <1>6 DEF Follows
<1> QED
  BY <1>7 DEF c1, none

LEMMA SameFollows ==
    ASSUME NEW c \in Seq(Message)
    PROVE  Follows(c, c, 0, <<>>)
<1> DEFINE none == <<>>
<1>1. /\ DOMAIN c = 1 .. Len(c) /\ Len(c) \in Nat
      /\ DOMAIN none = {} /\ Len(none) = 0
  BY NoneFacts
<1> HIDE DEF none
<1>2. \A j \in DOMAIN c : j + 0 = j
  BY <1>1
<1>3. Len(c) + 0 = Len(c) + Len(none)
  BY <1>1
<1>4. Follows(c, c, 0, none)
  BY <1>1, <1>2, <1>3 DEF Follows
<1> QED
  BY <1>4 DEF none

\* Messages other than SOCKET and DATA.
Plain(ms) == \A k \in DOMAIN ms : ms[k].type \notin {"SOCKET", "DATA"}

LEMMA PlainBefore ==
    ASSUME NEW c \in Seq(Message), NEW c1, NEW d \in Nat, NEW ms \in Seq(Message),
           Follows(c1, c, d, ms), Plain(ms)
    PROVE  /\ c1 \in Seq(Message) /\ Len(c1) + d >= Len(c)
           /\ \A j \in DOMAIN c1 :
                c1[j].type \in {"SOCKET", "DATA"} => j + d \in DOMAIN c /\ c1[j] = c[j + d]
<1>1. c1 \in Seq(Message) /\ Len(c1) + d = Len(c) + Len(ms)
  BY DEF Follows
<1>2. Len(c1) \in Nat /\ Len(c) \in Nat /\ Len(ms) \in Nat
  BY <1>1
<1>3. Len(c1) + d >= Len(c)
  BY <1>1, <1>2
<1>4. \A j \in DOMAIN c1 :
        c1[j].type \in {"SOCKET", "DATA"} => j + d \in DOMAIN c /\ c1[j] = c[j + d]
  BY DEF Follows, Plain
<1> QED
  BY <1>1, <1>3, <1>4

LEMMA PlainFollows ==
    ASSUME NEW c \in Seq(Message), NEW c1, NEW d \in Nat, NEW ms \in Seq(Message),
           Follows(c1, c, d, ms), Plain(ms)
    PROVE  /\ Rising(c) => Rising(c1)
           /\ Once(c) => Once(c1)
<1>1. \A j \in DOMAIN c1 : j \in Nat
  <2>1. c1 \in Seq(Message)
    BY DEF Follows
  <2>2. DOMAIN c1 = 1 .. Len(c1) /\ Len(c1) \in Nat
    BY <2>1
  <2> QED
    BY <2>2
<1>2. \A j \in DOMAIN c1 :
        c1[j].type \in {"SOCKET", "DATA"} => j + d \in DOMAIN c /\ c1[j] = c[j + d]
  BY PlainBefore
<1>3. ASSUME Rising(c)
      PROVE  Rising(c1)
  <2> SUFFICES ASSUME NEW j \in DOMAIN c1, NEW k \in DOMAIN c1, j < k,
                      c1[j].type = "SOCKET", c1[k].type = "SOCKET"
               PROVE  c1[j].id < c1[k].id
    BY DEF Rising
  <2>1. /\ j + d \in DOMAIN c /\ c1[j] = c[j + d]
        /\ k + d \in DOMAIN c /\ c1[k] = c[k + d]
    BY <1>2
  <2>2. j + d < k + d
    BY <1>1
  <2> QED
    BY <1>3, <2>1, <2>2 DEF Rising
<1>4. ASSUME Once(c)
      PROVE  Once(c1)
  <2> SUFFICES ASSUME NEW j \in DOMAIN c1, NEW k \in DOMAIN c1,
                      c1[j].type = "DATA", c1[k].type = "DATA",
                      c1[j].packet = c1[k].packet
               PROVE  j = k
    BY DEF Once
  <2>1. /\ j + d \in DOMAIN c /\ c1[j] = c[j + d]
        /\ k + d \in DOMAIN c /\ c1[k] = c[k + d]
    BY <1>2
  <2>2. j + d = k + d
    BY <1>4, <2>1 DEF Once
  <2> QED
    BY <1>1, <2>2
<1> QED
  BY <1>3, <1>4

\* The socket s of ss is still the same in ss1, but for its target, which it has
\* got if CONNECT was the first one of d messages taken from c.
Continues(s, d, c, ss, ss1) ==
    s \in DOMAIN ss1 =>
        /\ s \in DOMAIN ss /\ (ss[s].to => ss1[s].to)
        /\ d = 1 /\ c[1] = Connect(s) => ss1[s].to

\* CONNECT keeps its place ahead of the DATA for its socket, or the socket has
\* got its target.
LEMMA AimFollows ==
    ASSUME NEW c \in Seq(Message), NEW c1, NEW d \in Nat, NEW ms \in Seq(Message),
           Follows(c1, c, d, ms),
           NEW ss, NEW ss1, NEW s, NEW j \in Nat, NEW k \in Nat, k + d >= j,
           Aimed(s, j, c, ss),
           Continues(s, d, c, ss, ss1)
    PROVE  Aimed(s, k, c1, ss1)
<1> SUFFICES ASSUME s \in DOMAIN ss1, ~ss1[s].to
             PROVE  \E i \in DOMAIN c1 : i < k /\ c1[i] = Connect(s)
  BY DEF Aimed
<1>1. PICK i \in DOMAIN c : i < j /\ c[i] = Connect(s)
  BY DEF Aimed, Continues
<1>2. i \in Nat \ {0}
  OBVIOUS
<1>3. i > d
  BY <1>1, <1>2 DEF Continues, Follows
<1>4. PICK l \in DOMAIN c1 : l + d = i /\ c1[l] = c[i]
  BY <1>3 DEF Follows
<1>5. l \in Nat
  <2>1. c1 \in Seq(Message)
    BY DEF Follows
  <2>2. DOMAIN c1 = 1 .. Len(c1) /\ Len(c1) \in Nat
    BY <2>1
  <2> QED
    BY <2>2
<1>6. l < k
  BY <1>1, <1>2, <1>4, <1>5
<1> QED
  BY <1>1, <1>4, <1>6

LEMMA SentToFar ==
    ASSUME ChanOK, NEW ms \in Seq(Message), Send("near", ms)
    PROVE  /\ ChanOK' /\ Follows(chan.far', chan.far, 0, ms)
           /\ Follows(chan.near', chan.near, 0, <<>>)
<1>1. /\ chan.far \in Seq(Message) /\ chan.near \in Seq(Message)
      /\ DOMAIN chan = Peers
  BY DEF ChanOK, Peers
<1>2. chan' = [chan EXCEPT !["far"] = @ \o ms]
  BY DEF Send, Other
<1>3. chan.far' = chan.far \o ms /\ chan.near' = chan.near
  BY <1>1, <1>2 DEF Peers
<1>4. Follows(chan.far', chan.far, 0, ms)
  BY <1>1, <1>3, MoreFollows
<1>5. Follows(chan.near', chan.near, 0, <<>>)
  BY <1>1, <1>3, SameFollows
<1>6. chan.far' \in Seq(Message)
  BY <1>4 DEF Follows
<1> QED
  BY <1>1, <1>2, <1>3, <1>4, <1>5, <1>6 DEF ChanOK, Peers

LEMMA SentToNear ==
    ASSUME ChanOK, NEW ms \in Seq(Message), Send("far", ms)
    PROVE  /\ ChanOK' /\ Follows(chan.far', chan.far, 0, <<>>)
           /\ Follows(chan.near', chan.near, 0, ms)
<1>1. /\ chan.far \in Seq(Message) /\ chan.near \in Seq(Message)
      /\ DOMAIN chan = Peers
  BY DEF ChanOK, Peers
<1>2. chan' = [chan EXCEPT !["near"] = @ \o ms]
  BY DEF Send, Other
<1>3. chan.near' = chan.near \o ms /\ chan.far' = chan.far
  BY <1>1, <1>2 DEF Peers
<1>4. Follows(chan.near', chan.near, 0, ms)
  BY <1>1, <1>3, MoreFollows
<1>5. Follows(chan.far', chan.far, 0, <<>>)
  BY <1>1, <1>3, SameFollows
<1>6. chan.near' \in Seq(Message)
  BY <1>4 DEF Follows
<1> QED
  BY <1>1, <1>2, <1>3, <1>4, <1>5, <1>6 DEF ChanOK, Peers

LEMMA HandledAtNear ==
    ASSUME ChanOK, NEW ms \in Seq(Message), Handled("near", ms), chan.near # <<>>
    PROVE  /\ ChanOK' /\ Follows(chan.far', chan.far, 0, ms)
           /\ Follows(chan.near', chan.near, 1, <<>>)
<1>1. /\ chan.far \in Seq(Message) /\ chan.near \in Seq(Message)
      /\ DOMAIN chan = Peers
  BY DEF ChanOK, Peers
<1>2. chan' = [chan EXCEPT !["near"] = Tail(@), !["far"] = @ \o ms]
  BY DEF Handled, Other
<1>3. chan.far' = chan.far \o ms /\ chan.near' = Tail(chan.near)
  BY <1>1, <1>2 DEF Peers
<1>4. Follows(chan.far', chan.far, 0, ms)
  BY <1>1, <1>3, MoreFollows
<1>5. Follows(chan.near', chan.near, 1, <<>>)
  BY <1>1, <1>3, TailFollows
<1>6. chan.far' \in Seq(Message) /\ chan.near' \in Seq(Message)
  BY <1>4, <1>5 DEF Follows
<1> QED
  BY <1>1, <1>2, <1>3, <1>4, <1>5, <1>6 DEF ChanOK, Peers

LEMMA HandledAtFar ==
    ASSUME ChanOK, NEW ms \in Seq(Message), Handled("far", ms), chan.far # <<>>
    PROVE  /\ ChanOK' /\ Follows(chan.far', chan.far, 1, <<>>)
           /\ Follows(chan.near', chan.near, 0, ms)
<1>1. /\ chan.far \in Seq(Message) /\ chan.near \in Seq(Message)
      /\ DOMAIN chan = Peers
  BY DEF ChanOK, Peers
<1>2. chan' = [chan EXCEPT !["far"] = Tail(@), !["near"] = @ \o ms]
  BY DEF Handled, Other
<1>3. chan.near' = chan.near \o ms /\ chan.far' = Tail(chan.far)
  BY <1>1, <1>2 DEF Peers
<1>4. Follows(chan.near', chan.near, 0, ms)
  BY <1>1, <1>3, MoreFollows
<1>5. Follows(chan.far', chan.far, 1, <<>>)
  BY <1>1, <1>3, TailFollows
<1>6. chan.far' \in Seq(Message) /\ chan.near' \in Seq(Message)
  BY <1>4, <1>5 DEF Follows
<1> QED
  BY <1>1, <1>2, <1>3, <1>4, <1>5, <1>6 DEF ChanOK, Peers

LEMMA FirstMessage ==
    ASSUME ChanOK, NEW p \in Peers, NEW m, Receive(p, m)
    PROVE  chan[p] # <<>> /\ 1 \in DOMAIN chan[p] /\ chan[p][1] = m
<1>1. chan[p] \in Seq(Message)
  BY DEF ChanOK
<1> QED
  BY <1>1 DEF Receive

-----------------------------------------------------------------------------
(* What steps keep *)

\* s1 begins with s.
Extends(s1, s) == \A i \in DOMAIN s : i \in DOMAIN s1 /\ s1[i] = s[i]

LEMMA FarKept ==
    ASSUME NEW c \in Seq(Message), NEW c1, NEW d \in Nat, NEW ms \in Seq(Message),
           Follows(c1, c, d, ms),
           NEW as, NEW as1, NEW cs, NEW n \in Nat, NEW n1 \in Nat, n <= n1,
           Range(cs) \subseteq DOMAIN as, Extends(as1, as),
           AllFarFit(c, as, cs, n), AllFarFit(ms, as1, cs, n1)
    PROVE  AllFarFit(c1, as1, cs, n1)
<1>1. ASSUME NEW j \in DOMAIN c
      PROVE  FarFits(c[j], as1, cs, n1)
  <2>1. FarFits(c[j], as, cs, n)
    BY DEF AllFarFit
  <2>2. ASSUME c[j].type = "DATA"
        PROVE  c[j].packet.n <= n1 /\ as1[cs[c[j].id]] = c[j].packet.from
    <3>1. c[j].packet \in Packet /\ c[j].packet.n <= n
      BY <2>1, <2>2 DEF FarFits
    <3>2. c[j].packet.n \in Int
      BY <3>1, ForwardAssumption DEF Packet
    <3>3. c[j].packet.n <= n1
      BY <3>1, <3>2
    <3>4. c[j].id \in DOMAIN cs /\ as[cs[c[j].id]] = c[j].packet.from
      BY <2>1, <2>2 DEF FarFits
    <3>5. cs[c[j].id] \in DOMAIN as
      BY <3>4 DEF Range
    <3> QED
      BY <3>3, <3>4, <3>5 DEF Extends
  <2>3. c[j].type = "SOCKET" => c[j].id \in DOMAIN as1
    BY <2>1 DEF FarFits, Extends
  <2> QED
    BY <2>1, <2>2, <2>3 DEF FarFits
<1>2. \A j \in DOMAIN c1 :
        (\E i \in DOMAIN c : c1[j] = c[i]) \/ (\E i \in DOMAIN ms : c1[j] = ms[i])
  BY Before
<1> QED
  BY <1>1, <1>2 DEF AllFarFit

LEMMA NearKept ==
    ASSUME NEW c \in Seq(Message), NEW c1, NEW d \in Nat, NEW ms \in Seq(Message),
           Follows(c1, c, d, ms),
           NEW cs, NEW cs1, NEW n \in Nat, NEW n1 \in Nat, n <= n1,
           Extends(cs1, cs), AllNearFit(c, cs, n), AllNearFit(ms, cs1, n1)
    PROVE  AllNearFit(c1, cs1, n1)
<1>1. ASSUME NEW j \in DOMAIN c
      PROVE  NearFits(c[j], cs1, n1)
  <2>1. NearFits(c[j], cs, n)
    BY DEF AllNearFit
  <2>2. ASSUME c[j].type = "DATA"
        PROVE  c[j].packet.n <= n1
    <3>1. c[j].packet \in Reply /\ c[j].packet.n <= n
      BY <2>1, <2>2 DEF NearFits
    <3>2. c[j].packet.n \in Int
      BY <3>1, ForwardAssumption DEF Reply
    <3> QED
      BY <3>1, <3>2
  <2> QED
    BY <2>1, <2>2 DEF NearFits, Extends
<1>2. \A j \in DOMAIN c1 :
        (\E i \in DOMAIN c : c1[j] = c[i]) \/ (\E i \in DOMAIN ms : c1[j] = ms[i])
  BY Before
<1> QED
  BY <1>1, <1>2 DEF AllNearFit

LEMMA HeldKept ==
    ASSUME NEW c \in Seq(Message), NEW c1, NEW d \in Nat, NEW ms \in Seq(Message),
           Follows(c1, c, d, ms),
           NEW a, NEW q \in Seq(Packet), NEW n \in Nat, NEW n1 \in Nat, n <= n1,
           Held(q, a, n, c),
           \A k \in DOMAIN ms, l \in DOMAIN q : ms[k].type = "DATA" => ms[k].packet # q[l]
    PROVE  Held(q, a, n1, c1)
<1>1. ASSUME NEW k \in DOMAIN q
      PROVE  q[k].n <= n1
  <2>1. q[k] \in Packet
    OBVIOUS
  <2>2. q[k].n \in Int
    BY <2>1, ForwardAssumption DEF Packet
  <2>3. q[k].n <= n
    BY DEF Held
  <2> QED
    BY <2>2, <2>3
<1>2. \A j \in DOMAIN c1 :
        (\E i \in DOMAIN c : c1[j] = c[i]) \/ (\E i \in DOMAIN ms : c1[j] = ms[i])
  BY Before
<1>3. \A k \in DOMAIN q, j \in DOMAIN c : c[j].type = "DATA" => c[j].packet # q[k]
  BY DEF Held
<1>4. \A k \in DOMAIN q, j \in DOMAIN c1 : c1[j].type = "DATA" => c1[j].packet # q[k]
  BY <1>2, <1>3
<1> QED
  BY <1>1, <1>4 DEF Held

\* What every state has that FlowInv holds in.
LEMMA Facts ==
    ASSUME FlowInv
    PROVE  /\ chan.far \in Seq(Message) /\ chan.near \in Seq(Message)
           /\ origin \in Seq(Addresses) /\ mate \in Seq(Ids)
           /\ taken.there \in 0 .. MaxPackets /\ taken.back \in 0 .. MaxReplies
           /\ taken.there \in Nat /\ taken.back \in Nat
           /\ \A a \in DOMAIN conns : a \in Addresses /\ conns[a] \in Connection
<1>1. chan.far \in Seq(Message) /\ chan.near \in Seq(Message)
  BY DEF FlowInv, ChanOK, Peers
<1>2. taken.there \in 0 .. MaxPackets /\ taken.back \in 0 .. MaxReplies
  BY DEF FlowInv, IInv, CountersOK
<1>3. taken.there \in Nat /\ taken.back \in Nat
  BY <1>2, ForwardAssumption
<1> QED
  BY <1>1, <1>2, <1>3 DEF FlowInv, IInv, CountersOK, ConnsOK, SocksOK

\* So do all the sockets that there have been.
SocksContinue(d) ==
    \A s \in DOMAIN mate : Continues(s, d, chan.far, socks, socks')

\* A packet that follows its CONNECT still does, one that is sent by now does too.
LEMMA StillAimed ==
    ASSUME FlowInv, NEW d \in Nat, NEW ms \in Seq(Message),
           Follows(chan.far', chan.far, d, ms), SocksContinue(d)
    PROVE  /\ \A j \in DOMAIN chan.far, k \in Nat :
                chan.far[j].type = "DATA" /\ k + d >= j =>
                    Aimed(chan.far[j].id, k, chan.far', socks')
           /\ \A a \in DOMAIN conns, k \in Nat :
                conns[a].rid # 0 /\ k + d > Len(chan.far) =>
                    Aimed(conns[a].rid, k, chan.far', socks')
<1> DEFINE F == chan.far
           F1 == chan.far'
<1>1. F \in Seq(Message) /\ Len(F) \in Nat /\ DOMAIN F = 1 .. Len(F)
  <2>1. F \in Seq(Message)
    BY Facts
  <2> QED
    BY <2>1
<1>2. ASSUME NEW j \in DOMAIN F, NEW k \in Nat, F[j].type = "DATA", k + d >= j
      PROVE  Aimed(F[j].id, k, chan.far', socks')
  <2> DEFINE s == F[j].id
  <2>1. Aimed(s, j, F, socks) /\ s \in DOMAIN mate
    BY <1>2 DEF FlowInv, TargetOK, MessagesFit, AllFarFit, FarFits
  <2>2. j \in Nat
    BY <1>1
  <2>3. Continues(s, d, F, socks, socks')
    BY <2>1 DEF SocksContinue
  <2> HIDE DEF s, F, F1
  <2>5. Follows(F1, F, d, ms)
    BY DEF F, F1
  <2>6. k + d >= j
    BY <1>2
  <2>7. Aimed(s, k, F1, socks')
    <3>1. F \in Seq(Message)
      BY <1>1
    <3>2. Aimed(s, j, F, socks)
      BY <2>1
    <3> QED
      BY <3>1, <3>2, <2>2, <2>3, <2>5, <2>6, AimFollows
  <2> QED
    BY <2>7 DEF s, F1
<1>3. ASSUME NEW a \in DOMAIN conns, NEW k \in Nat, conns[a].rid # 0, k + d > Len(F)
      PROVE  Aimed(conns[a].rid, k, chan.far', socks')
  <2> DEFINE s == conns[a].rid
             j == Len(F) + 1
  <2>1. Aimed(s, j, F, socks) /\ s \in DOMAIN mate
    BY <1>3 DEF FlowInv, TargetOK, LinksOK
  <2>2. j \in Nat /\ k + d >= j
    BY <1>1, <1>3
  <2>3. Continues(s, d, F, socks, socks')
    BY <2>1 DEF SocksContinue
  <2> HIDE DEF s, F, F1, j
  <2>5. Follows(F1, F, d, ms)
    BY DEF F, F1
  <2>6. Aimed(s, k, F1, socks')
    BY <1>1, <2>1, <2>2, <2>3, <2>5, AimFollows
  <2> QED
    BY <2>6 DEF s, F1
<1> QED
  BY <1>2, <1>3

-----------------------------------------------------------------------------
(* Steps that send neither SOCKET nor DATA and tell no connection of a socket *)

QuietToFar(ms) == \A k \in DOMAIN ms : ms[k].type \in {"CONNECT", "DATA_error", "CLOSE"}

QuietToNear(ms) ==
    \A k \in DOMAIN ms :
        /\ ms[k].type \in {"SOCKET_done", "CONNECT_done", "DATA_error", "CLOSE"}
        /\ ms[k].type = "SOCKET_done" => ms[k].rid = 0

\* Connections go, or stay as they are.
ConnsKept == \A a \in DOMAIN conns' : a \in DOMAIN conns /\ conns'[a] = conns[a]

\* No packet comes to be on its way.
NothingTaken == PacketsThere' \subseteq PacketsThere /\ PacketsBack' \subseteq PacketsBack

LEMMA ThereFacts ==
    /\ \A p : p \in PacketsThere <=>
        \/ \E a \in DOMAIN conns : \E k \in DOMAIN conns[a].q : conns[a].q[k] = p
        \/ \E j \in DOMAIN chan.far : chan.far[j].type = "DATA" /\ chan.far[j].packet = p
    /\ \A p : p \in PacketsBack <=>
        \E j \in DOMAIN chan.near : chan.near[j].type = "DATA" /\ chan.near[j].packet = p
<1>1. ASSUME NEW p
      PROVE  p \in PacketsThere <=>
        \/ \E a \in DOMAIN conns : \E k \in DOMAIN conns[a].q : conns[a].q[k] = p
        \/ \E j \in DOMAIN chan.far : chan.far[j].type = "DATA" /\ chan.far[j].packet = p
  <2>1. p \in UNION {ToSet(conns[a].q) : a \in DOMAIN conns} <=>
            \E a \in DOMAIN conns : \E k \in DOMAIN conns[a].q : conns[a].q[k] = p
    BY DEF ToSet
  <2>2. p \in {m.packet : m \in {x \in ToSet(chan.far) : x.type = "DATA"}} <=>
            \E j \in DOMAIN chan.far : chan.far[j].type = "DATA" /\ chan.far[j].packet = p
    BY DEF ToSet
  <2> QED
    BY <2>1, <2>2 DEF PacketsThere
<1>2. ASSUME NEW p
      PROVE  p \in PacketsBack <=>
        \E j \in DOMAIN chan.near : chan.near[j].type = "DATA" /\ chan.near[j].packet = p
  BY DEF PacketsBack, ToSet
<1> QED
  BY <1>1, <1>2

LEMMA ThereFactsNext ==
    /\ \A p : p \in PacketsThere' <=>
        \/ \E a \in DOMAIN conns' : \E k \in DOMAIN conns'[a].q : conns'[a].q[k] = p
        \/ \E j \in DOMAIN chan.far' : chan.far'[j].type = "DATA" /\ chan.far'[j].packet = p
    /\ \A p : p \in PacketsBack' <=>
        \E j \in DOMAIN chan.near' : chan.near'[j].type = "DATA" /\ chan.near'[j].packet = p
<1>1. ASSUME NEW p
      PROVE  p \in PacketsThere' <=>
        \/ \E a \in DOMAIN conns' : \E k \in DOMAIN conns'[a].q : conns'[a].q[k] = p
        \/ \E j \in DOMAIN chan.far' : chan.far'[j].type = "DATA" /\ chan.far'[j].packet = p
  <2>1. p \in UNION {ToSet(conns'[a].q) : a \in DOMAIN conns'} <=>
            \E a \in DOMAIN conns' : \E k \in DOMAIN conns'[a].q : conns'[a].q[k] = p
    BY DEF ToSet
  <2>2. p \in {m.packet : m \in {x \in ToSet(chan.far') : x.type = "DATA"}} <=>
            \E j \in DOMAIN chan.far' : chan.far'[j].type = "DATA" /\ chan.far'[j].packet = p
    BY DEF ToSet
  <2> QED
    BY <2>1, <2>2 DEF PacketsThere
<1>2. ASSUME NEW p
      PROVE  p \in PacketsBack' <=>
        \E j \in DOMAIN chan.near' : chan.near'[j].type = "DATA" /\ chan.near'[j].packet = p
  BY DEF PacketsBack, ToSet
<1> QED
  BY <1>1, <1>2

\* The connections that stay keep what they hold back.  What they know is new
\* only if CONNECT is under way.
QueuesStay ==
    \A a \in DOMAIN conns' :
        /\ a \in DOMAIN conns /\ conns'[a].q = conns[a].q
        /\ \/ conns'[a].rid \in {0, conns[a].rid}
           \/ Aimed(conns'[a].rid, Len(chan.far') + 1, chan.far', socks')

\* Messages other than SOCKET and DATA are sent.
LEMMA PlainStep ==
    ASSUME FlowInv, IInv', ChanOK', OrderOK', SocksOK', LinksOK', MessagesFit',
           NEW d \in Nat, NEW e \in Nat, NEW fm \in Seq(Message), NEW nm \in Seq(Message),
           Follows(chan.far', chan.far, d, fm), Follows(chan.near', chan.near, e, nm),
           Plain(fm), Plain(nm), SocksContinue(d), QueuesStay, UNCHANGED taken
    PROVE  FlowInv' /\ NothingTaken
<1> DEFINE F == chan.far
           F1 == chan.far'
           N == chan.near
           N1 == chan.near'
<1>1. /\ F \in Seq(Message) /\ N \in Seq(Message)
      /\ taken.there \in Nat /\ taken.there <= taken.there
  BY Facts
<1>2. Plain(fm) /\ Plain(nm)
  OBVIOUS
<1>3. Rising(F1) /\ Once(F1) /\ Once(N1)
  <2>1. Rising(F) /\ Once(F) /\ Once(N)
    BY DEF FlowInv
  <2> HIDE DEF F, F1, N, N1
  <2>2. Follows(F1, F, d, fm) /\ Follows(N1, N, e, nm)
    BY DEF F, F1, N, N1
  <2>3. Rising(F1) /\ Once(F1)
    BY <1>1, <1>2, <2>1, <2>2, PlainFollows
  <2>4. Once(N1)
    BY <1>1, <1>2, <2>1, <2>2, PlainFollows
  <2> QED
    BY <2>3, <2>4
<1>4. HeldOK'
  <2> SUFFICES ASSUME NEW a \in DOMAIN conns'
               PROVE  Held(conns'[a].q, a, taken.there, F1)
    BY DEF HeldOK
  <2> DEFINE q == conns[a].q
  <2>1. a \in DOMAIN conns /\ conns'[a].q = conns[a].q /\ q \in Seq(Packet)
    BY Facts DEF QueuesStay, Connection
  <2>2. Held(q, a, taken.there, F)
    BY <2>1 DEF FlowInv, HeldOK
  <2>3. \A k \in DOMAIN fm, l \in DOMAIN q : fm[k].type = "DATA" => fm[k].packet # q[l]
    BY <1>2 DEF Plain
  <2> HIDE DEF q, F, F1
  <2>4. Follows(F1, F, d, fm)
    BY DEF F, F1
  <2>5. q \in Seq(Packet)
    BY <2>1
  <2>6. Held(q, a, taken.there, F1)
    BY <1>1, <2>2, <2>3, <2>4, <2>5, HeldKept
  <2> QED
    BY <2>1, <2>6 DEF q
<1>5. TargetOK'
  <2>1. /\ \A j \in DOMAIN F, k \in Nat :
              F[j].type = "DATA" /\ k + d >= j => Aimed(F[j].id, k, F1, socks')
        /\ \A a \in DOMAIN conns, k \in Nat :
              conns[a].rid # 0 /\ k + d > Len(F) => Aimed(conns[a].rid, k, F1, socks')
    BY StillAimed
  <2>2. /\ F1 \in Seq(Message) /\ Len(F1) + d >= Len(F)
        /\ \A j \in DOMAIN F1 : F1[j].type = "DATA" => j + d \in DOMAIN F /\ F1[j] = F[j + d]
    <3> HIDE DEF F, F1
    <3>1. Follows(F1, F, d, fm)
      BY DEF F, F1
    <3> QED
      BY <1>1, <1>2, <3>1, PlainBefore
  <2>3. Len(F1) \in Nat /\ Len(F) \in Nat /\ DOMAIN F1 = 1 .. Len(F1) /\ DOMAIN F = 1 .. Len(F)
    BY <1>1, <2>2
  <2>4. ASSUME NEW j \in DOMAIN F1, F1[j].type = "DATA"
        PROVE  Aimed(F1[j].id, j, F1, socks')
    <3>1. j \in Nat /\ j + d >= j + d
      BY <2>3
    <3> QED
      BY <2>1, <2>2, <2>4, <3>1
  <2>5. ASSUME NEW a \in DOMAIN conns', conns'[a].rid # 0
        PROVE  Aimed(conns'[a].rid, Len(F1) + 1, F1, socks')
    <3>1. Len(F1) + 1 \in Nat /\ Len(F1) + 1 + d > Len(F)
      BY <2>2, <2>3
    <3>2. CASE conns'[a].rid = conns[a].rid
      BY <2>1, <2>5, <3>1, <3>2 DEF QueuesStay
    <3>3. CASE conns'[a].rid # conns[a].rid
      BY <2>5, <3>3 DEF QueuesStay
    <3> QED
      BY <3>2, <3>3
  <2> QED
    BY <2>4, <2>5 DEF TargetOK
<1>6. FlowInv'
  BY <1>3, <1>4, <1>5 DEF FlowInv
<1>7. PacketsThere' \subseteq PacketsThere
  <2> SUFFICES ASSUME NEW p \in PacketsThere' PROVE p \in PacketsThere
    OBVIOUS
  <2>1. \/ \E a \in DOMAIN conns' : \E k \in DOMAIN conns'[a].q : conns'[a].q[k] = p
        \/ \E j \in DOMAIN F1 : F1[j].type = "DATA" /\ F1[j].packet = p
    BY ThereFactsNext
  <2>2. \A j \in DOMAIN F1 : F1[j].type = "DATA" => \E i \in DOMAIN F : F1[j] = F[i]
    <3> HIDE DEF F, F1
    <3>1. Follows(F1, F, d, fm)
      BY DEF F, F1
    <3> QED
      BY <1>1, <1>2, <3>1, PlainBefore
  <2>3. \/ \E a \in DOMAIN conns : \E k \in DOMAIN conns[a].q : conns[a].q[k] = p
        \/ \E j \in DOMAIN F : F[j].type = "DATA" /\ F[j].packet = p
    BY <2>1, <2>2 DEF QueuesStay
  <2> QED
    BY <2>3, ThereFacts
<1>8. PacketsBack' \subseteq PacketsBack
  <2> SUFFICES ASSUME NEW p \in PacketsBack' PROVE p \in PacketsBack
    OBVIOUS
  <2>1. \E j \in DOMAIN N1 : N1[j].type = "DATA" /\ N1[j].packet = p
    BY ThereFactsNext
  <2>2. \A j \in DOMAIN N1 : N1[j].type = "DATA" => \E i \in DOMAIN N : N1[j] = N[i]
    <3> HIDE DEF N, N1
    <3>1. Follows(N1, N, e, nm)
      BY DEF N, N1
    <3> QED
      BY <1>1, <1>2, <3>1, PlainBefore
  <2>3. \E j \in DOMAIN N : N[j].type = "DATA" /\ N[j].packet = p
    BY <2>1, <2>2
  <2> QED
    BY <2>3, ThereFacts
<1> QED
  BY <1>6, <1>7, <1>8 DEF NothingTaken

LEMMA QuietStep ==
    ASSUME FlowInv, IInv', ChanOK', OrderOK', SocksOK',
           NEW d \in Nat, NEW e \in Nat, NEW fm \in Seq(Message), NEW nm \in Seq(Message),
           Follows(chan.far', chan.far, d, fm), Follows(chan.near', chan.near, e, nm),
           QuietToFar(fm), QuietToNear(nm), ConnsKept, SocksContinue(d),
           UNCHANGED <<origin, mate, taken>>
    PROVE  FlowInv' /\ NothingTaken
<1> DEFINE F == chan.far
           F1 == chan.far'
           N == chan.near
           N1 == chan.near'
<1>1. /\ F \in Seq(Message) /\ N \in Seq(Message)
      /\ taken.there \in Nat /\ taken.back \in Nat
      /\ taken.there <= taken.there /\ taken.back <= taken.back
      /\ Range(mate) \subseteq DOMAIN origin
      /\ Extends(origin, origin) /\ Extends(mate, mate)
  BY Facts DEF FlowInv, SocksOK, Range, Extends
<1>2. /\ Plain(fm) /\ Plain(nm)
      /\ AllFarFit(fm, origin, mate, taken.there)
      /\ AllNearFit(nm, mate, taken.back)
  BY DEF Plain, QuietToFar, QuietToNear, AllFarFit, AllNearFit, FarFits, NearFits
<1>3. AllFarFit(F1, origin, mate, taken.there)
  <2>1. AllFarFit(F, origin, mate, taken.there)
    BY DEF FlowInv, MessagesFit
  <2> HIDE DEF F, F1
  <2>2. Follows(F1, F, d, fm)
    BY DEF F, F1
  <2> QED
    BY <1>1, <1>2, <2>1, <2>2, FarKept
<1>4. AllNearFit(N1, mate, taken.back)
  <2>1. AllNearFit(N, mate, taken.back)
    BY DEF FlowInv, MessagesFit
  <2> HIDE DEF N, N1
  <2>2. Follows(N1, N, e, nm)
    BY DEF N, N1
  <2> QED
    BY <1>1, <1>2, <2>1, <2>2, NearKept
<1>5. MessagesFit'
  BY <1>3, <1>4 DEF MessagesFit
<1>6. LinksOK'
  BY DEF FlowInv, LinksOK, ConnsKept
<1>7. QueuesStay
  BY DEF ConnsKept, QueuesStay
<1> QED
  BY <1>2, <1>5, <1>6, <1>7, PlainStep

LEMMA MessageFacts ==
    /\ \A i \in Ids : Socket(i) \in Message /\ Socket(i).type = "SOCKET" /\ Socket(i).id = i
    /\ \A i \in Ids : Connect(i) \in Message /\ Connect(i).type = "CONNECT"
    /\ \A i \in Ids : DataError(i) \in Message /\ DataError(i).type = "DATA_error"
    /\ \A i \in Ids : Close(i) \in Message /\ Close(i).type = "CLOSE"
    /\ \A i \in Ids, s \in 0 .. MaxId :
        /\ SocketDone(i, s) \in Message /\ SocketDone(i, s).type = "SOCKET_done"
        /\ SocketDone(i, s).id = i /\ SocketDone(i, s).rid = s
    /\ \A s \in Ids, ok \in BOOLEAN :
        ConnectDone(s, ok) \in Message /\ ConnectDone(s, ok).type = "CONNECT_done"
    /\ \A i \in Ids, p \in Packet \cup Reply :
        /\ Data(i, p) \in Message /\ Data(i, p).type = "DATA"
        /\ Data(i, p).id = i /\ Data(i, p).packet = p
<1>1. \A i \in Ids : Socket(i) \in Message /\ Socket(i).type = "SOCKET" /\ Socket(i).id = i
  BY DEF Socket, Message
<1>2. \A i \in Ids : Connect(i) \in Message /\ Connect(i).type = "CONNECT"
  BY DEF Connect, Message
<1>3. \A i \in Ids : DataError(i) \in Message /\ DataError(i).type = "DATA_error"
  BY DEF DataError, Message
<1>4. \A i \in Ids : Close(i) \in Message /\ Close(i).type = "CLOSE"
  BY DEF Close, Message
<1>5. \A i \in Ids, s \in 0 .. MaxId :
        /\ SocketDone(i, s) \in Message /\ SocketDone(i, s).type = "SOCKET_done"
        /\ SocketDone(i, s).id = i /\ SocketDone(i, s).rid = s
  BY DEF SocketDone, Message
<1>6. \A s \in Ids, ok \in BOOLEAN :
        ConnectDone(s, ok) \in Message /\ ConnectDone(s, ok).type = "CONNECT_done"
  BY DEF ConnectDone, Message
<1>7. \A i \in Ids, p \in Packet \cup Reply :
        /\ Data(i, p) \in Message /\ Data(i, p).type = "DATA"
        /\ Data(i, p).id = i /\ Data(i, p).packet = p
  BY DEF Data, Message
<1> QED
  BY <1>1, <1>2, <1>3, <1>4, <1>5, <1>6, <1>7

\* The CLOSE calls of connections that go are a sequence, since there are finitely
\* many of them.
LEMMA ClosingFacts ==
    ASSUME FlowInv, NEW as, as \subseteq DOMAIN conns, NEW ms \in Closing(as)
    PROVE  ms \in Seq(Message) /\ QuietToFar(ms)
<1> DEFINE with == {a \in as : conns[a].rid # 0}
           f == [a \in with |-> Close(conns[a].rid)]
           T == {Close(conns[a].rid) : a \in with}
<1>1. IsFiniteSet(with)
  <2>1. with \subseteq DOMAIN conns /\ IsFiniteSet(DOMAIN conns)
    BY DEF FlowInv, OrderOK
  <2> QED
    BY <2>1, FS_Subset
<1>2. f \in Surjection(with, T)
  BY DEF Surjection
<1>3. IsFiniteSet(T) /\ Cardinality(T) \in Nat
  BY <1>1, <1>2, FS_Surjection, FS_CardinalityType
<1>4. \A m \in T : m \in Message /\ m.type = "CLOSE"
  <2> SUFFICES ASSUME NEW a \in with
               PROVE  Close(conns[a].rid) \in Message /\ Close(conns[a].rid).type = "CLOSE"
    OBVIOUS
  <2>1. conns[a].rid \in 0 .. MaxId
    BY Facts DEF Connection
  <2>2. conns[a].rid \in Ids
    BY <2>1, ForwardAssumption DEF Ids
  <2> QED
    BY <2>2, MessageFacts
<1>5. ms \in [1 .. Cardinality(T) -> T]
  BY DEF Closing, SetToSeqs
<1> HIDE DEF T
<1>6. ms \in Seq(T)
  BY <1>3, <1>5
<1>7. \A k \in DOMAIN ms : ms[k] \in T
  BY <1>5
<1>8. ms \in Seq(Message)
  BY <1>3, <1>4, <1>5
<1> QED
  BY <1>4, <1>7, <1>8 DEF QuietToFar

LEMMA NearQuiet ==
    ASSUME FlowInv, IInv', OrderOK', ConnsKept,
           NEW ms \in Seq(Message), QuietToFar(ms),
           Send("near", ms) \/ (Handled("near", ms) /\ chan.near # <<>>),
           UNCHANGED <<socks, mate, origin, known, taken>>
    PROVE  FlowInv' /\ NothingTaken
<1> DEFINE none == <<>>
<1>1. none \in Seq(Message) /\ QuietToNear(none)
  <2>1. none \in Seq(Message) /\ DOMAIN none = {}
    BY NoneFacts
  <2> QED
    BY <2>1 DEF QuietToNear
<1>2. PICK e \in Nat :
        /\ ChanOK' /\ Follows(chan.far', chan.far, 0, ms)
        /\ Follows(chan.near', chan.near, e, none)
  <2>1. ChanOK
    BY DEF FlowInv
  <2>2. CASE Send("near", ms)
    <3>1. /\ ChanOK' /\ Follows(chan.far', chan.far, 0, ms)
          /\ Follows(chan.near', chan.near, 0, none)
      BY <2>1, <2>2, SentToFar
    <3> HIDE DEF none
    <3> QED
      BY <3>1
  <2>3. CASE Handled("near", ms) /\ chan.near # <<>>
    <3>1. /\ ChanOK' /\ Follows(chan.far', chan.far, 0, ms)
          /\ Follows(chan.near', chan.near, 1, none)
      BY <2>1, <2>3, HandledAtNear
    <3> HIDE DEF none
    <3> QED
      BY <3>1
  <2> QED
    BY <2>2, <2>3
<1> HIDE DEF none
<1>3. SocksOK'
  BY DEF FlowInv, SocksOK
<1>4. SocksContinue(0) /\ 0 \in Nat
  BY DEF SocksContinue, Continues
<1> QED
  BY <1>1, <1>2, <1>3, <1>4, QuietStep

LEMMA FarQuiet ==
    ASSUME FlowInv, IInv', SocksOK', NEW d \in Nat, SocksContinue(d),
           NEW ms \in Seq(Message), QuietToNear(ms),
           \/ d = 0 /\ Send("far", ms)
           \/ d = 1 /\ Handled("far", ms) /\ chan.far # <<>>,
           UNCHANGED <<near, mate, taken>>
    PROVE  FlowInv' /\ NothingTaken
<1> DEFINE none == <<>>
<1>1. none \in Seq(Message) /\ QuietToFar(none)
  <2>1. none \in Seq(Message) /\ DOMAIN none = {}
    BY NoneFacts
  <2> QED
    BY <2>1 DEF QuietToFar
<1>2. /\ ChanOK' /\ Follows(chan.far', chan.far, d, none)
      /\ Follows(chan.near', chan.near, 0, ms)
  <2>1. ChanOK
    BY DEF FlowInv
  <2>2. CASE d = 0 /\ Send("far", ms)
    BY <2>1, <2>2, SentToNear
  <2>3. CASE d = 1 /\ Handled("far", ms) /\ chan.far # <<>>
    BY <2>1, <2>3, HandledAtFar
  <2> QED
    BY <2>2, <2>3
<1> HIDE DEF none
<1>3. ConnsKept /\ UNCHANGED origin
  BY DEF near, ConnsKept
<1>4. OrderOK'
  BY OrderSame DEF FlowInv, near
<1> QED
  BY <1>1, <1>2, <1>3, <1>4, QuietStep

LEMMA QuietMessages ==
    /\ <<>> \in Seq(Message) /\ QuietToFar(<<>>) /\ QuietToNear(<<>>)
    /\ \A m \in Message :
        /\ <<m>> \in Seq(Message)
        /\ m.type \in {"CONNECT", "DATA_error", "CLOSE"} => QuietToFar(<<m>>)
        /\ m.type \in {"CONNECT_done", "DATA_error", "CLOSE"} => QuietToNear(<<m>>)
        /\ m.type = "SOCKET_done" /\ m.rid = 0 => QuietToNear(<<m>>)
<1> DEFINE none == <<>>
<1>1. none \in Seq(Message) /\ DOMAIN none = {}
  BY NoneFacts
<1> HIDE DEF none
<1>2. none \in Seq(Message) /\ QuietToFar(none) /\ QuietToNear(none)
  BY <1>1 DEF QuietToFar, QuietToNear
<1>3. ASSUME NEW m \in Message
      PROVE  /\ <<m>> \in Seq(Message)
             /\ m.type \in {"CONNECT", "DATA_error", "CLOSE"} => QuietToFar(<<m>>)
             /\ m.type \in {"CONNECT_done", "DATA_error", "CLOSE"} => QuietToNear(<<m>>)
             /\ m.type = "SOCKET_done" /\ m.rid = 0 => QuietToNear(<<m>>)
  <2> DEFINE one == <<m>>
  <2>1. one \in Seq(Message) /\ DOMAIN one = {1} /\ one[1] = m
    BY OneFacts
  <2> HIDE DEF one
  <2>2. \A k \in DOMAIN one : one[k] = m
    BY <2>1
  <2>3. m.type \in {"CONNECT", "DATA_error", "CLOSE"} => QuietToFar(one)
    BY <2>2 DEF QuietToFar
  <2>4. m.type \in {"CONNECT_done", "DATA_error", "CLOSE"} => QuietToNear(one)
    BY <2>2 DEF QuietToNear
  <2>5. m.type = "SOCKET_done" /\ m.rid = 0 => QuietToNear(one)
    BY <2>2 DEF QuietToNear
  <2> QED
    BY <2>1, <2>3, <2>4, <2>5 DEF one
<1> QED
  BY <1>2, <1>3, Zenon DEF none

LEMMA ForgetKeeps ==
    ASSUME NEW as, Forget(as)
    PROVE  ConnsKept
  BY DEF Forget, Restrict, ConnsKept

\* One connection goes, and tells or does not tell of it.
LEMMA OneGoes ==
    ASSUME FlowInv, IInv', NEW a \in DOMAIN conns, ForgetOne(a),
           NEW ms \in Seq(Message), QuietToFar(ms),
           Send("near", ms) \/ (Handled("near", ms) /\ chan.near # <<>>),
           UNCHANGED <<socks, mate, origin, known, taken>>
    PROVE  FlowInv' /\ NothingTaken
<1>1. OrderOK'
  BY OrderForgetOne DEF FlowInv
<1>2. ConnsKept
  BY ForgetKeeps DEF ForgetOne
<1> QED
  BY <1>1, <1>2, NearQuiet

\* The order changes at most by a touch.
LEMMA NoneGoes ==
    ASSUME FlowInv, IInv', conns' = conns,
           order' = order \/ \E a \in DOMAIN conns : order' = Touched(a),
           NEW ms \in Seq(Message), QuietToFar(ms),
           Send("near", ms) \/ (Handled("near", ms) /\ chan.near # <<>>),
           UNCHANGED <<socks, mate, origin, known, taken>>
    PROVE  FlowInv' /\ NothingTaken
<1>1. OrderOK'
  BY OrderSame, OrderTouched DEF FlowInv
<1>2. ConnsKept
  BY DEF ConnsKept
<1> QED
  BY <1>1, <1>2, NearQuiet

LEMMA TimerFiresKeeps ==
    ASSUME FlowInv, IInv', TimerFires
    PROVE  FlowInv' /\ NothingTaken
<1>1. PICK k \in 0 .. Len(order) :
        LET expired == {a \in DOMAIN conns : \E i \in 1 .. k : order[i] = a} IN
        /\ Forget(expired)
        /\ \E closing \in Closing(expired) : Send("near", closing)
  BY DEF TimerFires, Expire
<1> DEFINE expired == {a \in DOMAIN conns : \E i \in 1 .. k : order[i] = a}
<1>2. expired \subseteq DOMAIN conns /\ Forget(expired)
  BY <1>1
<1>3. PICK closing \in Closing(expired) : Send("near", closing)
  BY <1>1
<1> HIDE DEF expired
<1>4. closing \in Seq(Message) /\ QuietToFar(closing)
  BY <1>2, ClosingFacts
<1>5. OrderOK'
  BY OrderExpired DEF FlowInv, TimerFires
<1>6. UNCHANGED <<socks, mate, origin, known, taken>>
  BY DEF TimerFires, far, history
<1>7. ConnsKept
  BY <1>2, ForgetKeeps
<1> QED
  BY <1>3, <1>4, <1>5, <1>6, <1>7, NearQuiet

LEMMA RemoveForwarderKeeps ==
    ASSUME FlowInv, IInv', RemoveForwarder
    PROVE  FlowInv' /\ NothingTaken
<1>1. PICK closing \in Closing(DOMAIN conns) : Send("near", closing)
  BY DEF RemoveForwarder
<1>2. closing \in Seq(Message) /\ QuietToFar(closing)
  BY ClosingFacts
<1>3. OrderOK'
  BY OrderRemoved DEF FlowInv
<1>4. UNCHANGED <<socks, mate, origin, known, taken>>
  BY DEF RemoveForwarder, far, history
<1>5. ConnsKept
  BY ForgetKeeps DEF RemoveForwarder
<1> QED
  BY <1>1, <1>2, <1>3, <1>4, <1>5, NearQuiet

LEMMA RemoveConnectionKeeps ==
    ASSUME FlowInv, IInv', NEW a \in Addresses, RemoveConnection(a)
    PROVE  FlowInv' /\ NothingTaken
<1>1. a \in DOMAIN conns /\ {a} \subseteq DOMAIN conns /\ ForgetOne(a)
  BY DEF RemoveConnection
<1>2. PICK closing \in Closing({a}) : Send("near", closing)
  BY DEF RemoveConnection
<1>3. closing \in Seq(Message) /\ QuietToFar(closing)
  BY <1>1, ClosingFacts
<1>4. UNCHANGED <<socks, mate, origin, known, taken>>
  BY DEF RemoveConnection, far, history
<1> QED
  BY <1>1, <1>2, <1>3, <1>4, OneGoes

LEMMA DataFailedKeeps ==
    ASSUME FlowInv, IInv', DataFailed
    PROVE  FlowInv' /\ NothingTaken
<1>1. PICK s \in Ids :
        /\ Receive("near", DataError(s))
        /\ \/ Handled("near", <<>>) /\ UNCHANGED near
           \/ /\ \E a \in Knows(s) : ForgetOne(a)
              /\ Handled("near", <<Close(s)>>)
              /\ UNCHANGED origin
  BY DEF DataFailed
<1>2. UNCHANGED <<socks, mate, known, taken>>
  BY DEF DataFailed, far, history
<1>3. chan.near # <<>>
  BY <1>1 DEF Receive
<1>4. CASE Handled("near", <<>>) /\ UNCHANGED near
  <2>1. UNCHANGED <<conns, order, origin>>
    BY <1>4 DEF near
  <2> QED
    BY <1>2, <1>3, <1>4, <2>1, QuietMessages, NoneGoes
<1>5. ASSUME NEW a \in Knows(s), ForgetOne(a), Handled("near", <<Close(s)>>), UNCHANGED origin
      PROVE  FlowInv' /\ NothingTaken
  <2>1. a \in DOMAIN conns
    BY DEF Knows
  <2>2. <<Close(s)>> \in Seq(Message) /\ QuietToFar(<<Close(s)>>)
    BY MessageFacts, QuietMessages, Zenon
  <2> QED
    BY <1>2, <1>3, <1>5, <2>1, <2>2, OneGoes
<1> QED
  BY <1>1, <1>4, <1>5

LEMMA HandleNearCloseKeeps ==
    ASSUME FlowInv, IInv', HandleNearClose
    PROVE  FlowInv' /\ NothingTaken
<1>1. /\ Handled("near", <<>>) /\ chan.near # <<>>
      /\ UNCHANGED near \/ \E a \in DOMAIN conns : ForgetOne(a) /\ UNCHANGED origin
  BY DEF HandleNearClose, Receive
<1>2. UNCHANGED <<socks, mate, known, taken>>
  BY DEF HandleNearClose, far, history
<1>3. CASE UNCHANGED near
  <2>1. UNCHANGED <<conns, order, origin>>
    BY <1>3 DEF near
  <2> QED
    BY <1>1, <1>2, <2>1, QuietMessages, NoneGoes
<1>4. ASSUME NEW a \in DOMAIN conns, ForgetOne(a), UNCHANGED origin
      PROVE  FlowInv' /\ NothingTaken
  BY <1>1, <1>2, <1>4, QuietMessages, OneGoes
<1> QED
  BY <1>1, <1>3, <1>4

LEMMA HandleReplyKeeps ==
    ASSUME FlowInv, IInv', HandleReply
    PROVE  FlowInv' /\ NothingTaken
<1>1. PICK i \in Ids, p \in Reply :
        /\ chan.near # <<>>
        /\ order' = order \/ (i \in DOMAIN idMap /\ order' = Touched(idMap[i]))
        /\ Handled("near", <<>>) \/ Handled("near", <<DataError(p.from)>>)
  BY DEF HandleReply, Receive
<1>2. UNCHANGED <<conns, socks, mate, origin, known, taken>>
  BY DEF HandleReply, far
<1>3. order' = order \/ \E a \in DOMAIN conns : order' = Touched(a)
  BY <1>1 DEF FlowInv, IInv, MapsAgree
<1>4. p.from \in Ids
  BY DEF Reply
<1>5. CASE Handled("near", <<>>)
  BY <1>1, <1>2, <1>3, <1>5, QuietMessages, NoneGoes
<1>6. CASE Handled("near", <<DataError(p.from)>>)
  <2> DEFINE ms == <<DataError(p.from)>>
  <2>1. ms \in Seq(Message) /\ QuietToFar(ms)
    BY <1>4, MessageFacts, QuietMessages, Zenon
  <2> HIDE DEF ms
  <2>2. Handled("near", ms)
    BY <1>6 DEF ms
  <2> QED
    BY <1>1, <1>2, <1>3, <2>1, <2>2, NoneGoes
<1> QED
  BY <1>1, <1>5, <1>6

-----------------------------------------------------------------------------
(* The quiet steps of the far peer *)

LEMMA SocksStay ==
    ASSUME FlowInv, UNCHANGED <<socks, mate, origin, known>>,
           NEW d \in Nat, \A s : d = 1 => chan.far[1] # Connect(s)
    PROVE  SocksOK' /\ SocksContinue(d)
<1>1. SocksOK'
  BY DEF FlowInv, SocksOK
<1>2. SocksContinue(d)
  BY DEF SocksContinue, Continues
<1> QED
  BY <1>1, <1>2

LEMMA SocketGoes ==
    ASSUME FlowInv, UNCHANGED <<mate, origin, known>>,
           NEW s, socks' = Restrict(socks, DOMAIN socks \ {s}),
           NEW d \in Nat, \A t : d = 1 => chan.far[1] # Connect(t)
    PROVE  SocksOK' /\ SocksContinue(d)
<1>1. /\ DOMAIN socks' = DOMAIN socks \ {s}
      /\ socks' = [t \in DOMAIN socks \ {s} |-> socks[t]]
      /\ \A t \in DOMAIN socks' : socks'[t] = socks[t]
  BY DEF Restrict
<1>2. SocksOK'
  BY <1>1 DEF FlowInv, SocksOK
<1>3. SocksContinue(d)
  BY <1>1 DEF SocksContinue, Continues
<1> QED
  BY <1>2, <1>3

LEMMA OtherTypes ==
    ASSUME ChanOK, NEW m, Receive("far", m), m.type # "CONNECT"
    PROVE  \A s : chan.far[1] # Connect(s)
<1>1. chan.far[1] = m
  BY FirstMessage DEF Peers
<1>2. \A s : Connect(s).type = "CONNECT"
  BY DEF Connect
<1> QED
  BY <1>1, <1>2

LEMMA SocketRefusedKeeps ==
    ASSUME FlowInv, IInv', NEW i \in Ids, Receive("far", Socket(i)),
           Handled("far", <<SocketDone(i, 0)>>), UNCHANGED <<near, far, history>>
    PROVE  FlowInv' /\ NothingTaken
<1> DEFINE ms == <<SocketDone(i, 0)>>
<1>1. ms \in Seq(Message) /\ QuietToNear(ms)
  <2>1. SocketDone(i, 0) \in Message /\ SocketDone(i, 0).type = "SOCKET_done"
        /\ SocketDone(i, 0).rid = 0
    <3>1. 0 \in 0 .. MaxId
      BY ForwardAssumption
    <3> QED
      BY <3>1, MessageFacts
  <2> QED
    BY <2>1, QuietMessages, Zenon
<1> HIDE DEF ms
<1>2. Handled("far", ms) /\ chan.far # <<>>
  BY DEF Receive, ms
<1>3. Socket(i).type # "CONNECT" /\ ChanOK
  BY DEF Socket, FlowInv
<1>4. \A s : chan.far[1] # Connect(s)
  BY <1>3, OtherTypes
<1>5. UNCHANGED <<socks, mate, origin, known, taken>>
  BY DEF near, far, history
<1>6. SocksOK' /\ SocksContinue(1)
  BY <1>4, <1>5, SocksStay
<1> QED
  BY <1>1, <1>2, <1>5, <1>6, FarQuiet

LEMMA HandleConnectKeeps ==
    ASSUME FlowInv, IInv', HandleConnect
    PROVE  FlowInv' /\ NothingTaken
<1>1. PICK s \in Ids :
        /\ Receive("far", Connect(s))
        /\ socks' = IF s \in DOMAIN socks THEN [socks EXCEPT ![s].to = TRUE] ELSE socks
        /\ Handled("far", <<ConnectDone(s, s \in DOMAIN socks)>>)
  BY DEF HandleConnect
<1>2. UNCHANGED <<near, mate, taken>> /\ UNCHANGED <<origin, known>>
  BY DEF HandleConnect, near, history
<1> DEFINE ms == <<ConnectDone(s, s \in DOMAIN socks)>>
<1>3. ms \in Seq(Message) /\ QuietToNear(ms)
  <2>1. ConnectDone(s, s \in DOMAIN socks) \in Message
        /\ ConnectDone(s, s \in DOMAIN socks).type = "CONNECT_done"
    BY DEF ConnectDone, Message
  <2> QED
    BY <2>1, QuietMessages, Zenon
<1> HIDE DEF ms
<1>4. Handled("far", ms) /\ chan.far # <<>>
  BY <1>1 DEF Receive, ms
<1>5. \A t : chan.far[1] = Connect(t) => t = s
  <2>1. chan.far[1] = Connect(s)
    BY <1>1, FirstMessage DEF Peers, FlowInv
  <2> QED
    BY <2>1 DEF Connect
<1>6. /\ socks' = [t \in DOMAIN socks |-> socks'[t]] /\ DOMAIN socks' = DOMAIN socks
      /\ \A t \in DOMAIN socks : t # s => socks'[t] = socks[t]
      /\ s \in DOMAIN socks =>
            /\ socks'[s] \in FarSocket
            /\ socks'[s].rid = socks[s].rid /\ socks'[s].to
  <2>1. CASE s \in DOMAIN socks
    <3>1. socks = [t \in DOMAIN socks |-> socks[t]] /\ socks[s] \in FarSocket
      BY <2>1 DEF FlowInv, SocksOK
    <3>2. socks' = [socks EXCEPT ![s] = [socks[s] EXCEPT !.to = TRUE]]
      BY <1>1, <2>1, <3>1
    <3> DEFINE k == [socks[s] EXCEPT !.to = TRUE]
    <3>3. k \in FarSocket /\ k.rid = socks[s].rid /\ k.to = TRUE
      BY <3>1 DEF FarSocket
    <3> HIDE DEF k
    <3>4. socks' = [socks EXCEPT ![s] = k]
      BY <3>2 DEF k
    <3> QED
      BY <2>1, <3>1, <3>3, <3>4
  <2>2. CASE s \notin DOMAIN socks
    BY <1>1, <2>2 DEF FlowInv, SocksOK
  <2> QED
    BY <2>1, <2>2
<1>7. SocksOK'
  BY <1>2, <1>6 DEF FlowInv, SocksOK
<1>8. SocksContinue(1)
  <2> SUFFICES ASSUME NEW t \in DOMAIN mate, t \in DOMAIN socks'
               PROVE  /\ t \in DOMAIN socks /\ (socks[t].to => socks'[t].to)
                      /\ chan.far[1] = Connect(t) => socks'[t].to
    BY DEF SocksContinue, Continues
  <2>1. CASE t = s
    BY <1>6, <2>1
  <2>2. CASE t # s
    BY <1>5, <1>6, <2>2
  <2> QED
    BY <2>1, <2>2
<1> QED
  BY <1>2, <1>3, <1>4, <1>7, <1>8, FarQuiet

LEMMA HandleDataKeeps ==
    ASSUME FlowInv, IInv', HandleData
    PROVE  FlowInv' /\ NothingTaken
<1>1. PICK s \in Ids, p \in Packet :
        /\ Receive("far", Data(s, p))
        /\ Handled("far", <<>>) \/ Handled("far", <<DataError(s)>>)
  BY DEF HandleData
<1>2. UNCHANGED <<near, mate, taken>> /\ UNCHANGED <<socks, mate, origin, known>>
  BY DEF HandleData, near, far
<1>3. chan.far # <<>>
  BY <1>1 DEF Receive
<1>4. Data(s, p).type # "CONNECT" /\ ChanOK
  BY DEF Data, FlowInv
<1>5. \A t : chan.far[1] # Connect(t)
  BY <1>1, <1>4, OtherTypes
<1>6. SocksOK' /\ SocksContinue(1)
  BY <1>2, <1>5, SocksStay
<1>7. PICK ms \in Seq(Message) : QuietToNear(ms) /\ Handled("far", ms)
  <2>1. CASE Handled("far", <<>>)
    BY <2>1, QuietMessages, Zenon
  <2>2. CASE Handled("far", <<DataError(s)>>)
    BY <2>2, MessageFacts, QuietMessages, Zenon
  <2> QED
    BY <1>1, <2>1, <2>2
<1> QED
  BY <1>2, <1>3, <1>6, <1>7, FarQuiet

LEMMA HandleFarCloseKeeps ==
    ASSUME FlowInv, IInv', HandleFarClose \/ ReplyFailed
    PROVE  FlowInv' /\ NothingTaken
<1>1. PICK s \in Ids :
        /\ Receive("far", Close(s)) \/ Receive("far", DataError(s))
        /\ socks' = Restrict(socks, DOMAIN socks \ {s})
        /\ \/ Handled("far", <<>>)
           \/ s \in DOMAIN socks /\ Handled("far", <<Close(socks[s].rid)>>)
  <2>1. CASE HandleFarClose
    BY <2>1, Zenon DEF HandleFarClose
  <2>2. CASE ReplyFailed
    BY <2>2, Zenon DEF ReplyFailed
  <2> QED
    BY <2>1, <2>2
<1>2. UNCHANGED <<near, mate, taken>> /\ UNCHANGED <<origin, known>>
  BY DEF HandleFarClose, ReplyFailed, near, history
<1>3. chan.far # <<>>
  BY <1>1 DEF Receive
<1>4. Close(s).type # "CONNECT" /\ DataError(s).type # "CONNECT" /\ ChanOK
  BY DEF Close, DataError, FlowInv
<1>5. \A t : chan.far[1] # Connect(t)
  BY <1>1, <1>4, OtherTypes
<1>6. SocksOK' /\ SocksContinue(1)
  BY <1>1, <1>2, <1>5, SocketGoes
<1>7. PICK ms \in Seq(Message) : QuietToNear(ms) /\ Handled("far", ms)
  <2>1. CASE Handled("far", <<>>)
    BY <2>1, QuietMessages, Zenon
  <2>2. CASE s \in DOMAIN socks /\ Handled("far", <<Close(socks[s].rid)>>)
    <3>1. socks[s].rid \in Ids
      BY <2>2 DEF FlowInv, SocksOK, FarSocket
    <3> QED
      BY <2>2, <3>1, MessageFacts, QuietMessages, Zenon
  <2> QED
    BY <1>1, <2>1, <2>2
<1> QED
  BY <1>2, <1>3, <1>6, <1>7, FarQuiet

LEMMA RemoveSocketKeeps ==
    ASSUME FlowInv, IInv', NEW s \in Ids, RemoveSocket(s)
    PROVE  FlowInv' /\ NothingTaken
<1>1. /\ s \in DOMAIN socks /\ socks' = Restrict(socks, DOMAIN socks \ {s})
      /\ Send("far", <<Close(socks[s].rid)>>)
      /\ UNCHANGED <<near, mate, taken>> /\ UNCHANGED <<origin, known>>
  BY DEF RemoveSocket, near, history
<1>2. SocksOK' /\ SocksContinue(0)
  BY <1>1, SocketGoes
<1> DEFINE ms == <<Close(socks[s].rid)>>
<1>3. ms \in Seq(Message) /\ QuietToNear(ms)
  <2>1. socks[s].rid \in Ids
    BY <1>1 DEF FlowInv, SocksOK, FarSocket
  <2> QED
    BY <2>1, MessageFacts, QuietMessages, Zenon
<1>4. Send("far", ms)
  BY <1>1
<1> HIDE DEF ms
<1> QED
  BY <1>1, <1>2, <1>3, <1>4, FarQuiet

-----------------------------------------------------------------------------
(* The other steps *)

LEMMA FitStep ==
    ASSUME FlowInv,
           NEW d \in Nat, NEW e \in Nat, NEW fm \in Seq(Message), NEW nm \in Seq(Message),
           Follows(chan.far', chan.far, d, fm), Follows(chan.near', chan.near, e, nm),
           UNCHANGED mate, Extends(origin', origin),
           taken'.there \in Nat, taken.there <= taken'.there,
           taken'.back \in Nat, taken.back <= taken'.back,
           AllFarFit(fm, origin', mate, taken'.there), AllNearFit(nm, mate, taken'.back)
    PROVE  MessagesFit'
<1> DEFINE F == chan.far
           F1 == chan.far'
           N == chan.near
           N1 == chan.near'
           as1 == origin'
           n1 == taken'.there
           b1 == taken'.back
<1>1. /\ F \in Seq(Message) /\ N \in Seq(Message)
      /\ taken.there \in Nat /\ taken.back \in Nat
      /\ n1 \in Nat /\ taken.there <= n1 /\ b1 \in Nat /\ taken.back <= b1
      /\ Range(mate) \subseteq DOMAIN origin
      /\ Extends(as1, origin) /\ Extends(mate, mate)
  BY Facts DEF FlowInv, SocksOK, Range, Extends
<1>2. /\ AllFarFit(F, origin, mate, taken.there)
      /\ AllNearFit(N, mate, taken.back)
      /\ AllFarFit(fm, as1, mate, n1)
      /\ AllNearFit(nm, mate, b1)
      /\ Follows(F1, F, d, fm) /\ Follows(N1, N, e, nm)
  BY DEF FlowInv, MessagesFit
<1> HIDE DEF F, F1, N, N1, as1, n1, b1
<1>3. AllFarFit(F1, as1, mate, n1)
  BY <1>1, <1>2, FarKept
<1>4. AllNearFit(N1, mate, b1)
  BY <1>1, <1>2, NearKept
<1> QED
  BY <1>3, <1>4 DEF MessagesFit, F1, N1, as1, n1, b1

LEMMA SocketCreatedKeeps ==
    ASSUME FlowInv, IInv', SocketCreated
    PROVE  FlowInv' /\ NothingTaken
<1>1. PICK i \in Ids, s \in 0 .. MaxId :
        /\ Receive("near", SocketDone(i, s))
        /\ \/ /\ Handled("near", <<>>)
              /\ UNCHANGED <<conns, order, known>>
           \/ /\ i \in DOMAIN idMap
              /\ ForgetOne(idMap[i])
              /\ Handled("near", <<>>)
              /\ UNCHANGED known
           \/ /\ i \in DOMAIN idMap /\ s # 0
              /\ conns' = [conns EXCEPT ![idMap[i]].rid = s,
                                        ![idMap[i]].setup = "connect"]
              /\ known' = known \cup {s}
              /\ Handled("near", <<Connect(s)>>)
              /\ UNCHANGED <<idMap, order>>
  BY DEF SocketCreated
<1>2. UNCHANGED <<socks, mate, origin, taken>>
  BY DEF SocketCreated, far
<1>3. chan.near # <<>> /\ ChanOK
  BY <1>1 DEF Receive, FlowInv
<1>4. CASE Handled("near", <<>>) /\ UNCHANGED <<conns, order, known>>
  BY <1>2, <1>3, <1>4, QuietMessages, NoneGoes
<1>5. CASE /\ i \in DOMAIN idMap /\ ForgetOne(idMap[i])
           /\ Handled("near", <<>>) /\ UNCHANGED known
  <2>1. idMap[i] \in DOMAIN conns
    BY <1>5 DEF FlowInv, IInv, MapsAgree
  <2> QED
    BY <1>2, <1>3, <1>5, <2>1, QuietMessages, OneGoes
<1>6. CASE /\ i \in DOMAIN idMap /\ s # 0
           /\ conns' = [conns EXCEPT ![idMap[i]].rid = s,
                                     ![idMap[i]].setup = "connect"]
           /\ known' = known \cup {s}
           /\ Handled("near", <<Connect(s)>>)
           /\ UNCHANGED <<idMap, order>>
  <2> DEFINE a == idMap[i]
             ms == <<Connect(s)>>
             none == <<>>
  <2>1. a \in DOMAIN conns /\ conns[a].id = i
    BY <1>6 DEF FlowInv, IInv, MapsAgree
  <2>2. /\ DOMAIN conns' = DOMAIN conns
        /\ conns'[a].rid = s /\ conns'[a].id = i /\ conns'[a].q = conns[a].q
        /\ \A x \in DOMAIN conns : x # a => conns'[x] = conns[x]
    <3>1. conns' = [conns EXCEPT ![a] = [conns[a] EXCEPT !.rid = s, !.setup = "connect"]]
      BY <1>6, <2>1
    <3>2. conns[a] \in Connection
      BY <2>1, Facts
    <3> DEFINE k == [conns[a] EXCEPT !.rid = s, !.setup = "connect"]
    <3>3. k.rid = s /\ k.id = conns[a].id /\ k.q = conns[a].q
      BY <3>2 DEF Connection
    <3>4. conns' = [conns EXCEPT ![a] = k]
      BY <3>1
    <3> HIDE DEF k, a
    <3> QED
      BY <2>1, <3>3, <3>4
  <2>3. s \in Ids
    BY <1>6 DEF Ids
  <2>4. s \in DOMAIN mate /\ mate[s] = i
    <3>1. chan.near[1] = SocketDone(i, s) /\ 1 \in DOMAIN chan.near
      BY <1>1, <1>3, FirstMessage DEF Peers
    <3>2. NearFits(SocketDone(i, s), mate, taken.back)
      BY <3>1 DEF FlowInv, MessagesFit, AllNearFit
    <3> QED
      BY <1>6, <3>2 DEF NearFits, SocketDone
  <2>5. /\ ms \in Seq(Message) /\ Handled("near", ms) /\ Len(ms) = 1
        /\ DOMAIN ms = {1} /\ ms[1] = Connect(s) /\ Connect(s).type = "CONNECT"
    <3>1. Connect(s) \in Message /\ Connect(s).type = "CONNECT"
      BY <2>3, MessageFacts
    <3> QED
      BY <1>6, <3>1, OneFacts
  <2>6. none \in Seq(Message) /\ DOMAIN none = {}
    BY NoneFacts
  <2> HIDE DEF ms, none
  <2>7. /\ ChanOK' /\ Follows(chan.far', chan.far, 0, ms)
        /\ Follows(chan.near', chan.near, 1, none)
    BY <1>3, <2>5, HandledAtNear DEF none
  <2>8. Plain(ms) /\ Plain(none)
    BY <2>5, <2>6 DEF Plain
  <2>9. OrderOK'
    BY <1>6, <2>2, OrderSame DEF FlowInv
  <2>10. SocksOK'
    BY <1>2, <1>6, <2>3 DEF FlowInv, SocksOK
  <2>11. LinksOK'
    BY <1>2, <2>1, <2>2, <2>4 DEF FlowInv, LinksOK
  <2>12. MessagesFit'
    <3>1. AllFarFit(ms, origin', mate, taken'.there) /\ AllNearFit(none, mate, taken'.back)
      BY <2>5, <2>6 DEF AllFarFit, AllNearFit, FarFits
    <3>2. /\ taken'.there \in Nat /\ taken.there <= taken'.there
          /\ taken'.back \in Nat /\ taken.back <= taken'.back
      BY <1>2, Facts
    <3>3. Extends(origin', origin) /\ UNCHANGED mate
      BY <1>2 DEF Extends
    <3>4. 0 \in Nat /\ 1 \in Nat
      OBVIOUS
    <3> QED
      BY <2>5, <2>6, <2>7, <3>1, <3>2, <3>3, <3>4, FitStep
  <2>13. SocksContinue(0)
    BY <1>2 DEF SocksContinue, Continues
  <2>14. QueuesStay
    <3>1. PICK j \in DOMAIN chan.far' : j + 0 = Len(chan.far) + 1 /\ chan.far'[j] = ms[1]
      BY <2>5, <2>7 DEF Follows
    <3>2. j < Len(chan.far') + 1
      <4>1. chan.far' \in Seq(Message)
        BY <2>7 DEF Follows
      <4> QED
        BY <4>1
    <3>3. Aimed(s, Len(chan.far') + 1, chan.far', socks')
      BY <2>5, <3>1, <3>2 DEF Aimed
    <3> QED
      BY <2>2, <3>3 DEF QueuesStay
  <2>15. UNCHANGED taken /\ 0 \in Nat /\ 1 \in Nat
    BY <1>2
  <2> QED
    BY <2>5, <2>6, <2>7, <2>8, <2>9, <2>10, <2>11, <2>12, <2>13, <2>14, <2>15, PlainStep
<1> QED
  BY <1>1, <1>4, <1>5, <1>6

LEMMA SocketMadeKeeps ==
    ASSUME FlowInv, IInv', NEW i \in Ids, Receive("far", Socket(i)),
           socks' = Added(Len(mate) + 1, i),
           mate' = Append(mate, i),
           Handled("far", <<SocketDone(i, Len(mate) + 1)>>),
           UNCHANGED <<near, history>>
    PROVE  /\ FlowInv' /\ NothingTaken
           /\ i \in DOMAIN origin /\ Len(mate) < MaxId
<1> DEFINE s == Len(mate) + 1
           ms == <<SocketDone(i, s)>>
           none == <<>>
<1>1. /\ UNCHANGED <<conns, order, origin, known, taken>>
      /\ chan.far # <<>> /\ ChanOK
  BY DEF near, history, Receive, FlowInv
<1>2. 1 \in DOMAIN chan.far /\ chan.far[1] = Socket(i)
  BY <1>1, FirstMessage DEF Peers
<1>3. Socket(i).type = "SOCKET" /\ Socket(i).id = i
  BY DEF Socket
<1>4. i \in DOMAIN origin /\ Len(mate) < i
  <2>1. FarFits(chan.far[1], origin, mate, taken.there)
    BY <1>2 DEF FlowInv, MessagesFit, AllFarFit
  <2> QED
    BY <1>2, <1>3, <2>1 DEF FarFits
<1>5. /\ mate \in Seq(Ids) /\ Len(mate) \in Nat /\ DOMAIN mate = 1 .. Len(mate)
      /\ origin \in Seq(Addresses) /\ Len(origin) \in Nat /\ DOMAIN origin = 1 .. Len(origin)
      /\ Len(origin) <= MaxId
  <2>1. mate \in Seq(Ids) /\ origin \in Seq(Addresses) /\ Len(origin) <= MaxId
    BY Facts DEF FlowInv, SocksOK
  <2> QED
    BY <2>1
<1>6. s \in Nat /\ s <= i /\ s <= MaxId /\ s \in Ids /\ s \notin DOMAIN mate /\ s # 0
  BY <1>4, <1>5, ForwardAssumption DEF Ids
<1>7. /\ mate' \in Seq(Ids) /\ Len(mate') = s /\ mate'[s] = i
      /\ DOMAIN mate' = DOMAIN mate \cup {s}
      /\ \A t \in DOMAIN mate : mate'[t] = mate[t]
  <2>1. /\ mate' \in Seq(Ids) /\ Len(mate') = s /\ mate'[s] = i
        /\ \A t \in DOMAIN mate : mate'[t] = mate[t]
    BY <1>5
  <2>2. DOMAIN mate' = 1 .. Len(mate) + 1
    BY <1>5
  <2> QED
    BY <1>5, <2>1, <2>2
<1>8. /\ ms \in Seq(Message) /\ Handled("far", ms)
      /\ DOMAIN ms = {1} /\ ms[1] = SocketDone(i, s)
  <2>1. SocketDone(i, s) \in Message
    <3>1. s \in 0 .. MaxId
      BY <1>6, ForwardAssumption
    <3> QED
      BY <3>1, MessageFacts
  <2> QED
    BY <2>1, OneFacts
<1>9. none \in Seq(Message) /\ DOMAIN none = {}
  BY NoneFacts
<1>10. SocketDone(i, s).type = "SOCKET_done" /\ SocketDone(i, s).id = i /\ SocketDone(i, s).rid = s
  BY DEF SocketDone
<1>11. /\ socks' = [t \in DOMAIN socks \cup {s} |-> socks'[t]]
       /\ DOMAIN socks' = DOMAIN socks \cup {s}
       /\ socks'[s] = NewSocket(i)
       /\ \A t \in DOMAIN socks : t # s => socks'[t] = socks[t]
  <2> HIDE DEF s
  <2>1. socks' = [t \in DOMAIN socks \cup {s} |->
                    IF t = s THEN NewSocket(i) ELSE socks[t]]
    BY DEF s, Added
  <2> QED
    BY <2>1
<1> HIDE DEF s, ms, none
<1>12. /\ ChanOK' /\ Follows(chan.far', chan.far, 1, none)
       /\ Follows(chan.near', chan.near, 0, ms)
  BY <1>1, <1>8, HandledAtFar DEF none
<1>13. Plain(none) /\ Plain(ms)
  BY <1>8, <1>9, <1>10 DEF Plain
<1>14. OrderOK'
  BY <1>1, OrderSame DEF FlowInv
<1>15. DOMAIN socks \subseteq DOMAIN mate
  BY DEF FlowInv, SocksOK
<1>16. SocksOK'
  <2>1. NewSocket(i) \in FarSocket /\ NewSocket(i).rid = i
    BY DEF NewSocket, FarSocket
  <2>2. \A t \in DOMAIN mate' : mate'[t] \in DOMAIN origin'
    BY <1>1, <1>4, <1>7 DEF FlowInv, SocksOK
  <2>3. \A t \in DOMAIN socks' : socks'[t] \in FarSocket /\ socks'[t].rid = mate'[t]
    BY <1>6, <1>7, <1>11, <1>15, <2>1 DEF FlowInv, SocksOK
  <2>4. Len(mate') <= Len(origin') /\ Len(origin') <= MaxId /\ known' \subseteq Ids
    <3>1. i <= Len(origin)
      BY <1>4, <1>5
    <3>2. s <= Len(origin)
      BY <1>5, <1>6, <3>1 DEF Ids
    <3> QED
      BY <1>1, <1>7, <3>2 DEF FlowInv, SocksOK
  <2> QED
    BY <1>7, <1>11, <1>15, <2>2, <2>3, <2>4 DEF SocksOK
<1>17. LinksOK'
  BY <1>1, <1>7 DEF FlowInv, LinksOK
<1>18. AllFarFit(chan.far', origin', mate', taken'.there)
  <2> SUFFICES ASSUME NEW j \in DOMAIN chan.far'
               PROVE  FarFits(chan.far'[j], origin, mate', taken.there)
    BY <1>1 DEF AllFarFit
  <2>1. j + 1 \in DOMAIN chan.far /\ chan.far'[j] = chan.far[j + 1]
    BY <1>9, <1>12 DEF Follows
  <2>2. 1 < j + 1
    <3>1. chan.far' \in Seq(Message)
      BY <1>12 DEF Follows
    <3>2. j \in 1 .. Len(chan.far')
      BY <3>1
    <3> QED
      BY <3>2
  <2> DEFINE m == chan.far[j + 1]
  <2>3. FarFits(m, origin, mate, taken.there)
    BY <2>1 DEF FlowInv, MessagesFit, AllFarFit
  <2>4. ASSUME m.type = "SOCKET"
        PROVE  Len(mate') < m.id
    <3>1. i < m.id
      BY <1>2, <1>3, <2>1, <2>2, <2>4 DEF FlowInv, Rising
    <3>2. m.id \in 1 .. Len(origin)
      BY <1>5, <2>3, <2>4 DEF FarFits
    <3> HIDE DEF m
    <3> QED
      BY <1>4, <1>5, <1>6, <1>7, <3>1, <3>2
  <2>5. FarFits(m, origin, mate', taken.there)
    BY <1>7, <2>3, <2>4 DEF FarFits
  <2> QED
    BY <2>1, <2>5
<1>19. AllNearFit(chan.near', mate', taken'.back)
  <2> DEFINE N == chan.near
             N1 == chan.near'
             cs1 == mate'
  <2>1. /\ AllNearFit(N, mate, taken.back) /\ Extends(cs1, mate)
        /\ N \in Seq(Message) /\ taken.back \in Nat /\ taken.back <= taken.back
    BY <1>7, Facts DEF FlowInv, MessagesFit, Extends
  <2>2. AllNearFit(ms, cs1, taken.back)
    BY <1>7, <1>8, <1>10 DEF AllNearFit, NearFits
  <2>3. Follows(N1, N, 0, ms)
    BY <1>12
  <2> HIDE DEF N, N1, cs1
  <2>4. AllNearFit(N1, cs1, taken.back)
    BY <1>8, <2>1, <2>2, <2>3, NearKept
  <2> QED
    BY <1>1, <2>4 DEF N1, cs1
<1>20. MessagesFit'
  BY <1>18, <1>19 DEF MessagesFit
<1>21. SocksContinue(1)
  <2>1. \A t : chan.far[1] # Connect(t)
    BY <1>2, <1>3 DEF Connect
  <2> QED
    BY <1>6, <1>11, <2>1 DEF SocksContinue, Continues
<1>22. QueuesStay
  BY <1>1 DEF QueuesStay
<1>23. UNCHANGED taken /\ 0 \in Nat /\ 1 \in Nat
  BY <1>1
<1>24. FlowInv' /\ NothingTaken
  BY <1>8, <1>9, <1>12, <1>13, <1>14, <1>16, <1>17, <1>20, <1>21, <1>22, <1>23, PlainStep
<1>25. Len(mate) < MaxId
  BY <1>4, <1>5, ForwardAssumption
<1> QED
  BY <1>4, <1>24, <1>25

\* ms are DATA for the socket s, with packets from a, the n-th at most.
DataFrom(ms, s, a, n) ==
    \A k \in DOMAIN ms :
        /\ ms[k].type = "DATA" /\ ms[k].id = s
        /\ ms[k].packet \in Packet /\ ms[k].packet.from = a /\ ms[k].packet.n <= n

\* No packet is in both.
Disjoint(c, ms) ==
    \A j \in DOMAIN c, k \in DOMAIN ms :
        c[j].type = "DATA" /\ ms[k].type = "DATA" => c[j].packet # ms[k].packet

LEMMA OnceFollows ==
    ASSUME NEW c \in Seq(Message), NEW c1, NEW d \in Nat, NEW ms \in Seq(Message),
           Follows(c1, c, d, ms), Once(c), Once(ms), Disjoint(c, ms)
    PROVE  Once(c1)
<1> SUFFICES ASSUME NEW j \in DOMAIN c1, NEW k \in DOMAIN c1,
                    c1[j].type = "DATA", c1[k].type = "DATA",
                    c1[j].packet = c1[k].packet
             PROVE  j = k
  BY DEF Once
<1>1. j \in Nat /\ k \in Nat
  <2>1. c1 \in Seq(Message)
    BY DEF Follows
  <2>2. DOMAIN c1 = 1 .. Len(c1) /\ Len(c1) \in Nat
    BY <2>1
  <2> QED
    BY <2>2
<1>2. ASSUME NEW l \in DOMAIN c1
      PROVE  \/ l + d \in DOMAIN c /\ c1[l] = c[l + d]
             \/ \E i \in DOMAIN ms : l + d = Len(c) + i /\ c1[l] = ms[i]
  BY DEF Follows
<1>3. j + d = k + d
  <2>1. CASE j + d \in DOMAIN c /\ c1[j] = c[j + d]
    <3>1. k + d \in DOMAIN c /\ c1[k] = c[k + d]
      BY <1>2, <2>1 DEF Disjoint
    <3> QED
      BY <2>1, <3>1 DEF Once
  <2>2. ASSUME NEW i \in DOMAIN ms, j + d = Len(c) + i, c1[j] = ms[i]
        PROVE  j + d = k + d
    <3>1. PICK l \in DOMAIN ms : k + d = Len(c) + l /\ c1[k] = ms[l]
      BY <1>2, <2>2 DEF Disjoint
    <3>2. i = l
      BY <2>2, <3>1 DEF Once
    <3> QED
      BY <2>2, <3>1, <3>2
  <2> QED
    BY <1>2, <2>1, <2>2
<1> QED
  BY <1>1, <1>3

LEMMA RisingFollows ==
    ASSUME NEW c \in Seq(Message), NEW c1, NEW d \in Nat, NEW ms \in Seq(Message),
           Follows(c1, c, d, ms), Rising(c),
           \A k \in DOMAIN ms : ms[k].type # "SOCKET"
    PROVE  Rising(c1)
<1> SUFFICES ASSUME NEW j \in DOMAIN c1, NEW k \in DOMAIN c1, j < k,
                    c1[j].type = "SOCKET", c1[k].type = "SOCKET"
             PROVE  c1[j].id < c1[k].id
  BY DEF Rising
<1>1. j \in Nat /\ k \in Nat
  <2>1. c1 \in Seq(Message)
    BY DEF Follows
  <2>2. DOMAIN c1 = 1 .. Len(c1) /\ Len(c1) \in Nat
    BY <2>1
  <2> QED
    BY <2>2
<1>2. /\ j + d \in DOMAIN c /\ c1[j] = c[j + d]
      /\ k + d \in DOMAIN c /\ c1[k] = c[k + d]
  BY DEF Follows
<1>3. j + d < k + d
  BY <1>1
<1> QED
  BY <1>2, <1>3 DEF Rising

\* A connection sends packets to its far socket.
LEMMA SendStep ==
    ASSUME FlowInv, IInv', ChanOK', OrderOK', SocksOK', UNCHANGED <<socks, mate, origin>>,
           NEW e \in Nat, NEW fm \in Seq(Message),
           Follows(chan.far', chan.far, 0, fm), Follows(chan.near', chan.near, e, <<>>),
           taken'.there \in Nat, taken.there <= taken'.there, taken'.back = taken.back,
           NEW a \in DOMAIN conns, conns[a].rid # 0,
           DataFrom(fm, conns[a].rid, a, taken'.there), Once(fm), Disjoint(chan.far, fm),
           DOMAIN conns' = DOMAIN conns,
           \A x \in DOMAIN conns :
              /\ conns'[x].id = conns[x].id /\ conns'[x].rid = conns[x].rid
              /\ x # a => conns'[x].q = conns[x].q,
           Held(conns'[a].q, a, taken'.there, chan.far')
    PROVE  FlowInv'
<1> DEFINE F == chan.far
           F1 == chan.far'
           N == chan.near
           N1 == chan.near'
           s == conns[a].rid
           n1 == taken'.there
           none == <<>>
<1>1. none \in Seq(Message) /\ DOMAIN none = {} /\ Follows(N1, N, e, none)
  BY NoneFacts
<1> HIDE DEF none
<1>2. /\ F \in Seq(Message) /\ N \in Seq(Message) /\ Len(F) \in Nat
      /\ taken.there \in Nat /\ taken.back \in Nat
  <2>1. F \in Seq(Message)
    BY Facts
  <2> QED
    BY <2>1, Facts
<1>3. s \in DOMAIN mate /\ origin[mate[s]] = a
  BY DEF FlowInv, LinksOK
<1>4. MessagesFit'
  <2>1. AllFarFit(fm, origin', mate, taken'.there)
    BY <1>3 DEF DataFrom, AllFarFit, FarFits
  <2>2. AllNearFit(none, mate, taken'.back)
    BY <1>1 DEF AllNearFit
  <2>3. Extends(origin', origin) /\ taken'.back \in Nat /\ taken.back <= taken'.back
    BY <1>2 DEF Extends
  <2>4. 0 \in Nat
    OBVIOUS
  <2> QED
    BY <1>1, <2>1, <2>2, <2>3, <2>4, FitStep
<1>5. LinksOK'
  BY DEF FlowInv, LinksOK
<1>6. Rising(F1) /\ Once(F1) /\ Once(N1)
  <2>1. Rising(F) /\ Once(F) /\ Once(N)
    BY DEF FlowInv
  <2>2. Follows(F1, F, 0, fm) /\ Disjoint(F, fm) /\ 0 \in Nat
    OBVIOUS
  <2>3. \A k \in DOMAIN fm : fm[k].type # "SOCKET"
    BY DEF DataFrom
  <2>4. Plain(none)
    BY <1>1 DEF Plain
  <2> HIDE DEF F, F1, N, N1
  <2>5. Rising(F1)
    BY <1>2, <2>1, <2>2, <2>3, RisingFollows
  <2>6. Once(F1)
    BY <1>2, <2>1, <2>2, OnceFollows
  <2>7. Once(N1)
    BY <1>1, <1>2, <2>1, <2>4, PlainFollows
  <2> QED
    BY <2>5, <2>6, <2>7
<1>7. HeldOK'
  <2> SUFFICES ASSUME NEW x \in DOMAIN conns, x # a
               PROVE  Held(conns'[x].q, x, n1, F1)
    BY DEF HeldOK
  <2> DEFINE q == conns[x].q
  <2>1. q \in Seq(Packet)
    BY Facts DEF Connection
  <2>2. Held(q, x, taken.there, F)
    BY DEF FlowInv, HeldOK
  <2>3. \A k \in DOMAIN fm, l \in DOMAIN q : fm[k].type = "DATA" => fm[k].packet # q[l]
    BY <2>2 DEF Held, DataFrom
  <2>4. conns'[x].q = q
    OBVIOUS
  <2>5. Follows(F1, F, 0, fm) /\ n1 \in Nat /\ taken.there <= n1 /\ 0 \in Nat
    OBVIOUS
  <2> HIDE DEF q, F, F1, n1
  <2>6. Held(q, x, n1, F1)
    BY <1>2, <2>1, <2>2, <2>3, <2>5, HeldKept
  <2> QED
    BY <2>4, <2>6
<1>8. TargetOK'
  <2>1. SocksContinue(0) /\ 0 \in Nat
    BY DEF SocksContinue, Continues
  <2>2. /\ \A j \in DOMAIN F, k \in Nat :
              F[j].type = "DATA" /\ k + 0 >= j => Aimed(F[j].id, k, F1, socks')
        /\ \A x \in DOMAIN conns, k \in Nat :
              conns[x].rid # 0 /\ k + 0 > Len(F) => Aimed(conns[x].rid, k, F1, socks')
    BY <2>1, StillAimed
  <2>3. F1 \in Seq(Message) /\ Len(F1) + 0 = Len(F) + Len(fm)
    BY DEF Follows
  <2>4. Len(F1) \in Nat /\ DOMAIN F1 = 1 .. Len(F1) /\ Len(F1) >= Len(F) /\ DOMAIN fm \subseteq Nat \ {0}
    <3>1. Len(F1) \in Nat /\ DOMAIN F1 = 1 .. Len(F1)
      BY <2>3
    <3>2. Len(fm) \in Nat /\ DOMAIN fm = 1 .. Len(fm)
      OBVIOUS
    <3> HIDE DEF F, F1
    <3> QED
      BY <1>2, <2>3, <3>1, <3>2
  <2>5. ASSUME NEW j \in DOMAIN F1, F1[j].type = "DATA"
        PROVE  Aimed(F1[j].id, j, F1, socks')
    <3>1. j \in Nat
      BY <2>4
    <3>2. CASE j + 0 \in DOMAIN F /\ F1[j] = F[j + 0]
      <4>1. j + 0 = j /\ j + 0 >= j
        BY <3>1
      <4> QED
        BY <2>2, <2>5, <3>1, <3>2, <4>1
    <3>3. ASSUME NEW k \in DOMAIN fm, j + 0 = Len(F) + k, F1[j] = fm[k]
          PROVE  Aimed(F1[j].id, j, F1, socks')
      <4>1. j + 0 > Len(F)
        BY <1>2, <2>4, <3>1, <3>3
      <4>2. F1[j].id = s
        BY <3>3 DEF DataFrom
      <4> QED
        BY <2>2, <3>1, <4>1, <4>2
    <3> QED
      BY <3>2, <3>3 DEF Follows
  <2>6. ASSUME NEW x \in DOMAIN conns, conns[x].rid # 0
        PROVE  Aimed(conns[x].rid, Len(F1) + 1, F1, socks')
    <3>1. Len(F1) + 1 \in Nat /\ (Len(F1) + 1) + 0 > Len(F)
      BY <1>2, <2>4
    <3> QED
      BY <2>2, <2>6, <3>1
  <2> QED
    BY <2>5, <2>6 DEF TargetOK
<1> QED
  BY <1>4, <1>5, <1>6, <1>7, <1>8 DEF FlowInv

LEMMA SocketConnectedKeeps ==
    ASSUME FlowInv, IInv', SocketConnected
    PROVE  FlowInv' /\ NothingTaken
<1>1. PICK s \in Ids :
        /\ chan.near # <<>>
        /\ \/ Handled("near", <<>>) /\ UNCHANGED near
           \/ /\ \E a \in Knows(s) : ForgetOne(a)
              /\ Handled("near", <<Close(s)>>)
              /\ UNCHANGED origin
           \/ \E a \in Knows(s) :
              /\ conns' = [conns EXCEPT ![a].q = <<>>, ![a].setup = "done"]
              /\ order' = Touched(a)
              /\ Handled("near", Flushed(s, conns[a].q))
              /\ UNCHANGED origin
  BY DEF SocketConnected, Receive
<1>2. UNCHANGED <<socks, mate, known, taken>> /\ ChanOK
  BY DEF SocketConnected, far, history, FlowInv
<1>3. CASE Handled("near", <<>>) /\ UNCHANGED near
  <2>1. UNCHANGED <<conns, order, origin>>
    BY <1>3 DEF near
  <2> QED
    BY <1>1, <1>2, <1>3, <2>1, QuietMessages, NoneGoes
<1>4. ASSUME NEW a \in Knows(s), ForgetOne(a), Handled("near", <<Close(s)>>), UNCHANGED origin
      PROVE  FlowInv' /\ NothingTaken
  <2>1. a \in DOMAIN conns
    BY DEF Knows
  <2>2. <<Close(s)>> \in Seq(Message) /\ QuietToFar(<<Close(s)>>)
    BY MessageFacts, QuietMessages, Zenon
  <2> QED
    BY <1>1, <1>2, <1>4, <2>1, <2>2, OneGoes
<1>5. ASSUME NEW a \in Knows(s),
             conns' = [conns EXCEPT ![a].q = <<>>, ![a].setup = "done"],
             order' = Touched(a), Handled("near", Flushed(s, conns[a].q)), UNCHANGED origin
      PROVE  FlowInv' /\ NothingTaken
  <2> DEFINE F == chan.far
             F1 == chan.far'
             N == chan.near
             N1 == chan.near'
             q == conns[a].q
             fm == Flushed(s, q)
             none == <<>>
             n == taken.there
  <2>1. a \in DOMAIN conns /\ conns[a].rid = s /\ s # 0
    BY DEF Knows, Ids
  <2>2. conns[a] \in Connection /\ q \in Seq(Packet)
    BY <2>1, Facts DEF Connection
  <2>3. Held(q, a, n, F)
    BY <2>1 DEF FlowInv, HeldOK
  <2>4. none \in Seq(Message) /\ none \in Seq(Packet) /\ DOMAIN none = {}
    BY NoneFacts
  <2>5. /\ DOMAIN conns' = DOMAIN conns
        /\ conns'[a].rid = s /\ conns'[a].id = conns[a].id /\ conns'[a].q = none
        /\ \A x \in DOMAIN conns : x # a => conns'[x] = conns[x]
    <3>1. conns' = [conns EXCEPT ![a] = [conns[a] EXCEPT !.q = none, !.setup = "done"]]
      BY <1>5, <2>1
    <3> HIDE DEF none
    <3> DEFINE k == [conns[a] EXCEPT !.q = none, !.setup = "done"]
    <3>2. k.rid = conns[a].rid /\ k.id = conns[a].id /\ k.q = none
      BY <2>2 DEF Connection
    <3>3. conns' = [conns EXCEPT ![a] = k]
      BY <3>1
    <3> HIDE DEF k
    <3> QED
      BY <2>1, <3>2, <3>3
  <2> HIDE DEF q
  <2>6. /\ fm \in Seq(Message) /\ DOMAIN fm = DOMAIN q
        /\ \A k \in DOMAIN fm :
            /\ fm[k].type = "DATA" /\ fm[k].id = s /\ fm[k].packet = q[k]
            /\ q[k] \in Packet
    <3>1. DOMAIN q = 1 .. Len(q) /\ Len(q) \in Nat /\ \A k \in DOMAIN q : q[k] \in Packet
      BY <2>2
    <3>2. fm = [k \in 1 .. Len(q) |-> Data(s, q[k])]
      BY <3>1 DEF Flushed
    <3>3. \A k \in 1 .. Len(q) :
            /\ Data(s, q[k]) \in Message
            /\ Data(s, q[k]).type = "DATA" /\ Data(s, q[k]).id = s /\ Data(s, q[k]).packet = q[k]
      BY <3>1, MessageFacts
    <3> HIDE DEF fm
    <3>4. fm \in Seq(Message)
      BY <3>1, <3>2, <3>3
    <3> QED
      BY <3>1, <3>2, <3>3, <3>4
  <2>7. Handled("near", fm)
    BY <1>5 DEF q
  <2> HIDE DEF fm, none
  <2>8. /\ ChanOK' /\ Follows(F1, F, 0, fm)
        /\ Follows(N1, N, 1, none)
    BY <1>1, <1>2, <2>6, <2>7, HandledAtNear DEF none
  <2>9. OrderOK'
    BY <1>5, <2>1, <2>5, OrderTouched DEF FlowInv
  <2>10. SocksOK'
    BY <1>2, <1>5 DEF FlowInv, SocksOK
  <2>11. F \in Seq(Message) /\ n \in Nat /\ taken.back \in Nat
    BY Facts
  <2>12. DataFrom(fm, s, a, n) /\ Disjoint(F, fm)
    BY <2>3, <2>6 DEF DataFrom, Disjoint, Held
  <2>13. Once(fm)
    <3> SUFFICES ASSUME NEW j \in DOMAIN q, NEW k \in DOMAIN q, q[j] = q[k]
                 PROVE  j = k
      BY <2>6 DEF Once
    <3>1. j \in Nat /\ k \in Nat
      <4>1. DOMAIN q = 1 .. Len(q) /\ Len(q) \in Nat
        BY <2>2
      <4> QED
        BY <4>1
    <3>2. (j < k => q[j].n < q[k].n) /\ (k < j => q[k].n < q[j].n)
      BY <2>3 DEF Held
    <3>3. q[j].n \in Int
      <4>1. q[j] \in Packet
        BY <2>2
      <4> QED
        BY <4>1, ForwardAssumption DEF Packet
    <3> QED
      BY <3>1, <3>2, <3>3
  <2>14. Held(none, a, n, F1)
    BY <2>4 DEF Held
  <2>15. FlowInv'
    <3>1. UNCHANGED <<socks, mate, origin>> /\ 1 \in Nat
      BY <1>2, <1>5
    <3>2. taken'.there = n /\ taken'.back = taken.back
      BY <1>2
    <3>3. /\ Follows(chan.far', chan.far, 0, fm) /\ Follows(chan.near', chan.near, 1, <<>>)
          /\ Disjoint(chan.far, fm) /\ taken'.there \in Nat /\ taken.there <= taken'.there
      BY <2>8, <2>11, <2>12, <3>2 DEF none
    <3>4. /\ conns[a].rid # 0 /\ DataFrom(fm, conns[a].rid, a, taken'.there)
          /\ Held(conns'[a].q, a, taken'.there, chan.far')
      BY <2>1, <2>5, <2>12, <2>14, <3>2
    <3>5. \A x \in DOMAIN conns :
            /\ conns'[x].id = conns[x].id /\ conns'[x].rid = conns[x].rid
            /\ x # a => conns'[x].q = conns[x].q
      BY <2>1, <2>5
    <3> HIDE DEF F, F1, N, N1, n
    <3> QED
      BY <2>1, <2>5, <2>6, <2>8, <2>9, <2>10, <2>13, <3>1, <3>2, <3>3, <3>4, <3>5, SendStep
  <2>16. PacketsThere' \subseteq PacketsThere
    <3> SUFFICES ASSUME NEW p \in PacketsThere' PROVE p \in PacketsThere
      OBVIOUS
    <3>1. \/ \E x \in DOMAIN conns' : \E k \in DOMAIN conns'[x].q : conns'[x].q[k] = p
          \/ \E j \in DOMAIN F1 : F1[j].type = "DATA" /\ F1[j].packet = p
      BY ThereFactsNext
    <3>2. CASE \E x \in DOMAIN conns' : \E k \in DOMAIN conns'[x].q : conns'[x].q[k] = p
      <4>1. \E x \in DOMAIN conns : \E k \in DOMAIN conns[x].q : conns[x].q[k] = p
        BY <2>4, <2>5, <3>2
      <4> QED
        BY <4>1, ThereFacts
    <3>3. ASSUME NEW j \in DOMAIN F1, F1[j].type = "DATA", F1[j].packet = p
          PROVE  p \in PacketsThere
      <4>1. (\E i \in DOMAIN F : F1[j] = F[i]) \/ (\E i \in DOMAIN fm : F1[j] = fm[i])
        BY <2>8 DEF Follows
      <4>2. \/ \E i \in DOMAIN F : F[i].type = "DATA" /\ F[i].packet = p
            \/ \E k \in DOMAIN conns[a].q : conns[a].q[k] = p
        BY <2>6, <3>3, <4>1 DEF q
      <4> QED
        BY <2>1, <4>2, ThereFacts
    <3> QED
      BY <3>1, <3>2, <3>3
  <2>17. PacketsBack' \subseteq PacketsBack
    <3> SUFFICES ASSUME NEW p \in PacketsBack' PROVE p \in PacketsBack
      OBVIOUS
    <3>1. PICK j \in DOMAIN N1 : N1[j].type = "DATA" /\ N1[j].packet = p
      BY ThereFactsNext
    <3>2. \E i \in DOMAIN N : N1[j] = N[i]
      BY <2>4, <2>8 DEF Follows
    <3> QED
      BY <3>1, <3>2, ThereFacts
  <2> QED
    BY <2>15, <2>16, <2>17 DEF NothingTaken
<1> QED
  BY <1>1, <1>3, <1>4, <1>5

\* A packet from a has been taken; it may be on its way.
TakenThere(a) ==
    PacketsThere' \subseteq PacketsThere \cup {Arrived(a)} /\ PacketsBack' = PacketsBack

\* What is on its way to the peer that does not send or receive stays as it is.
LEMMA NotTouched ==
    ASSUME ChanOK
    PROVE  /\ \A ms : Send("near", ms) => chan.near' = chan.near
           /\ \A ms : Send("far", ms) => chan.far' = chan.far
           /\ Handled("near", <<>>) => chan.far' = chan.far
           /\ Handled("far", <<>>) => chan.near' = chan.near
<1>1. DOMAIN chan = Peers /\ chan.near \in Seq(Message) /\ chan.far \in Seq(Message)
  BY DEF ChanOK, Peers
<1>2. \A c \in Seq(Message) : c \o <<>> = c
  OBVIOUS
<1>3. /\ Handled("near", <<>>) => chan.far' = chan.far
      /\ Handled("far", <<>>) => chan.near' = chan.near
  BY <1>1, <1>2 DEF Handled, Other, Peers
<1> QED
  BY <1>1, <1>3 DEF Send, Other, Peers

\* A packet that arrives is a new one.
LEMMA ArrivedFacts ==
    ASSUME FlowInv, NEW a \in Addresses, Arrives(a)
    PROVE  /\ Arrived(a) \in Packet /\ Arrived(a).from = a
           /\ Arrived(a).n = taken.there + 1 /\ taken'.there = taken.there + 1
           /\ taken'.there \in Nat /\ taken.there <= taken'.there
           /\ taken'.back = taken.back /\ taken.there \in Nat /\ taken.back \in Nat
           /\ \A j \in DOMAIN chan.far :
                chan.far[j].type = "DATA" => chan.far[j].packet # Arrived(a)
           /\ \A x \in DOMAIN conns : \A k \in DOMAIN conns[x].q :
                conns[x].q[k] # Arrived(a) /\ conns[x].q[k].n < taken.there + 1
<1> DEFINE n == taken.there
           p == Arrived(a)
<1>1. n \in Nat /\ taken.back \in Nat /\ n + 1 \in 1 .. MaxPackets
  <2>1. n \in Nat /\ n < MaxPackets /\ MaxPackets \in Nat
    BY Facts, ForwardAssumption DEF Arrives
  <2> HIDE DEF n
  <2> QED
    BY <2>1, Facts
<1>2. p \in Packet /\ p.from = a /\ p.n = n + 1
  BY <1>1 DEF Arrived, Packet
<1>3. taken'.there = n + 1 /\ taken'.back = taken.back
  <2>1. taken \in [there : 0 .. MaxPackets, back : 0 .. MaxReplies]
    BY DEF FlowInv, IInv, CountersOK
  <2> QED
    BY <2>1 DEF Arrives
<1>4. n + 1 \in Nat /\ n <= n + 1
  BY <1>1
<1>5. ASSUME NEW r \in Packet, r.n <= n
      PROVE  r # p /\ r.n < n + 1
  <2>1. r.n \in Int
    BY ForwardAssumption DEF Packet
  <2> HIDE DEF n, p
  <2>2. r.n < n + 1 /\ r.n # n + 1
    BY <1>1, <1>5, <2>1
  <2> QED
    BY <1>2, <2>2
<1>6. ASSUME NEW j \in DOMAIN chan.far, chan.far[j].type = "DATA"
      PROVE  chan.far[j].packet # p
  <2>1. FarFits(chan.far[j], origin, mate, n)
    BY DEF FlowInv, MessagesFit, AllFarFit
  <2>2. chan.far[j].packet \in Packet /\ chan.far[j].packet.n <= n
    BY <1>6, <2>1 DEF FarFits
  <2> QED
    BY <1>5, <2>2
<1>7. ASSUME NEW x \in DOMAIN conns, NEW k \in DOMAIN conns[x].q
      PROVE  conns[x].q[k] # p /\ conns[x].q[k].n < n + 1
  <2>1. Held(conns[x].q, x, n, chan.far)
    BY DEF FlowInv, HeldOK
  <2>2. conns[x].q[k].n <= n
    BY <2>1 DEF Held
  <2>3. conns[x].q \in Seq(Packet)
    BY Facts DEF Connection
  <2>4. conns[x].q[k] \in Packet
    BY <2>3
  <2> QED
    BY <1>5, <2>2, <2>4
<1> QED
  BY <1>1, <1>2, <1>3, <1>4, <1>6, <1>7

LEMMA ReceiveKnownKeeps ==
    ASSUME FlowInv, IInv', NEW a \in Addresses, ReceiveKnown(a)
    PROVE  FlowInv' /\ TakenThere(a)
<1> DEFINE F == chan.far
           F1 == chan.far'
           N == chan.near
           N1 == chan.near'
           p == Arrived(a)
           n == taken.there
           n1 == taken'.there
           none == <<>>
<1>1. /\ Arrives(a) /\ a \in DOMAIN conns
      /\ UNCHANGED <<socks, mate, origin, known>> /\ ChanOK
  BY DEF ReceiveKnown, far, FlowInv
<1>2. /\ p \in Packet /\ p.from = a /\ p.n = n + 1 /\ n1 = n + 1
      /\ n1 \in Nat /\ n \in Nat /\ n <= n1 /\ taken'.back = taken.back /\ taken.back \in Nat
      /\ \A j \in DOMAIN F : F[j].type = "DATA" => F[j].packet # p
      /\ \A x \in DOMAIN conns : \A k \in DOMAIN conns[x].q :
            conns[x].q[k] # p /\ conns[x].q[k].n < n + 1
  BY <1>1, ArrivedFacts
<1>3. SocksOK'
  BY <1>1 DEF FlowInv, SocksOK
<1>4. none \in Seq(Message) /\ DOMAIN none = {} /\ none = <<>>
  BY NoneFacts
<1>5. F \in Seq(Message) /\ N \in Seq(Message)
  BY Facts
<1>6. /\ conns[a] \in Connection /\ conns[a].q \in Seq(Packet)
      /\ Held(conns[a].q, a, n, F)
  BY <1>1, Facts DEF Connection, FlowInv, HeldOK
<1> HIDE DEF none, p
<1>7. CASE /\ conns[a].rid # 0 /\ Send("near", <<Data(conns[a].rid, p)>>)
           /\ order' = Touched(a) /\ UNCHANGED conns
  <2> DEFINE s == conns[a].rid
             ms == <<Data(s, p)>>
  <2>1. s \in Ids
    <3>1. s \in 0 .. MaxId
      BY <1>6 DEF Connection
    <3> QED
      BY <1>7, <3>1 DEF Ids
  <2>2. /\ Data(s, p) \in Message /\ Data(s, p).type = "DATA"
        /\ Data(s, p).id = s /\ Data(s, p).packet = p
    BY <1>2, <2>1, MessageFacts
  <2>3. ms \in Seq(Message) /\ DOMAIN ms = {1} /\ ms[1] = Data(s, p) /\ Send("near", ms)
    BY <1>7, <2>2, OneFacts
  <2> HIDE DEF ms
  <2>4. ChanOK' /\ Follows(F1, F, 0, ms) /\ Follows(N1, N, 0, none)
    BY <1>1, <1>4, <2>3, SentToFar
  <2>5. OrderOK'
    BY <1>1, <1>7, OrderTouched DEF FlowInv
  <2>6. DataFrom(ms, s, a, n1) /\ Once(ms) /\ Disjoint(F, ms)
    <3>1. p.n <= n1
      BY <1>2
    <3> QED
      BY <1>2, <2>2, <2>3, <3>1 DEF DataFrom, Once, Disjoint
  <2>7. Held(conns'[a].q, a, n1, F1)
    <3> DEFINE q == conns[a].q
    <3>1. \A k \in DOMAIN ms, l \in DOMAIN q : ms[k].type = "DATA" => ms[k].packet # q[l]
      BY <1>1, <1>2, <2>2, <2>3
    <3>2. q \in Seq(Packet) /\ Held(q, a, n, F) /\ 0 \in Nat
      BY <1>6
    <3>3. conns'[a].q = q
      BY <1>7
    <3> HIDE DEF q, F, F1, n, n1
    <3>4. Held(q, a, n1, F1)
      BY <1>2, <1>5, <2>3, <2>4, <3>1, <3>2, HeldKept
    <3> QED
      BY <3>3, <3>4
  <2>8. FlowInv'
    <3>1. UNCHANGED <<socks, mate, origin>> /\ 0 \in Nat
      BY <1>1
    <3>2. /\ Follows(chan.far', chan.far, 0, ms) /\ Follows(chan.near', chan.near, 0, <<>>)
          /\ Disjoint(chan.far, ms) /\ taken'.there \in Nat /\ taken.there <= taken'.there
          /\ taken'.back = taken.back
      BY <1>2, <1>4, <2>4, <2>6
    <3>3. /\ conns[a].rid # 0 /\ DataFrom(ms, conns[a].rid, a, taken'.there)
          /\ Held(conns'[a].q, a, taken'.there, chan.far')
      BY <1>7, <2>6, <2>7
    <3>4. /\ DOMAIN conns' = DOMAIN conns
          /\ \A x \in DOMAIN conns :
            /\ conns'[x].id = conns[x].id /\ conns'[x].rid = conns[x].rid
            /\ x # a => conns'[x].q = conns[x].q
      BY <1>7
    <3> HIDE DEF F, F1, N, N1, n, n1
    <3> QED
      BY <1>1, <1>3, <2>3, <2>4, <2>5, <2>6, <3>1, <3>2, <3>3, <3>4, SendStep
  <2>9. PacketsThere' \subseteq PacketsThere \cup {p}
    <3> SUFFICES ASSUME NEW r \in PacketsThere', r # p PROVE r \in PacketsThere
      OBVIOUS
    <3>1. \/ \E x \in DOMAIN conns : \E k \in DOMAIN conns[x].q : conns[x].q[k] = r
          \/ \E j \in DOMAIN F1 : F1[j].type = "DATA" /\ F1[j].packet = r
      BY <1>7, ThereFactsNext
    <3>2. \A j \in DOMAIN F1 : (\E i \in DOMAIN F : F1[j] = F[i]) \/ F1[j].packet = p
      BY <2>2, <2>3, <2>4 DEF Follows
    <3> QED
      BY <3>1, <3>2, ThereFacts
  <2>10. PacketsBack' = PacketsBack
    BY <1>1, <2>3, NotTouched DEF PacketsBack
  <2> QED
    BY <2>8, <2>9, <2>10 DEF TakenThere, p
<1>8. CASE /\ conns[a].rid = 0 /\ UNCHANGED <<chan, order>>
           /\ conns' = [conns EXCEPT ![a].q = Append(@, p)]
  <2> DEFINE q == conns[a].q
             q1 == Append(q, p)
  <2>1. /\ DOMAIN conns' = DOMAIN conns
        /\ conns'[a].rid = 0 /\ conns'[a].id = conns[a].id /\ conns'[a].q = q1
        /\ \A x \in DOMAIN conns : x # a => conns'[x] = conns[x]
    <3>1. conns' = [conns EXCEPT ![a] = [conns[a] EXCEPT !.q = q1]]
      BY <1>1, <1>8
    <3> HIDE DEF q1
    <3> DEFINE k == [conns[a] EXCEPT !.q = q1]
    <3>2. k.rid = 0 /\ k.id = conns[a].id /\ k.q = q1
      BY <1>6, <1>8 DEF Connection
    <3>3. conns' = [conns EXCEPT ![a] = k]
      BY <3>1
    <3> HIDE DEF k
    <3> QED
      BY <1>1, <3>2, <3>3
  <2>2. /\ q \in Seq(Packet) /\ Len(q) \in Nat /\ DOMAIN q = 1 .. Len(q)
        /\ DOMAIN q1 = 1 .. Len(q) + 1 /\ q1[Len(q) + 1] = p
        /\ \A k \in 1 .. Len(q) : q1[k] = q[k]
    <3>1. q \in Seq(Packet)
      BY <1>6
    <3> HIDE DEF q
    <3> QED
      BY <1>2, <3>1
  <2>3. Held(q, a, n, F) /\ \A k \in DOMAIN q : q[k].n < n + 1
    BY <1>1, <1>2, <1>6
  <2> HIDE DEF q, q1
  <2>4. Held(q1, a, n1, F)
    <3> SUFFICES ASSUME NEW k \in DOMAIN q1
                 PROVE  /\ q1[k].from = a /\ q1[k].n <= n1
                        /\ \A l \in DOMAIN q1 : k < l => q1[k].n < q1[l].n
                        /\ \A j \in DOMAIN F : F[j].type = "DATA" => F[j].packet # q1[k]
      BY DEF Held
    <3>1. CASE k = Len(q) + 1
      <4>1. \A l \in DOMAIN q1 : ~(k < l)
        BY <2>2, <3>1
      <4>2. p.n <= n1
        BY <1>2
      <4> QED
        BY <1>2, <2>2, <3>1, <4>1, <4>2
    <3>2. CASE k \in DOMAIN q
      <4>1. q1[k] = q[k] /\ q[k].n < n + 1 /\ q[k].from = a
        BY <2>2, <2>3, <3>2 DEF Held
      <4>2. q[k].n \in Int
        <5>1. q[k] \in Packet
          BY <2>2, <3>2
        <5> QED
          BY <5>1, ForwardAssumption DEF Packet
      <4>3. q[k].n <= n1
        BY <1>2, <4>1, <4>2
      <4>4. ASSUME NEW l \in DOMAIN q1, k < l
            PROVE  q1[k].n < q1[l].n
        <5>1. CASE l \in DOMAIN q
          BY <2>2, <2>3, <3>2, <4>1, <4>4, <5>1 DEF Held
        <5>2. CASE l = Len(q) + 1
          BY <1>2, <2>2, <4>1, <5>2
        <5> QED
          BY <2>2, <5>1, <5>2
      <4>5. \A j \in DOMAIN F : F[j].type = "DATA" => F[j].packet # q[k]
        BY <2>3, <3>2 DEF Held
      <4> QED
        BY <4>1, <4>3, <4>4, <4>5
    <3> QED
      BY <2>2, <3>1, <3>2
  <2>5. HeldOK'
    <3> SUFFICES ASSUME NEW x \in DOMAIN conns, x # a
                 PROVE  Held(conns'[x].q, x, n1, F)
      BY <1>8, <2>1, <2>4 DEF HeldOK
    <3>1. conns[x].q \in Seq(Packet) /\ Held(conns[x].q, x, n, F) /\ conns'[x] = conns[x]
      BY <2>1, Facts DEF Connection, FlowInv, HeldOK
    <3> DEFINE r == conns[x].q
    <3>2. Follows(F, F, 0, none) /\ 0 \in Nat
      BY <1>4, <1>5, SameFollows
    <3>3. r \in Seq(Packet) /\ Held(r, x, n, F)
      BY <3>1
    <3>4. \A k \in DOMAIN none, l \in DOMAIN r : none[k].type = "DATA" => none[k].packet # r[l]
      BY <1>4
    <3> HIDE DEF r, F, n, n1
    <3>5. Held(r, x, n1, F)
      BY <1>2, <1>4, <1>5, <3>2, <3>3, <3>4, HeldKept
    <3> QED
      BY <3>1, <3>5 DEF r
  <2>6. MessagesFit'
    <3>1. /\ AllFarFit(none, origin', mate, taken'.there)
          /\ AllNearFit(none, mate, taken'.back)
      BY <1>4 DEF AllFarFit, AllNearFit
    <3>2. /\ Follows(chan.far', chan.far, 0, none) /\ Follows(chan.near', chan.near, 0, none)
          /\ 0 \in Nat
      BY <1>4, <1>5, <1>8, SameFollows
    <3>3. /\ UNCHANGED mate /\ Extends(origin', origin)
          /\ taken'.there \in Nat /\ taken.there <= taken'.there
          /\ taken'.back \in Nat /\ taken.back <= taken'.back
      BY <1>1, <1>2 DEF Extends
    <3> QED
      BY <1>4, <3>1, <3>2, <3>3, FitStep
  <2>7. ChanOK' /\ Rising(chan.far)' /\ Once(chan.far)' /\ Once(chan.near)'
    BY <1>8 DEF FlowInv, ChanOK
  <2>8. OrderOK'
    BY <1>8, <2>1, OrderSame DEF FlowInv
  <2>9. LinksOK'
    BY <1>1, <1>8, <2>1 DEF FlowInv, LinksOK
  <2>10. TargetOK'
    BY <1>1, <1>8, <2>1 DEF FlowInv, TargetOK
  <2>11. FlowInv'
    BY <1>3, <2>5, <2>6, <2>7, <2>8, <2>9, <2>10 DEF FlowInv
  <2>12. PacketsThere' \subseteq PacketsThere \cup {p}
    <3> SUFFICES ASSUME NEW r \in PacketsThere', r # p PROVE r \in PacketsThere
      OBVIOUS
    <3>1. \/ \E x \in DOMAIN conns' : \E k \in DOMAIN conns'[x].q : conns'[x].q[k] = r
          \/ \E j \in DOMAIN F : F[j].type = "DATA" /\ F[j].packet = r
      BY <1>8, ThereFactsNext
    <3>2. ASSUME NEW x \in DOMAIN conns', NEW k \in DOMAIN conns'[x].q, conns'[x].q[k] = r
          PROVE  \E y \in DOMAIN conns : \E l \in DOMAIN conns[y].q : conns[y].q[l] = r
      <4>1. CASE x # a
        BY <2>1, <3>2, <4>1
      <4>2. CASE x = a
        <5>1. k \in DOMAIN q /\ q[k] = r
          BY <2>1, <2>2, <3>2, <4>2
        <5> QED
          BY <1>1, <5>1 DEF q
      <4> QED
        BY <4>1, <4>2
    <3> QED
      BY <3>1, <3>2, ThereFacts
  <2>13. PacketsBack' = PacketsBack
    BY <1>8 DEF PacketsBack
  <2> QED
    BY <2>11, <2>12, <2>13 DEF TakenThere, p
<1> QED
  BY <1>7, <1>8 DEF ReceiveKnown, p

LEMMA ReceiveNewKeeps ==
    ASSUME FlowInv, IInv', NEW a \in Addresses, ReceiveNew(a)
    PROVE  FlowInv' /\ TakenThere(a)
<1> DEFINE F == chan.far
           F1 == chan.far'
           N == chan.near
           N1 == chan.near'
           i == Len(origin) + 1
           p == Arrived(a)
           old == Oldest
           n == taken.there
           n1 == taken'.there
           none == <<>>
           q1 == <<p>>
<1>1. /\ Arrives(a) /\ a \notin DOMAIN conns /\ i <= MaxId
      /\ conns' = [x \in (DOMAIN conns \ old) \cup {a} |->
                    IF x = a THEN NewConnection(i, p) ELSE conns[x]]
      /\ origin' = Append(origin, a)
      /\ UNCHANGED <<socks, mate, known>> /\ ChanOK
  BY DEF ReceiveNew, far, FlowInv
<1>2. PICK closing \in Closing(old) : Send("near", Append(closing, Socket(i)))
  BY DEF ReceiveNew
<1> DEFINE ms == Append(closing, Socket(i))
<1>3. /\ p \in Packet /\ p.from = a /\ p.n = n + 1 /\ n1 = n + 1
      /\ n1 \in Nat /\ n \in Nat /\ n <= n1 /\ taken'.back = taken.back /\ taken.back \in Nat
      /\ \A j \in DOMAIN F : F[j].type = "DATA" => F[j].packet # p
  BY <1>1, ArrivedFacts
<1>4. F \in Seq(Message) /\ N \in Seq(Message) /\ Len(F) \in Nat /\ DOMAIN F = 1 .. Len(F)
  <2>1. F \in Seq(Message)
    BY Facts
  <2> QED
    BY <2>1, Facts
<1>5. /\ origin \in Seq(Addresses) /\ Len(origin) \in Nat /\ DOMAIN origin = 1 .. Len(origin)
      /\ mate \in Seq(Ids) /\ Len(mate) \in Nat /\ Len(mate) <= Len(origin)
  <2>1. origin \in Seq(Addresses) /\ mate \in Seq(Ids) /\ Len(mate) <= Len(origin)
    BY Facts DEF FlowInv, SocksOK
  <2> QED
    BY <2>1
<1>6. i \in Nat /\ i \in Ids /\ Len(mate) < i
  BY <1>1, <1>5, ForwardAssumption DEF Ids
<1>7. /\ DOMAIN origin' = DOMAIN origin \cup {i} /\ origin'[i] = a /\ Len(origin') = i
      /\ Extends(origin', origin)
  <2>1. /\ DOMAIN origin' = 1 .. Len(origin) + 1 /\ Len(origin') = Len(origin) + 1
        /\ origin'[Len(origin) + 1] = a
        /\ \A k \in 1 .. Len(origin) : origin'[k] = origin[k]
    BY <1>1, <1>5
  <2> QED
    BY <1>5, <2>1 DEF Extends
<1>8. /\ DOMAIN conns' = (DOMAIN conns \ old) \cup {a}
      /\ conns'[a].id = i /\ conns'[a].rid = 0 /\ conns'[a].q = q1
      /\ \A x \in DOMAIN conns' : x # a => x \in DOMAIN conns /\ conns'[x] = conns[x]
  BY <1>1 DEF NewConnection
<1>9. DOMAIN q1 = {1} /\ q1[1] = p
  BY <1>3, OneFacts
<1>10. none \in Seq(Message) /\ DOMAIN none = {}
  BY NoneFacts
<1>11. /\ ms \in Seq(Message) /\ Send("near", ms)
       /\ \A k \in DOMAIN ms :
            \/ ms[k].type \in {"CONNECT", "DATA_error", "CLOSE"}
            \/ k = Len(closing) + 1 /\ ms[k] = Socket(i)
  <2>1. old \subseteq DOMAIN conns
    BY DEF Oldest
  <2>2. closing \in Seq(Message) /\ QuietToFar(closing)
    BY <2>1, ClosingFacts
  <2>3. Socket(i) \in Message
    BY <1>6, MessageFacts
  <2> DEFINE m == Socket(i)
  <2> HIDE DEF m
  <2>4. /\ Append(closing, m) \in Seq(Message)
        /\ Append(closing, m)[Len(closing) + 1] = m
        /\ \A j \in DOMAIN Append(closing, m) :
            \/ j = Len(closing) + 1
            \/ j \in DOMAIN closing /\ Append(closing, m)[j] = closing[j]
    BY <2>2, <2>3, AppendFacts DEF m
  <2>5. ms = Append(closing, m)
    BY DEF m
  <2> QED
    BY <1>2, <2>2, <2>4, <2>5 DEF QuietToFar, m
<1>12. Socket(i).type = "SOCKET" /\ Socket(i).id = i
  BY DEF Socket
<1> HIDE DEF ms, none, q1, p, old
<1>13. ChanOK' /\ Follows(F1, F, 0, ms) /\ Follows(N1, N, 0, none)
  BY <1>1, <1>11, SentToFar DEF none
<1>14. OrderOK'
  BY OrderNew DEF FlowInv
<1>15. SocksOK'
  <2>1. Len(mate) <= Len(origin') /\ Len(origin') <= MaxId
    BY <1>1, <1>6, <1>5, <1>7
  <2>2. \A s \in DOMAIN mate : mate[s] \in DOMAIN origin'
    BY <1>7 DEF FlowInv, SocksOK
  <2> QED
    BY <1>1, <2>1, <2>2 DEF FlowInv, SocksOK
<1>16. LinksOK'
  <2> SUFFICES ASSUME NEW x \in DOMAIN conns'
               PROVE  /\ conns'[x].id \in DOMAIN origin' /\ origin'[conns'[x].id] = x
                      /\ conns'[x].rid # 0 =>
                            /\ conns'[x].rid \in DOMAIN mate
                            /\ mate[conns'[x].rid] = conns'[x].id
    BY <1>1 DEF LinksOK
  <2>1. CASE x = a
    BY <1>7, <1>8, <2>1
  <2>2. CASE x # a
    <3>1. /\ conns[x].id \in DOMAIN origin /\ origin[conns[x].id] = x
          /\ conns[x].rid # 0 =>
                conns[x].rid \in DOMAIN mate /\ mate[conns[x].rid] = conns[x].id
      BY <1>8, <2>2 DEF FlowInv, LinksOK
    <3> QED
      BY <1>7, <1>8, <2>2, <3>1 DEF Extends
  <2> QED
    BY <2>1, <2>2
<1>17. MessagesFit'
  <2>1. AllFarFit(ms, origin', mate, taken'.there)
    BY <1>6, <1>7, <1>11, <1>12 DEF AllFarFit, FarFits
  <2>2. AllNearFit(none, mate, taken'.back)
    BY <1>10 DEF AllNearFit
  <2>3. /\ UNCHANGED mate /\ Extends(origin', origin) /\ 0 \in Nat
        /\ taken'.there \in Nat /\ taken.there <= taken'.there
        /\ taken'.back \in Nat /\ taken.back <= taken'.back
    BY <1>1, <1>3, <1>7
  <2> QED
    BY <1>10, <1>11, <1>13, <2>1, <2>2, <2>3, FitStep
<1>18. \A k \in DOMAIN ms : ms[k].type # "DATA"
  BY <1>11, <1>12
<1>19. Rising(F1)
  <2> SUFFICES ASSUME NEW j \in DOMAIN F1, NEW k \in DOMAIN F1, j < k,
                      F1[j].type = "SOCKET", F1[k].type = "SOCKET"
               PROVE  F1[j].id < F1[k].id
    BY DEF Rising
  <2>1. j \in Nat /\ k \in Nat
    <3>1. F1 \in Seq(Message)
      BY <1>13 DEF Follows
    <3>2. DOMAIN F1 = 1 .. Len(F1) /\ Len(F1) \in Nat
      BY <3>1
    <3> QED
      BY <3>2
  <2>2. \A l \in DOMAIN F1 :
            F1[l].type = "SOCKET" =>
                \/ l + 0 \in DOMAIN F /\ F1[l] = F[l + 0]
                \/ l + 0 = Len(F) + (Len(closing) + 1) /\ F1[l] = Socket(i)
    <3> SUFFICES ASSUME NEW l \in DOMAIN F1, F1[l].type = "SOCKET",
                        ~(l + 0 \in DOMAIN F /\ F1[l] = F[l + 0])
                 PROVE  l + 0 = Len(F) + (Len(closing) + 1) /\ F1[l] = Socket(i)
      OBVIOUS
    <3>1. PICK o \in DOMAIN ms : l + 0 = Len(F) + o /\ F1[l] = ms[o]
      BY <1>13 DEF Follows
    <3>2. o = Len(closing) + 1 /\ ms[o] = Socket(i)
      BY <1>11, <3>1
    <3> QED
      BY <3>1, <3>2
  <2>3. j + 0 = j /\ k + 0 = k
    BY <2>1
  <2>4. Len(closing) \in Nat
    <3>1. closing \in Seq(Message)
      <4>1. old \subseteq DOMAIN conns
        BY DEF Oldest, old
      <4> QED
        BY <4>1, ClosingFacts
    <3> QED
      BY <3>1
  <2>5. CASE j \in DOMAIN F /\ F1[j] = F[j] /\ k \in DOMAIN F /\ F1[k] = F[k]
    BY <2>5 DEF FlowInv, Rising
  <2>6. CASE j \in DOMAIN F /\ F1[j] = F[j] /\ F1[k] = Socket(i)
    <3>1. FarFits(F[j], origin, mate, n) /\ F[j].type = "SOCKET"
      BY <2>6 DEF FlowInv, MessagesFit, AllFarFit
    <3>2. F1[j].id \in 1 .. Len(origin)
      BY <1>5, <2>6, <3>1 DEF FarFits
    <3> DEFINE e == F1[j].id
    <3>3. e \in 1 .. Len(origin) /\ F1[k].id = i
      BY <1>12, <2>6, <3>2
    <3> HIDE DEF e
    <3>4. e < i
      BY <1>5, <3>3
    <3> QED
      BY <3>3, <3>4 DEF e
  <2>7. CASE j = Len(F) + (Len(closing) + 1)
    <3> DEFINE last == Len(closing) + 1
    <3>1. last \in Nat \ {0} /\ j = Len(F) + last
      BY <2>4, <2>7
    <3> HIDE DEF last, F, F1
    <3>2. ~(k <= Len(F)) /\ k # Len(F) + last
      BY <1>4, <2>1, <3>1
    <3>3. k \notin DOMAIN F /\ k # Len(F) + (Len(closing) + 1)
      BY <1>4, <3>2 DEF last
    <3> QED
      BY <2>2, <2>3, <3>3 DEF F, F1
  <2> QED
    BY <2>2, <2>3, <2>5, <2>6, <2>7
<1>20. Once(F1) /\ Once(N1)
  <2>1. Once(F) /\ Once(N)
    BY DEF FlowInv
  <2>2. Once(ms) /\ Disjoint(F, ms) /\ Plain(none) /\ 0 \in Nat
    BY <1>10, <1>18 DEF Once, Disjoint, Plain
  <2> HIDE DEF F, F1, N, N1
  <2>3. Once(F1)
    BY <1>4, <1>11, <1>13, <2>1, <2>2, OnceFollows
  <2>4. Once(N1)
    BY <1>4, <1>10, <1>13, <2>1, <2>2, PlainFollows
  <2> QED
    BY <2>3, <2>4
<1>21. ASSUME NEW j \in DOMAIN F1, F1[j].type = "DATA"
       PROVE  j \in Nat /\ j \in DOMAIN F /\ F1[j] = F[j]
  <2>1. j + 0 \in DOMAIN F /\ F1[j] = F[j + 0]
    BY <1>13, <1>18, <1>21 DEF Follows
  <2>2. j \in Nat
    <3>1. F1 \in Seq(Message)
      BY <1>13 DEF Follows
    <3>2. DOMAIN F1 = 1 .. Len(F1) /\ Len(F1) \in Nat
      BY <3>1
    <3> QED
      BY <3>2
  <2>3. j + 0 = j
    BY <2>2
  <2> QED
    BY <2>1, <2>2, <2>3
<1>22. HeldOK'
  <2> SUFFICES ASSUME NEW x \in DOMAIN conns'
               PROVE  Held(conns'[x].q, x, n1, F1)
    BY DEF HeldOK
  <2>1. CASE x = a
    <3>1. \A j \in DOMAIN F1 : F1[j].type = "DATA" => F1[j].packet # p
      BY <1>3, <1>21
    <3>2. p.n <= n1
      BY <1>3
    <3>3. Held(q1, a, n1, F1)
      BY <1>3, <1>9, <3>1, <3>2 DEF Held
    <3> QED
      BY <1>8, <2>1, <3>3
  <2>2. CASE x # a
    <3> DEFINE r == conns[x].q
    <3>1. r \in Seq(Packet) /\ Held(r, x, n, F) /\ conns'[x].q = r
      BY <1>8, <2>2, Facts DEF Connection, FlowInv, HeldOK
    <3>2. \A k \in DOMAIN ms, l \in DOMAIN r : ms[k].type = "DATA" => ms[k].packet # r[l]
      BY <1>18
    <3>3. 0 \in Nat
      OBVIOUS
    <3> HIDE DEF r, F, F1, n, n1
    <3>4. Held(r, x, n1, F1)
      BY <1>3, <1>4, <1>11, <1>13, <3>1, <3>2, <3>3, HeldKept
    <3> QED
      BY <3>1, <3>4
  <2> QED
    BY <2>1, <2>2
<1>23. TargetOK'
  <2>1. SocksContinue(0) /\ 0 \in Nat
    BY <1>1 DEF SocksContinue, Continues
  <2>2. /\ \A j \in DOMAIN F, k \in Nat :
              F[j].type = "DATA" /\ k + 0 >= j => Aimed(F[j].id, k, F1, socks')
        /\ \A x \in DOMAIN conns, k \in Nat :
              conns[x].rid # 0 /\ k + 0 > Len(F) => Aimed(conns[x].rid, k, F1, socks')
    BY <1>11, <1>13, <2>1, StillAimed
  <2>3. ASSUME NEW j \in DOMAIN F1, F1[j].type = "DATA"
        PROVE  Aimed(F1[j].id, j, F1, socks')
    <3>1. j \in Nat /\ j \in DOMAIN F /\ F1[j] = F[j] /\ j + 0 >= j
      BY <1>21, <2>3
    <3> QED
      BY <2>2, <2>3, <3>1
  <2>4. Len(F1) + 1 \in Nat /\ (Len(F1) + 1) + 0 > Len(F)
    <3>1. F1 \in Seq(Message) /\ Len(F1) + 0 = Len(F) + Len(ms)
      BY <1>13 DEF Follows
    <3>2. Len(F1) \in Nat /\ Len(ms) \in Nat
      BY <1>11, <3>1
    <3> HIDE DEF F, F1
    <3> QED
      BY <1>4, <3>1, <3>2
  <2>5. ASSUME NEW x \in DOMAIN conns', conns'[x].rid # 0
        PROVE  Aimed(conns'[x].rid, Len(F1) + 1, F1, socks')
    <3>1. x \in DOMAIN conns /\ conns'[x] = conns[x]
      BY <1>8, <2>5
    <3> QED
      BY <2>2, <2>4, <2>5, <3>1
  <2> QED
    BY <2>3, <2>5 DEF TargetOK
<1>24. FlowInv'
  BY <1>13, <1>14, <1>15, <1>16, <1>17, <1>19, <1>20, <1>22, <1>23 DEF FlowInv
<1>25. PacketsThere' \subseteq PacketsThere \cup {p}
  <2> SUFFICES ASSUME NEW r \in PacketsThere', r # p PROVE r \in PacketsThere
    OBVIOUS
  <2>1. \/ \E x \in DOMAIN conns' : \E k \in DOMAIN conns'[x].q : conns'[x].q[k] = r
        \/ \E j \in DOMAIN F1 : F1[j].type = "DATA" /\ F1[j].packet = r
    BY ThereFactsNext
  <2>2. \/ \E x \in DOMAIN conns : \E k \in DOMAIN conns[x].q : conns[x].q[k] = r
        \/ \E j \in DOMAIN F : F[j].type = "DATA" /\ F[j].packet = r
    BY <1>8, <1>9, <1>21, <2>1
  <2> QED
    BY <2>2, ThereFacts
<1>26. PacketsBack' = PacketsBack
  BY <1>1, <1>11, NotTouched DEF PacketsBack
<1> QED
  BY <1>24, <1>25, <1>26 DEF TakenThere, p

\* A reply to the socket s has been taken; it may be on its way.
TakenBack(s) ==
    /\ PacketsBack' \subseteq PacketsBack \cup {[from |-> s, n |-> taken.back + 1]}
    /\ PacketsThere' = PacketsThere

LEMMA ReceiveReplyKeeps ==
    ASSUME FlowInv, IInv', NEW s \in Ids, ReceiveReply(s)
    PROVE  FlowInv' /\ TakenBack(s)
<1> DEFINE N == chan.near
           N1 == chan.near'
           i == socks[s].rid
           r == [from |-> s, n |-> taken.back + 1]
           ms == <<Data(i, r)>>
           none == <<>>
           b == taken.back
           b1 == taken'.back
<1>1. /\ s \in DOMAIN socks /\ taken.back < MaxReplies
      /\ taken' = [taken EXCEPT !.back = @ + 1] /\ Send("far", ms)
      /\ UNCHANGED <<conns, order, origin, socks, mate, known>> /\ ChanOK
  BY DEF ReceiveReply, near, far, FlowInv
<1>2. s \in DOMAIN mate /\ mate[s] = i /\ i \in Ids
  BY <1>1 DEF FlowInv, SocksOK, FarSocket
<1>3. b \in Nat /\ b + 1 \in 1 .. MaxReplies /\ taken.there \in Nat /\ N \in Seq(Message)
  <2>1. b \in Nat /\ b < MaxReplies /\ MaxReplies \in Nat
    BY <1>1, Facts, ForwardAssumption
  <2> HIDE DEF b
  <2>2. b + 1 \in 1 .. MaxReplies
    BY <2>1
  <2> QED
    BY <2>1, <2>2, Facts
<1>4. taken'.there = taken.there /\ b1 = b + 1
  <2>1. taken \in [there : 0 .. MaxPackets, back : 0 .. MaxReplies]
    BY DEF FlowInv, IInv, CountersOK
  <2> QED
    BY <1>1, <2>1
<1>5. r \in Reply /\ r.n = b + 1 /\ r.from = s
  BY <1>3 DEF Reply
<1> HIDE DEF r
<1>6. /\ Data(i, r) \in Message /\ Data(i, r).type = "DATA"
      /\ Data(i, r).id = i /\ Data(i, r).packet = r
  BY <1>2, <1>5, MessageFacts
<1>7. /\ ms \in Seq(Message) /\ DOMAIN ms = {1} /\ ms[1] = Data(i, r)
      /\ none \in Seq(Message) /\ DOMAIN none = {}
  BY <1>6, OneFacts, NoneFacts
<1> HIDE DEF ms, none
<1>8. /\ ChanOK' /\ Follows(N1, N, 0, ms) /\ Follows(chan.far', chan.far, 0, none)
  BY <1>1, <1>7, SentToNear DEF none
<1>9. chan.far' = chan.far
  BY <1>1, NotTouched
<1>10. b \in Nat /\ b1 \in Nat /\ b <= b1 /\ r.n <= b1
  <2> HIDE DEF b, b1
  <2> QED
    BY <1>3, <1>4, <1>5
<1>11. MessagesFit'
  <2>1. AllNearFit(ms, mate, taken'.back)
    BY <1>2, <1>5, <1>6, <1>7, <1>10 DEF AllNearFit, NearFits
  <2>2. AllFarFit(none, origin', mate, taken'.there)
    BY <1>7 DEF AllFarFit
  <2>3. /\ UNCHANGED mate /\ Extends(origin', origin) /\ 0 \in Nat
        /\ taken'.there \in Nat /\ taken.there <= taken'.there
        /\ taken'.back \in Nat /\ taken.back <= taken'.back
    BY <1>1, <1>3, <1>4, <1>10 DEF Extends
  <2> QED
    BY <1>7, <1>8, <2>1, <2>2, <2>3, FitStep
<1>12. Once(N1)
  <2>1. ASSUME NEW j \in DOMAIN N, N[j].type = "DATA"
        PROVE  N[j].packet # r
    <3>1. NearFits(N[j], mate, b)
      BY DEF FlowInv, MessagesFit, AllNearFit
    <3> DEFINE x == N[j].packet
    <3>2. x \in Reply /\ x.n <= b
      BY <2>1, <3>1 DEF NearFits
    <3>3. x.n \in Int
      BY <3>2, ForwardAssumption DEF Reply
    <3> HIDE DEF x, b
    <3>4. x.n # b + 1
      BY <1>3, <3>2, <3>3
    <3> QED
      BY <1>5, <3>4 DEF x, b
  <2>2. Once(ms) /\ Disjoint(N, ms) /\ Once(N) /\ 0 \in Nat
    BY <1>6, <1>7, <2>1 DEF Once, Disjoint, FlowInv
  <2> HIDE DEF N, N1
  <2> QED
    BY <1>3, <1>7, <1>8, <2>2, OnceFollows
<1>13. OrderOK' /\ SocksOK' /\ LinksOK'
  <2>1. OrderOK'
    BY <1>1, OrderSame DEF FlowInv
  <2> QED
    BY <1>1, <2>1 DEF FlowInv, SocksOK, LinksOK
<1>14. TargetOK' /\ HeldOK' /\ Rising(chan.far') /\ Once(chan.far')
  BY <1>1, <1>4, <1>9 DEF FlowInv, TargetOK, HeldOK
<1>15. FlowInv'
  BY <1>8, <1>11, <1>12, <1>13, <1>14 DEF FlowInv
<1>16. PacketsThere' = PacketsThere
  BY <1>1, <1>9 DEF PacketsThere
<1>17. PacketsBack' \subseteq PacketsBack \cup {r}
  <2> SUFFICES ASSUME NEW x \in PacketsBack', x # r PROVE x \in PacketsBack
    OBVIOUS
  <2>1. PICK j \in DOMAIN N1 : N1[j].type = "DATA" /\ N1[j].packet = x
    BY ThereFactsNext
  <2>2. \E k \in DOMAIN N : N1[j] = N[k]
    BY <1>6, <1>7, <1>8, <2>1 DEF Follows
  <2> QED
    BY <2>1, <2>2, ThereFacts
<1> QED
  BY <1>15, <1>16, <1>17 DEF TakenBack, r

-----------------------------------------------------------------------------
(* Steps of the pipe *)

PipeStep == [Pipe!Next]_(Pipe!vars)

\* The addresses for which the sockets speak.
Speaks == [s \in DOMAIN mate |-> origin[mate[s]]]

LEMMA SpeaksFacts ==
    ASSUME FlowInv
    PROVE  /\ Speaks \in Seq(Addresses) /\ Len(Speaks) = Len(mate)
           /\ UNCHANGED mate /\ Extends(origin', origin) => Speaks' = Speaks
<1>1. mate \in Seq(Ids) /\ origin \in Seq(Addresses)
  BY DEF FlowInv, SocksOK, IInv, CountersOK
<1>2. DOMAIN mate = 1 .. Len(mate) /\ Len(mate) \in Nat
  BY <1>1
<1>3. \A s \in DOMAIN mate : mate[s] \in DOMAIN origin
  BY DEF FlowInv, SocksOK
<1>4. \A i \in DOMAIN origin : origin[i] \in Addresses
  BY <1>1
<1>5. Speaks = [s \in 1 .. Len(mate) |-> origin[mate[s]]]
  BY <1>2 DEF Speaks
<1>6. Speaks \in Seq(Addresses) /\ Len(Speaks) = Len(mate)
  <2> DEFINE e(s) == origin[mate[s]]
  <2>1. \A s \in 1 .. Len(mate) : e(s) \in Addresses
    BY <1>2, <1>3, <1>4
  <2>2. Speaks = [s \in 1 .. Len(mate) |-> e(s)]
    BY <1>5
  <2> HIDE DEF e
  <2> QED
    BY <1>2, <2>1, <2>2
<1>7. UNCHANGED mate /\ Extends(origin', origin) => Speaks' = Speaks
  BY <1>3 DEF Speaks, Extends
<1> QED
  BY <1>6, <1>7

LEMMA PipeLose ==
    ASSUME FlowInv, NothingTaken, UNCHANGED <<mate, origin, taken, given>>
    PROVE  PipeStep
<1>1. Speaks' = Speaks
  BY DEF Speaks
<1>2. Pipe!Lose
  BY <1>1 DEF Pipe!Lose, Pipe!Lost, NothingTaken, Speaks
<1> QED
  BY <1>2 DEF PipeStep, Pipe!Next

LEMMA PipeOpen ==
    ASSUME FlowInv, UNCHANGED <<origin, taken, given>>,
           PacketsThere' = PacketsThere, PacketsBack' = PacketsBack,
           NEW i \in DOMAIN origin, Len(mate) < MaxId, mate' = Append(mate, i)
    PROVE  PipeStep
<1>1. origin[i] \in Addresses /\ mate \in Seq(Ids) /\ Len(mate) \in Nat /\ i \in Ids
  <2>1. origin \in Seq(Addresses) /\ mate \in Seq(Ids) /\ Len(origin) <= MaxId
    BY DEF FlowInv, SocksOK, IInv, CountersOK
  <2>2. i \in 1 .. Len(origin) /\ Len(origin) \in Nat
    BY <2>1
  <2>3. i \in Ids
    BY <2>1, <2>2, ForwardAssumption DEF Ids
  <2> QED
    BY <2>1, <2>3
<1>2. Speaks' = Append(Speaks, origin[i])
  <2>1. /\ DOMAIN mate = 1 .. Len(mate) /\ DOMAIN mate' = 1 .. Len(mate) + 1
        /\ mate'[Len(mate) + 1] = i /\ \A s \in 1 .. Len(mate) : mate'[s] = mate[s]
    BY <1>1
  <2> DEFINE a == origin[i]
             l == Len(mate)
  <2>2. /\ Speaks \in Seq(Addresses) /\ Len(Speaks) = l /\ l \in Nat
        /\ \A s \in 1 .. l : Speaks[s] = origin[mate[s]]
    BY <1>1, <2>1, SpeaksFacts DEF Speaks
  <2>3. /\ Speaks' \in Seq(Addresses) /\ Len(Speaks') = l + 1
        /\ Speaks'[l + 1] = a /\ \A s \in 1 .. l : Speaks'[s] = origin[mate[s]]
    <3> DEFINE e(s) == origin[mate'[s]]
    <3>1. \A s \in 1 .. l + 1 : s = l + 1 \/ s \in 1 .. l
      BY <1>1
    <3>2. \A s \in 1 .. l : mate[s] \in DOMAIN origin
      BY <2>1 DEF FlowInv, SocksOK
    <3>3. \A k \in DOMAIN origin : origin[k] \in Addresses
      <4>1. origin \in Seq(Addresses)
        BY DEF FlowInv, IInv, CountersOK
      <4> QED
        BY <4>1
    <3>4. \A s \in 1 .. l + 1 : e(s) \in Addresses
      BY <2>1, <3>1, <3>2, <3>3
    <3>5. Speaks' = [s \in 1 .. l + 1 |-> e(s)]
      BY <2>1 DEF Speaks
    <3>6. e(l + 1) = a /\ \A s \in 1 .. l : e(s) = origin[mate[s]]
      BY <2>1
    <3> HIDE DEF e, l
    <3> QED
      BY <2>2, <3>1, <3>4, <3>5, <3>6
  <2> DEFINE sp == Speaks
             sp1 == Speaks'
  <2>4. sp1 = Append(sp, a)
    <3>1. /\ sp \in Seq(Addresses) /\ a \in Addresses
          /\ sp1 \in Seq(Addresses) /\ Len(sp1) = Len(sp) + 1 /\ sp1[Len(sp) + 1] = a
          /\ \A s \in 1 .. Len(sp) : sp1[s] = sp[s]
      BY <1>1, <2>2, <2>3
    <3> HIDE DEF sp, sp1, a
    <3> QED
      BY <3>1, AppendIs
  <2> QED
    BY <2>4
<1>3. Len(Speaks) < MaxId
  BY SpeaksFacts
<1>4. PICK a \in Addresses : a = origin[i]
  BY <1>1
<1>5. Pipe!Open(a)
  BY <1>2, <1>3, <1>4 DEF Pipe!Open, Speaks
<1>6. Pipe!Next
  BY <1>5 DEF Pipe!Next
<1> QED
  BY <1>6 DEF PipeStep

LEMMA PipeTake ==
    ASSUME FlowInv, NEW a \in Addresses, TakenThere(a), Arrives(a), UNCHANGED <<mate, given>>,
           Extends(origin', origin)
    PROVE  PipeStep
<1>1. Speaks' = Speaks
  BY SpeaksFacts
<1>2. taken'.there = taken.there + 1
  BY ArrivedFacts
<1>3. Pipe!Take(a)
  BY <1>1, <1>2 DEF Pipe!Take, Pipe!Lost, TakenThere, Arrives, Arrived, Speaks
<1>4. Pipe!Next
  BY <1>3 DEF Pipe!Next
<1> QED
  BY <1>4 DEF PipeStep

LEMMA PipeTakeBack ==
    ASSUME FlowInv, NEW s \in Ids, ReceiveReply(s), TakenBack(s)
    PROVE  PipeStep
<1>1. /\ s \in DOMAIN socks /\ taken' = [taken EXCEPT !.back = @ + 1]
      /\ UNCHANGED <<origin, mate, given>>
  BY DEF ReceiveReply, near, far
<1>2. s \in DOMAIN mate /\ Speaks' = Speaks
  BY <1>1 DEF FlowInv, SocksOK, Speaks
<1>3. taken'.back = taken.back + 1
  <2>1. taken \in [there : 0 .. MaxPackets, back : 0 .. MaxReplies]
    BY DEF FlowInv, IInv, CountersOK
  <2> QED
    BY <1>1, <2>1
<1>4. Pipe!TakeBack(s)
  BY <1>1, <1>2, <1>3 DEF Pipe!TakeBack, Pipe!Lost, TakenBack, Speaks
<1>5. Pipe!Next
  BY <1>4 DEF Pipe!Next, Ids
<1> QED
  BY <1>5 DEF PipeStep

LEMMA HandleDataPipe ==
    ASSUME FlowInv, HandleData, NothingTaken
    PROVE  PipeStep
<1> DEFINE F == chan.far
           F1 == chan.far'
<1>1. UNCHANGED <<conns, origin, mate, socks, taken>> /\ ChanOK
  BY DEF HandleData, near, far, FlowInv
<1>2. CASE UNCHANGED given
  BY <1>1, <1>2, PipeLose
<1>3. ASSUME NEW s \in Ids, NEW p \in Packet, Receive("far", Data(s, p)),
             given' = [given EXCEPT !.there = Append(@, <<s, p.n>>)], Handled("far", <<>>)
      PROVE  PipeStep
  <2> DEFINE none == <<>>
  <2>1. F # <<>> /\ 1 \in DOMAIN F /\ F[1] = Data(s, p)
    BY <1>1, <1>3, FirstMessage DEF Peers
  <2>2. F[1].type = "DATA" /\ F[1].id = s /\ F[1].packet = p
    BY <2>1 DEF Data
  <2>3. s \in DOMAIN mate /\ origin[mate[s]] = p.from
    <3>1. FarFits(F[1], origin, mate, taken.there)
      BY <2>1 DEF FlowInv, MessagesFit, AllFarFit
    <3> QED
      BY <2>2, <3>1 DEF FarFits
  <2>4. p \in PacketsThere
    BY <2>1, <2>2, ThereFacts
  <2>5. none \in Seq(Message) /\ DOMAIN none = {}
    BY NoneFacts
  <2> HIDE DEF none
  <2>6. Follows(F1, F, 1, none)
    BY <1>1, <1>3, <2>1, <2>5, HandledAtFar DEF none
  <2>7. p \notin PacketsThere'
    <3>1. \A x \in DOMAIN conns : \A k \in DOMAIN conns[x].q : conns[x].q[k] # p
      BY <2>1, <2>2 DEF FlowInv, HeldOK, Held
    <3>2. ASSUME NEW j \in DOMAIN F1, F1[j].type = "DATA", F1[j].packet = p
          PROVE  FALSE
      <4>1. j + 1 \in DOMAIN F /\ F1[j] = F[j + 1]
        BY <2>5, <2>6 DEF Follows
      <4>2. j + 1 = 1
        BY <2>1, <2>2, <3>2, <4>1 DEF FlowInv, Once
      <4>3. j \in Nat \ {0}
        <5>1. F1 \in Seq(Message)
          BY <2>6 DEF Follows
        <5> QED
          BY <5>1
      <4> QED
        BY <4>2, <4>3
    <3> QED
      BY <1>1, <3>1, <3>2, ThereFactsNext
  <2>8. PacketsBack' = PacketsBack
    BY <1>1, <1>3, NotTouched DEF PacketsBack
  <2>9. Pipe!Give(p, s)
    BY <1>1, <1>3, <2>3, <2>4, <2>7, <2>8 DEF Pipe!Give, Pipe!Lost, NothingTaken
  <2>10. Pipe!Next
    BY <2>4, <2>9 DEF Pipe!Next, Ids
  <2> QED
    BY <2>10 DEF PipeStep
<1> QED
  BY <1>2, <1>3 DEF HandleData

LEMMA HandleReplyPipe ==
    ASSUME FlowInv, HandleReply, NothingTaken
    PROVE  PipeStep
<1> DEFINE N == chan.near
           N1 == chan.near'
<1>1. UNCHANGED <<conns, idMap, origin, mate, taken>> /\ ChanOK
  BY DEF HandleReply, far, FlowInv
<1>2. CASE UNCHANGED given
  BY <1>1, <1>2, PipeLose
<1>3. ASSUME NEW i \in Ids, NEW p \in Reply, Receive("near", Data(i, p)), i \in DOMAIN idMap,
             given' = [given EXCEPT !.back = Append(@, <<idMap[i], p.n>>)],
             Handled("near", <<>>)
      PROVE  PipeStep
  <2> DEFINE none == <<>>
  <2>1. N # <<>> /\ 1 \in DOMAIN N /\ N[1] = Data(i, p)
    BY <1>1, <1>3, FirstMessage DEF Peers
  <2>2. N[1].type = "DATA" /\ N[1].id = i /\ N[1].packet = p
    BY <2>1 DEF Data
  <2>3. PICK a \in Addresses : a = idMap[i] /\ origin[i] = a
    <3>1. idMap[i] \in DOMAIN conns /\ conns[idMap[i]].id = i
      BY <1>3 DEF FlowInv, IInv, MapsAgree
    <3>2. origin[i] = idMap[i]
      BY <3>1 DEF FlowInv, LinksOK
    <3>3. idMap[i] \in Addresses
      BY <3>1, Facts
    <3> QED
      BY <3>2, <3>3
  <2>4. p.from \in DOMAIN mate /\ origin[mate[p.from]] = a
    <3>1. NearFits(N[1], mate, taken.back)
      BY <2>1 DEF FlowInv, MessagesFit, AllNearFit
    <3> QED
      BY <2>2, <2>3, <3>1 DEF NearFits
  <2>5. p \in PacketsBack
    BY <2>1, <2>2, ThereFacts
  <2>6. none \in Seq(Message) /\ DOMAIN none = {}
    BY NoneFacts
  <2> HIDE DEF none
  <2>7. Follows(N1, N, 1, none)
    BY <1>1, <1>3, <2>1, <2>6, HandledAtNear DEF none
  <2>8. p \notin PacketsBack'
    <3>1. ASSUME NEW j \in DOMAIN N1, N1[j].type = "DATA", N1[j].packet = p
          PROVE  FALSE
      <4>1. j + 1 \in DOMAIN N /\ N1[j] = N[j + 1]
        BY <2>6, <2>7 DEF Follows
      <4>2. j + 1 = 1
        BY <2>1, <2>2, <3>1, <4>1 DEF FlowInv, Once
      <4>3. j \in Nat \ {0}
        <5>1. N1 \in Seq(Message)
          BY <2>7 DEF Follows
        <5> QED
          BY <5>1
      <4> QED
        BY <4>2, <4>3
    <3> QED
      BY <3>1, ThereFactsNext
  <2>9. PacketsThere' = PacketsThere
    BY <1>1, <1>3, NotTouched DEF PacketsThere
  <2>10. Pipe!GiveBack(p, a)
    BY <1>1, <1>3, <2>3, <2>4, <2>5, <2>8, <2>9 DEF Pipe!GiveBack, Pipe!Lost, NothingTaken
  <2>11. Pipe!Next
    BY <2>5, <2>10 DEF Pipe!Next
  <2> QED
    BY <2>11 DEF PipeStep
<1> QED
  BY <1>2, <1>3 DEF HandleReply

LEMMA HandleSocketPipe ==
    ASSUME FlowInv, IInv', HandleSocket
    PROVE  FlowInv' /\ PipeStep
<1>1. PICK i \in Ids :
        /\ Receive("far", Socket(i))
        /\ \/ /\ socks' = Added(Len(mate) + 1, i)
              /\ mate' = Append(mate, i)
              /\ Handled("far", <<SocketDone(i, Len(mate) + 1)>>)
           \/ Handled("far", <<SocketDone(i, 0)>>) /\ UNCHANGED far
        /\ UNCHANGED <<near, history>>
  BY DEF HandleSocket
<1>2. UNCHANGED <<conns, origin, taken, given>> /\ ChanOK
  BY <1>1 DEF near, history, FlowInv
<1>3. CASE Handled("far", <<SocketDone(i, 0)>>) /\ UNCHANGED far
  <2>1. FlowInv' /\ NothingTaken /\ UNCHANGED mate
    BY <1>1, <1>3, SocketRefusedKeeps DEF far
  <2> QED
    BY <1>2, <2>1, PipeLose
<1>4. CASE /\ socks' = Added(Len(mate) + 1, i)
           /\ mate' = Append(mate, i)
           /\ Handled("far", <<SocketDone(i, Len(mate) + 1)>>)
  <2> DEFINE F == chan.far
             F1 == chan.far'
             N == chan.near
             N1 == chan.near'
             s == Len(mate) + 1
             ms == <<SocketDone(i, s)>>
             none == <<>>
  <2>1. FlowInv' /\ NothingTaken /\ i \in DOMAIN origin /\ Len(mate) < MaxId
    BY <1>1, <1>4, SocketMadeKeeps
  <2>2. F # <<>> /\ 1 \in DOMAIN F /\ F[1] = Socket(i) /\ F[1].type = "SOCKET"
    BY <1>1, <1>2, FirstMessage DEF Peers, Socket
  <2>3. s \in 0 .. MaxId
    <3>1. mate \in Seq(Ids)
      BY DEF FlowInv, SocksOK
    <3> QED
      BY <2>1, <3>1, ForwardAssumption
  <2>4. ms \in Seq(Message) /\ Handled("far", ms)
    <3>1. SocketDone(i, s) \in Message
      BY <2>3, MessageFacts
    <3> QED
      BY <1>4, <3>1
  <2>5. none \in Seq(Message) /\ DOMAIN none = {}
    BY NoneFacts
  <2> HIDE DEF s, ms, none
  <2>6. Follows(F1, F, 1, none) /\ Follows(N1, N, 0, ms)
    BY <1>2, <2>2, <2>4, HandledAtFar DEF none
  <2>7. PacketsThere \subseteq PacketsThere'
    <3> SUFFICES ASSUME NEW p \in PacketsThere PROVE p \in PacketsThere'
      OBVIOUS
    <3>1. CASE \E x \in DOMAIN conns : \E k \in DOMAIN conns[x].q : conns[x].q[k] = p
      BY <1>2, <3>1, ThereFactsNext
    <3>2. ASSUME NEW k \in DOMAIN F, F[k].type = "DATA", F[k].packet = p
          PROVE  p \in PacketsThere'
      <4>1. k > 1
        <5>1. k # 1
          BY <2>2, <3>2
        <5>2. k \in Nat \ {0}
          <6>1. F \in Seq(Message)
            BY Facts
          <6> QED
            BY <6>1
        <5> QED
          BY <5>1, <5>2
      <4>2. \E j \in DOMAIN F1 : F1[j] = F[k]
        BY <2>6, <4>1 DEF Follows
      <4> QED
        BY <3>2, <4>2, ThereFactsNext
    <3> QED
      BY <3>1, <3>2, ThereFacts
  <2>8. PacketsBack \subseteq PacketsBack'
    <3> SUFFICES ASSUME NEW p \in PacketsBack PROVE p \in PacketsBack'
      OBVIOUS
    <3>1. PICK k \in DOMAIN N : N[k].type = "DATA" /\ N[k].packet = p
      BY ThereFacts
    <3>2. k > 0
      <4>1. N \in Seq(Message)
        BY Facts
      <4> QED
        BY <4>1
    <3>3. \E j \in DOMAIN N1 : N1[j] = N[k]
      BY <2>6, <3>2 DEF Follows
    <3> QED
      BY <3>1, <3>3, ThereFactsNext
  <2>9. PacketsThere' = PacketsThere /\ PacketsBack' = PacketsBack
    BY <2>1, <2>7, <2>8 DEF NothingTaken
  <2> QED
    BY <1>2, <1>4, <2>1, <2>9, PipeOpen
<1> QED
  BY <1>1, <1>3, <1>4

-----------------------------------------------------------------------------
(* The theorems *)

LEMMA InitFlowInv == Init => FlowInv /\ Pipe!Init
<1> SUFFICES ASSUME Init PROVE FlowInv /\ Pipe!Init
  OBVIOUS
<1> DEFINE none == <<>>
<1>1. /\ DOMAIN conns = {} /\ DOMAIN socks = {} /\ conns = none /\ socks = none
      /\ order = none /\ origin = none /\ mate = none /\ known = {}
      /\ chan = [p \in Peers |-> none]
      /\ taken = [there |-> 0, back |-> 0] /\ given = [there |-> none, back |-> none]
  BY DEF Init, Silence
<1>2. /\ none \in Seq(Message) /\ none \in Seq(Addresses) /\ none \in Seq(Ids)
      /\ DOMAIN none = {} /\ Len(none) = 0 /\ none = [x \in {} |-> none[x]]
  BY NoneFacts
<1> HIDE DEF none
<1>3. chan.far = none /\ chan.near = none
  BY <1>1 DEF Peers
<1>4. IInv
  BY InitIInv
<1>5. ChanOK
  BY <1>1, <1>2 DEF ChanOK
<1>6. OrderOK
  <2>1. IsFiniteSet({}) /\ Cardinality({}) = 0
    BY FS_EmptySet
  <2>2. IsFiniteSet(DOMAIN conns) /\ Cardinality(DOMAIN conns) <= ConnLimit
    BY <1>1, <2>1, ForwardAssumption
  <2> QED
    BY <1>1, <1>2, <2>2 DEF OrderOK
<1>7. SocksOK
  BY <1>1, <1>2, ForwardAssumption DEF SocksOK
<1>8. LinksOK /\ MessagesFit /\ TargetOK /\ HeldOK
  BY <1>1, <1>2, <1>3 DEF LinksOK, MessagesFit, AllFarFit, AllNearFit, TargetOK, HeldOK
<1>9. Rising(chan.far) /\ Once(chan.far) /\ Once(chan.near)
  BY <1>2, <1>3 DEF Rising, Once
<1>10. FlowInv
  BY <1>4, <1>5, <1>6, <1>7, <1>8, <1>9 DEF FlowInv
<1>11. PacketsThere = {} /\ PacketsBack = {}
  BY <1>1, <1>2, <1>3, ThereFacts
<1>12. Speaks = none
  BY <1>1, <1>2 DEF Speaks
<1>13. Pipe!Init
  BY <1>1, <1>11, <1>12 DEF Pipe!Init, Speaks, none
<1> QED
  BY <1>10, <1>13

\* Most steps keep the invariant and take or give no packet.
LEMMA QuietNext ==
    ASSUME FlowInv, IInv',
           \/ SocketCreated \/ SocketConnected \/ DataFailed \/ HandleNearClose
           \/ HandleConnect \/ HandleFarClose \/ ReplyFailed
           \/ TimerFires \/ RemoveForwarder
           \/ \E a \in Addresses : RemoveConnection(a)
           \/ \E s \in Ids : RemoveSocket(s)
    PROVE  FlowInv' /\ PipeStep
<1>1. FlowInv' /\ NothingTaken
  BY SocketCreatedKeeps, SocketConnectedKeeps, DataFailedKeeps, HandleNearCloseKeeps,
     HandleConnectKeeps, HandleFarCloseKeeps, TimerFiresKeeps, RemoveForwarderKeeps,
     RemoveConnectionKeeps, RemoveSocketKeeps
<1>2. UNCHANGED <<mate, taken, given>>
  BY DEF SocketCreated, SocketConnected, DataFailed, HandleNearClose, HandleConnect,
         HandleFarClose, ReplyFailed, TimerFires, RemoveForwarder, RemoveConnection,
         RemoveSocket, far, history
<1>3. UNCHANGED origin
  BY DEF SocketCreated, SocketConnected, DataFailed, HandleNearClose, HandleConnect,
         HandleFarClose, ReplyFailed, TimerFires, RemoveForwarder, RemoveConnection,
         RemoveSocket, near
<1> QED
  BY <1>1, <1>2, <1>3, PipeLose

LEMMA NextFlowInv ==
    ASSUME FlowInv, [Next]_vars
    PROVE  FlowInv' /\ PipeStep
<1>1. IInv'
  BY NextIInv DEF FlowInv
<1>2. CASE UNCHANGED vars
  <2>1. UNCHANGED <<conns, order, origin, socks, mate, known, taken, given, chan>>
    BY <1>2 DEF vars, near, far, history
  <2>2. FlowInv'
    BY <1>1, <2>1 DEF FlowInv, ChanOK, OrderOK, SocksOK, LinksOK, MessagesFit, TargetOK, HeldOK
  <2>3. NothingTaken
    BY <2>1 DEF NothingTaken, PacketsThere, PacketsBack
  <2> QED
    BY <2>1, <2>2, <2>3, PipeLose
<1>3. CASE HandleData
  BY <1>1, <1>3, HandleDataKeeps, HandleDataPipe
<1>4. CASE HandleReply
  BY <1>1, <1>4, HandleReplyKeeps, HandleReplyPipe
<1>5. CASE HandleSocket
  BY <1>1, <1>5, HandleSocketPipe
<1>6. ASSUME NEW a \in Addresses, ReceiveKnown(a)
      PROVE  FlowInv' /\ PipeStep
  <2>1. FlowInv' /\ TakenThere(a)
    BY <1>1, <1>6, ReceiveKnownKeeps
  <2>2. Arrives(a) /\ UNCHANGED <<mate, given>> /\ Extends(origin', origin)
    BY <1>6 DEF ReceiveKnown, far, Extends
  <2> QED
    BY <2>1, <2>2, PipeTake
<1>7. ASSUME NEW a \in Addresses, ReceiveNew(a)
      PROVE  FlowInv' /\ PipeStep
  <2>1. FlowInv' /\ TakenThere(a)
    BY <1>1, <1>7, ReceiveNewKeeps
  <2>2. Arrives(a) /\ UNCHANGED <<mate, given>> /\ origin' = Append(origin, a)
    BY <1>7 DEF ReceiveNew, far
  <2>3. Extends(origin', origin)
    <3>1. origin \in Seq(Addresses)
      BY DEF FlowInv, IInv, CountersOK
    <3> QED
      BY <2>2, <3>1 DEF Extends
  <2> QED
    BY <2>1, <2>2, <2>3, PipeTake
<1>8. ASSUME NEW s \in Ids, ReceiveReply(s)
      PROVE  FlowInv' /\ PipeStep
  BY <1>1, <1>8, ReceiveReplyKeeps, PipeTakeBack
<1> QED
  BY <1>1, <1>2, <1>3, <1>4, <1>5, <1>6, <1>7, <1>8, QuietNext DEF Next, Deliver

\* Every reachable state of the forwarder, its connections, its far sockets and
\* the messages between them satisfies the inductive invariant.
THEOREM FlowInvariant == Spec => []FlowInv
<1>1. FlowInv /\ [Next]_vars => FlowInv'
  BY NextFlowInv
<1>2. Init => FlowInv
  BY InitFlowInv
<1> QED
  BY <1>1, <1>2, PTL DEF Spec

LEMMA FlagsType == Spec => [](up \in BOOLEAN /\ timer \in BOOLEAN)
<1> DEFINE Flags == up \in BOOLEAN /\ timer \in BOOLEAN
<1>1. Init => Flags
  BY DEF Init
<1>2. Flags /\ [Next]_vars => Flags'
  <2> SUFFICES ASSUME Flags, [Next]_vars PROVE Flags'
    OBVIOUS
  <2>1. up' \in {up, FALSE}
    BY DEF Next, Deliver, SocketCreated, SocketConnected, DataFailed, HandleReply,
           HandleNearClose, HandleSocket, HandleConnect, HandleData, HandleFarClose,
           ReplyFailed, TimerFires, RemoveForwarder, ReceiveKnown, ReceiveNew,
           RemoveConnection, RemoveSocket, ReceiveReply, vars, near
  <2>2. timer' \in {timer, FALSE, Schedule(conns), DOMAIN conns' # {}}
    BY DEF Next, Deliver, SocketCreated, SocketConnected, DataFailed, HandleReply,
           HandleNearClose, HandleSocket, HandleConnect, HandleData, HandleFarClose,
           ReplyFailed, TimerFires, RemoveForwarder, ReceiveKnown, ReceiveNew,
           RemoveConnection, RemoveSocket, ReceiveReply, vars, near
  <2>3. Schedule(conns) \in BOOLEAN /\ (DOMAIN conns' # {}) \in BOOLEAN
    BY DEF Schedule
  <2> QED
    BY <2>1, <2>2, <2>3
<1> QED
  BY <1>1, <1>2, PTL DEF Spec

\* The variables keep their types: in particular, no more connections are kept
\* than conn_limit allows, and each of them is in the order of expiry once.
THEOREM VariablesTyped == Spec => []TypeOK
<1>1. FlowInv /\ up \in BOOLEAN /\ timer \in BOOLEAN => TypeOK
  <2> SUFFICES ASSUME FlowInv, up \in BOOLEAN, timer \in BOOLEAN
               PROVE  TypeOK
    OBVIOUS
  <2>1. DOMAIN conns \subseteq Addresses /\ conns \in [DOMAIN conns -> Connection]
    BY DEF FlowInv, IInv, ConnsOK
  <2>2. /\ Cardinality(DOMAIN conns) <= ConnLimit
        /\ order \in Seq(Addresses) /\ IsInjective(order)
    BY DEF FlowInv, OrderOK, IsInjective
  <2>3. ToSet(order) = DOMAIN conns
    <3>1. \A a : a \in ToSet(order) <=> \E i \in DOMAIN order : order[i] = a
      BY DEF ToSet
    <3>2. \A a : a \in DOMAIN conns <=> \E i \in DOMAIN order : order[i] = a
      BY DEF FlowInv, OrderOK
    <3> QED
      BY <3>1, <3>2
  <2>4. DOMAIN socks \subseteq Ids /\ socks \in [DOMAIN socks -> FarSocket]
    <3>1. DOMAIN socks \subseteq DOMAIN mate /\ mate \in Seq(Ids)
      BY DEF FlowInv, SocksOK
    <3>2. DOMAIN mate = 1 .. Len(mate) /\ Len(mate) \in Nat
      BY <3>1
    <3>3. Len(mate) <= MaxId
      <4>1. origin \in Seq(Addresses) /\ Len(mate) <= Len(origin) /\ Len(origin) <= MaxId
        BY Facts DEF FlowInv, SocksOK
      <4>2. Len(origin) \in Nat
        BY <4>1
      <4> QED
        BY <3>2, <4>1, <4>2, ForwardAssumption
    <3>4. DOMAIN mate \subseteq Ids
      BY <3>2, <3>3, ForwardAssumption DEF Ids
    <3> QED
      BY <3>1, <3>4 DEF FlowInv, SocksOK
  <2>5. /\ origin \in Seq(Addresses) /\ mate \in Seq(Ids) /\ known \subseteq Ids
        /\ taken \in [there : 0 .. MaxPackets, back : 0 .. MaxReplies]
    BY DEF FlowInv, SocksOK, IInv, CountersOK
  <2> QED
    BY <2>1, <2>2, <2>3, <2>4, <2>5 DEF TypeOK
<1> QED
  BY <1>1, FlowInvariant, FlagsType, PTL

\* DATA never comes to a far socket that has no target yet, although a connection
\* sends packets before CONNECT is answered: CONNECT is always ahead of them.
THEOREM DataHasTarget == Spec => []DataFindsTarget
<1>1. FlowInv => DataFindsTarget
  <2> SUFFICES ASSUME FlowInv, NEW s \in DOMAIN socks, NEW p \in Packet,
                      Receive("far", Data(s, p))
               PROVE  socks[s].to
    BY DEF DataFindsTarget
  <2>1. ChanOK /\ chan.far \in Seq(Message)
    BY Facts DEF FlowInv
  <2>2. 1 \in DOMAIN chan.far /\ chan.far[1].type = "DATA" /\ chan.far[1].id = s
    BY <2>1, FirstMessage DEF Peers, Data
  <2>3. Aimed(s, 1, chan.far, socks)
    BY <2>2 DEF FlowInv, TargetOK
  <2>4. \A i \in DOMAIN chan.far : ~(i < 1)
    BY <2>1
  <2> QED
    BY <2>3, <2>4 DEF Aimed
<1> QED
  BY <1>1, FlowInvariant, PTL

\* What becomes of the packets is what DatagramPipe promises: each is given at
\* most once, by a socket that speaks for the address that it came from, or to
\* the address for which the socket that it came to speaks.
THEOREM ImplementsDatagramPipe == Spec => PipeSpec
<1>1. Init => Pipe!Init
  BY InitFlowInv
<1>2. FlowInv /\ [Next]_vars => [Pipe!Next]_(Pipe!vars)
  BY NextFlowInv DEF PipeStep
<1> QED
  BY <1>1, <1>2, FlowInvariant, PTL DEF Spec, PipeSpec, Pipe!Spec

=============================================================================
