------------------------- MODULE DatagramAcceptProofs -------------------------
(***************************************************************************)
(* Theorems about DatagramAccept, for any number of addresses, packets and *)
(* connections and any timeout and limits: the listening socket is used as *)
(* DatagramListen allows (and so the theorems about it hold here), and two *)
(* ACCEPTs are kept pending.                                               *)
(*                                                                         *)
(* The invariant says where an ACCEPT is while both ends listen: not yet   *)
(* counted by the listening socket and on its way to it, in its queue, or  *)
(* answered and on the way back, and in one of the forwarder's two slots   *)
(* all the time.                                                           *)
(***************************************************************************)
EXTENDS DatagramAccept, SequenceTheorems, FiniteSetTheorems, TLAPS

P == INSTANCE DatagramListenProofs

\* The messages of a channel.
Sent(q) == {q[i] : i \in DOMAIN q}
Far == chan["far"]
Near == chan["near"]

\* Does the forwarder wait for this call?
Held(r) == \E s \in Slots : slots[s] = r

-----------------------------------------------------------------------------
(* The invariant *)

Messages ==
    {Socket, CloseListener} \cup {SocketDone(ok) : ok \in BOOLEAN}
    \cup (UNION {{AcceptCall(r), AcceptError(r), CancelCall(r)} : r \in Nat})
    \cup {AcceptOk(r, i) : r \in Nat, i \in L!ConnIds}
    \cup (UNION {{Accepted(i), Close(i)} : i \in L!ConnIds})

Typed ==
    /\ slots \in [Slots -> Nat]
    /\ nextCall \in Nat
    /\ chan \in [Peers -> Seq(Messages)]

\* In a channel, R relates the earlier messages to the later ones.
Ordered(q, R) == \A i, j \in DOMAIN q : i < j => <<q[i], q[j]>> \in R

Pairs == Messages \X Messages
SocketFirst == {p \in Pairs : p[2].type # "SOCKET"}
AnsweredOnce == {p \in Pairs : p[2].type = "SOCKET_done" => p[1].type # "SOCKET_done"}
CallsRise == {p \in Pairs : p[1].type = "ACCEPT" /\ p[2].type = "ACCEPT"
                                => p[1].call < p[2].call}
AnswersDiffer == {p \in Pairs : p[1].type = "ACCEPT_ok" /\ p[2].type = "ACCEPT_ok"
                                    => p[1].call # p[2].call}

\* The SOCKET call is made once, and answered once.
OneSocketCall ==
    /\ \A m \in Sent(Far) : m.type = "SOCKET" => ~rid
    /\ \A m \in Sent(Near) : m.type = "SOCKET_done" =>
        ~rid /\ \A n \in Sent(Far) : n.type # "SOCKET"
    /\ Ordered(Far, SocketFirst)
    /\ Ordered(Near, AnsweredOnce)

\* Before that there are no ACCEPTs.
NoneBefore ==
    ~rid =>
        /\ forwarder # "listening" /\ requests = 0
        /\ \A s \in Slots : slots[s] = 0
        /\ \A m \in Sent(Far) : m.type \notin {"ACCEPT", "cancel"}
        /\ \A m \in Sent(Near) : m.type # "ACCEPT_ok"

\* The calls that the listening socket has not counted are on their way to it,
\* in the order of their numbers, and nothing cancels them.
CallsUnderway ==
    /\ \A q \in Nat : requests < q /\ q < nextCall => AcceptCall(q) \in Sent(Far)
    /\ \A m \in Sent(Far) :
        /\ m.type # "cancel"
        /\ m.type = "ACCEPT" => requests < m.call /\ m.call < nextCall /\ Held(m.call)
    /\ Ordered(Far, CallsRise)

\* The answers on their way are those of distinct calls, which it has answered.
AnswersUnderway ==
    /\ \A m \in Sent(Near) : m.type = "ACCEPT_ok" =>
        m.call \in Sent(answered) /\ Held(m.call)
    /\ Ordered(Near, AnswersDiffer)

\* The other calls that it has counted are in its queue.
QueueHeld ==
    /\ \A r \in Sent(accepts) : Held(r)
    /\ \A s \in Slots : slots[s] <= requests =>
        \/ slots[s] \in Sent(accepts)
        \/ \E i \in L!ConnIds : AcceptOk(slots[s], i) \in Sent(Near)

SlotsOK ==
    /\ \A s \in Slots : slots[s] # 0 /\ slots[s] < nextCall
    /\ \A s, u \in Slots : slots[s] = slots[u] => s = u

BothListen == forwarder = "listening" /\ up

AcceptInv ==
    /\ Typed /\ OneSocketCall /\ NoneBefore
    /\ BothListen =>
        requests < nextCall /\ CallsUnderway /\ AnswersUnderway /\ QueueHeld /\ SlotsOK

-----------------------------------------------------------------------------
(* Messages and channels *)

LEMMA MessageFields ==
    /\ Socket.type = "SOCKET" /\ CloseListener.type = "CLOSE_listener"
    /\ \A ok : SocketDone(ok).type = "SOCKET_done" /\ SocketDone(ok).ok = ok
    /\ \A r : AcceptCall(r).type = "ACCEPT" /\ AcceptCall(r).call = r
    /\ \A r, i : /\ AcceptOk(r, i).type = "ACCEPT_ok"
                 /\ AcceptOk(r, i).call = r /\ AcceptOk(r, i).id = i
    /\ \A r : AcceptError(r).type = "ACCEPT_error" /\ AcceptError(r).call = r
    /\ \A r : CancelCall(r).type = "cancel" /\ CancelCall(r).call = r
    /\ \A i : Accepted(i).type = "ACCEPTED" /\ Accepted(i).id = i
    /\ \A i : Close(i).type = "CLOSE" /\ Close(i).id = i
BY DEF Socket, CloseListener, SocketDone, AcceptCall, AcceptOk, AcceptError, CancelCall,
       Accepted, Close

LEMMA MessagesIn ==
    /\ Socket \in Messages /\ CloseListener \in Messages
    /\ \A ok \in BOOLEAN : SocketDone(ok) \in Messages
    /\ \A r \in Nat :
        AcceptCall(r) \in Messages /\ AcceptError(r) \in Messages /\ CancelCall(r) \in Messages
    /\ \A r \in Nat, i \in L!ConnIds : AcceptOk(r, i) \in Messages
    /\ \A i \in L!ConnIds : Accepted(i) \in Messages /\ Close(i) \in Messages
BY DEF Messages

LEMMA Bounds ==
    /\ Cardinality(Slots) = 2
    /\ MaxAccepts = 2 + MaxId /\ MaxAccepts \in Nat \ {0} /\ MaxPackets \in Nat
<1>1. IsFiniteSet({1}) /\ Cardinality({1}) = 1
  BY FS_Singleton
<1>2. Slots = {1} \cup {2} /\ 2 \notin {1}
  BY DEF Slots
<1>3. Cardinality({1} \cup {2}) = Cardinality({1}) + 1
  BY <1>1, <1>2, FS_AddElement
<1>4. Cardinality(Slots) = 2
  BY <1>1, <1>2, <1>3
<1>5. MaxId \in Nat \ {0} /\ MaxPackets \in 0 .. MaxId
  BY BoundAssumption
<1>6. MaxPackets \in Nat
  BY <1>5
<1>7. MaxAccepts = 2 + MaxId
  BY <1>4 DEF MaxAccepts
<1> QED
  BY <1>4, <1>5, <1>6, <1>7

LEMMA SentFacts ==
    /\ Sent(<<>>) = {}
    /\ \A a : Sent(<<a>>) = {a}
    /\ \A a, b : Sent(<<a, b>>) = {a, b}
BY DEF Sent

LEMMA SeqElements ==
    ASSUME NEW S, NEW q \in Seq(S)
    PROVE  /\ Len(q) \in Nat /\ DOMAIN q = 1 .. Len(q)
           /\ \A i \in 1 .. Len(q) : q[i] \in S
OBVIOUS

\* The messages of a queue of which the first is taken, and of one to which some
\* are added.
LEMMA SentTail ==
    ASSUME NEW q \in Seq(Messages), q # <<>>
    PROVE  /\ Head(q) \in Sent(q) /\ Tail(q) \in Seq(Messages)
           /\ Sent(Tail(q)) \subseteq Sent(q)
           /\ Sent(q) \subseteq Sent(Tail(q)) \cup {Head(q)}
<1>1. /\ Len(q) \in Nat \ {0} /\ DOMAIN q = 1 .. Len(q) /\ Head(q) = q[1]
      /\ Tail(q) \in Seq(Messages) /\ DOMAIN Tail(q) = 1 .. Len(q) - 1
      /\ \A i \in 1 .. Len(q) - 1 : Tail(q)[i] = q[i + 1]
  OBVIOUS
<1>2. Sent(Tail(q)) \subseteq Sent(q)
  BY <1>1 DEF Sent
<1>3. ASSUME NEW i \in DOMAIN q
      PROVE  i = 1 \/ (i - 1 \in DOMAIN Tail(q) /\ q[i] = Tail(q)[i - 1])
  BY <1>1
<1>4. Sent(q) \subseteq Sent(Tail(q)) \cup {Head(q)}
  BY <1>1, <1>3 DEF Sent
<1>5. Head(q) \in Sent(q)
  BY <1>1 DEF Sent
<1> QED
  BY <1>1, <1>2, <1>4, <1>5

LEMMA SentConcat ==
    ASSUME NEW q \in Seq(Messages), NEW r \in Seq(Messages)
    PROVE  /\ q \o r \in Seq(Messages)
           /\ Sent(q \o r) = Sent(q) \cup Sent(r)
<1>1. /\ q \o r \in Seq(Messages) /\ Len(q \o r) = Len(q) + Len(r)
      /\ \A i \in 1 .. Len(q) + Len(r) :
            (q \o r)[i] = IF i <= Len(q) THEN q[i] ELSE r[i - Len(q)]
  BY ConcatProperties
<1>2. /\ DOMAIN q = 1 .. Len(q) /\ DOMAIN r = 1 .. Len(r)
      /\ Len(q) \in Nat /\ Len(r) \in Nat
      /\ DOMAIN (q \o r) = 1 .. Len(q) + Len(r)
  BY <1>1
<1>3. ASSUME NEW i \in DOMAIN q
      PROVE  i \in DOMAIN (q \o r) /\ (q \o r)[i] = q[i]
  BY <1>1, <1>2
<1>4. ASSUME NEW i \in DOMAIN r
      PROVE  Len(q) + i \in DOMAIN (q \o r) /\ (q \o r)[Len(q) + i] = r[i]
  BY <1>1, <1>2
<1>5. ASSUME NEW i \in DOMAIN (q \o r)
      PROVE  \/ i \in DOMAIN q /\ (q \o r)[i] = q[i]
             \/ i - Len(q) \in DOMAIN r /\ (q \o r)[i] = r[i - Len(q)]
  BY <1>1, <1>2
<1>6. Sent(q \o r) \subseteq Sent(q) \cup Sent(r)
  BY <1>5 DEF Sent
<1>7. Sent(q) \subseteq Sent(q \o r) /\ Sent(r) \subseteq Sent(q \o r)
  BY <1>3, <1>4 DEF Sent
<1> QED
  BY <1>1, <1>6, <1>7

\* What handling and sending do to the two channels.
LEMMA HandledFacts ==
    ASSUME chan \in [Peers -> Seq(Messages)], NEW p \in Peers, NEW msgs \in Seq(Messages),
           NEW m, Receive(p, m), Handled(p, msgs)
    PROVE  /\ chan' \in [Peers -> Seq(Messages)]
           /\ chan[p] # <<>> /\ m = Head(chan[p]) /\ m \in Sent(chan[p]) /\ m \in Messages
           /\ chan'[p] = Tail(chan[p]) /\ chan'[Other(p)] = chan[Other(p)] \o msgs
           /\ Sent(chan'[p]) \subseteq Sent(chan[p])
           /\ Sent(chan[p]) \subseteq Sent(chan'[p]) \cup {m}
           /\ Sent(chan'[Other(p)]) = Sent(chan[Other(p)]) \cup Sent(msgs)
<1>1. /\ Other(p) \in Peers /\ Other(p) # p
      /\ chan[p] \in Seq(Messages) /\ chan[Other(p)] \in Seq(Messages)
  BY DEF Other, Peers
<1>2. chan[p] # <<>> /\ m = Head(chan[p])
  BY DEF Receive
<1>3. Tail(chan[p]) \in Seq(Messages) /\ chan[Other(p)] \o msgs \in Seq(Messages)
  BY <1>1, <1>2, SentTail, SentConcat
<1>4. /\ chan'[p] = Tail(chan[p]) /\ chan'[Other(p)] = chan[Other(p)] \o msgs
      /\ \A q \in Peers : q = p \/ q = Other(p)
      /\ chan' = [chan EXCEPT ![p] = Tail(@), ![Other(p)] = @ \o msgs]
  BY <1>1 DEF Handled, Other, Peers
<1>5. chan' \in [Peers -> Seq(Messages)]
  BY <1>3, <1>4
<1>6. m \in Messages
  BY <1>1, <1>2
<1> QED
  BY <1>1, <1>2, <1>4, <1>5, <1>6, SentTail, SentConcat

LEMMA SendFacts ==
    ASSUME chan \in [Peers -> Seq(Messages)], NEW p \in Peers, NEW msgs \in Seq(Messages),
           Send(p, msgs)
    PROVE  /\ chan' \in [Peers -> Seq(Messages)]
           /\ chan'[p] = chan[p] /\ chan'[Other(p)] = chan[Other(p)] \o msgs
           /\ Sent(chan'[Other(p)]) = Sent(chan[Other(p)]) \cup Sent(msgs)
<1>1. /\ Other(p) \in Peers /\ Other(p) # p
      /\ chan[p] \in Seq(Messages) /\ chan[Other(p)] \in Seq(Messages)
  BY DEF Other, Peers
<1>2. /\ chan[Other(p)] \o msgs \in Seq(Messages)
      /\ Sent(chan[Other(p)] \o msgs) = Sent(chan[Other(p)]) \cup Sent(msgs)
  BY <1>1, SentConcat
<1> QED
  BY <1>1, <1>2 DEF Send

LEMMA PeerNames ==
    /\ "near" \in Peers /\ "far" \in Peers
    /\ Other("near") = "far" /\ Other("far") = "near"
BY DEF Peers, Other

LEMMA NoMessages ==
    /\ <<>> \in Seq(Messages)
    /\ \A q \in Seq(Messages) : q \o <<>> = q /\ <<>> \o q = q
BY EmptySeq, ConcatEmptySeq

LEMMA FewMessages ==
    /\ \A m \in Messages : <<m>> \in Seq(Messages) /\ Tail(<<m>>) = <<>>
    /\ \A m, n \in Messages : <<m, n>> \in Seq(Messages)
OBVIOUS

LEMMA UnderwaySent ==
    /\ \A p, m : Underway(p, m) <=> m \in Sent(chan[p])
    /\ \A p, m : Underway(p, m)' <=> m \in Sent(chan'[p])
BY DEF Underway, Sent

-----------------------------------------------------------------------------
(* The listening socket *)

\* The operators of DatagramListen, by either name.
LEMMA SameOperators ==
    /\ L!ConnIds = P!ConnIds /\ L!NoTimer = P!NoTimer
    /\ \A cs, bl : L!ExpirationTimeout(cs, bl) = P!ExpirationTimeout(cs, bl)
    /\ \A t, cs, bl : L!Schedule(t, cs, bl) = P!Schedule(t, cs, bl)
    /\ \A c : L!Touched(c) = P!Touched(c)
    /\ \A cs : L!Evicted(cs) = P!Evicted(cs)
    /\ \A bl, p : L!Queued(bl, p) = P!Queued(bl, p)
    /\ \A as : L!CloseSent(as) = P!CloseSent(as)
<1>1. L!ConnIds = P!ConnIds /\ L!NoTimer = P!NoTimer
  BY DEF L!ConnIds, P!ConnIds, L!NoTimer, P!NoTimer
<1>2. \A cs, bl : L!ExpirationTimeout(cs, bl) = P!ExpirationTimeout(cs, bl)
  BY DEF L!ExpirationTimeout, P!ExpirationTimeout, L!NoTimer, P!NoTimer, L!Min, P!Min
<1>3. \A t, cs, bl : L!Schedule(t, cs, bl) = P!Schedule(t, cs, bl)
  BY <1>1, <1>2 DEF L!Schedule, P!Schedule
<1>4. \A c : L!Touched(c) = P!Touched(c)
  BY DEF L!Touched, P!Touched
<1>5. \A cs : L!Evicted(cs) = P!Evicted(cs)
  BY DEF L!Evicted, P!Evicted, L!Cardinality, P!Cardinality
<1>6. \A bl, p : L!Queued(bl, p) = P!Queued(bl, p)
  BY DEF L!Queued, P!Queued, L!RemoveAt, P!RemoveAt
<1>7. \A as : L!CloseSent(as) = P!CloseSent(as)
  BY DEF L!CloseSent, P!CloseSent, L!ConnIds, P!ConnIds
<1> QED
  BY <1>1, <1>2, <1>3, <1>4, <1>5, <1>6, <1>7

LEMMA SameChanges ==
    /\ \A as : L!Forget(as) <=> P!Forget(as)
    /\ \A r, a, packets : L!ConnectionNew(r, a, packets) <=> P!ConnectionNew(r, a, packets)
    /\ L!DropExpired <=> P!DropExpired
    /\ L!vars = P!vars
<1>1. \A as : L!Forget(as) <=> P!Forget(as)
  BY DEF L!Forget, P!Forget, L!Restrict, P!Restrict
<1>2. \A r, a, packets : L!ConnectionNew(r, a, packets) <=> P!ConnectionNew(r, a, packets)
  BY SameOperators DEF L!ConnectionNew, P!ConnectionNew
<1>3. L!DropExpired <=> P!DropExpired
  BY DEF L!DropExpired, P!DropExpired
<1>4. L!vars = P!vars
  BY DEF L!vars, P!vars, L!history, P!history
<1> QED
  BY <1>1, <1>2, <1>3, <1>4

\* Each step is one of DatagramListen, or is none of the listening socket.
LEMMA ListenStep == [Next]_vars => [P!Next]_P!vars
<1> SUFFICES ASSUME [Next]_vars
             PROVE  P!Next \/ UNCHANGED P!vars
  OBVIOUS
<1>1. UNCHANGED listening => UNCHANGED P!vars
  BY DEF listening, P!vars, P!history
<1>2. /\ L!Tick => P!Tick
      /\ L!TimerFires => P!TimerFires
      /\ L!RemoveListener => P!RemoveListener
      /\ L!HandleAccept => P!HandleAccept
  <2>1. L!Tick => P!Tick
    BY DEF L!Tick, P!Tick, L!NoTimer, P!NoTimer, L!history, P!history, L!Max, P!Max
  <2>2. L!TimerFires => P!TimerFires
    BY SameOperators, SameChanges DEF L!TimerFires, P!TimerFires, L!history, P!history
  <2>3. L!RemoveListener => P!RemoveListener
    BY SameOperators, SameChanges DEF L!RemoveListener, P!RemoveListener, L!history, P!history
  <2>4. L!HandleAccept => P!HandleAccept
    BY SameOperators, SameChanges DEF L!HandleAccept, P!HandleAccept
  <2> QED
    BY <2>1, <2>2, <2>3, <2>4
<1>3. \A a : /\ L!ReceiveKnown(a) => P!ReceiveKnown(a)
             /\ L!ReceiveAccept(a) => P!ReceiveAccept(a)
             /\ L!ReceivePending(a) => P!ReceivePending(a)
  <2>1. \A a : L!Arrives(a) = P!Arrives(a) /\ L!Arrived(a) = P!Arrived(a)
    BY DEF L!Arrives, P!Arrives, L!Arrived, P!Arrived
  <2>2. \A a : L!ReceiveKnown(a) => P!ReceiveKnown(a)
    BY <2>1, SameOperators DEF L!ReceiveKnown, P!ReceiveKnown
  <2>3. \A a : L!ReceiveAccept(a) => P!ReceiveAccept(a)
    BY <2>1, SameOperators, SameChanges DEF L!ReceiveAccept, P!ReceiveAccept
  <2>4. \A a : L!ReceivePending(a) => P!ReceivePending(a)
    BY <2>1, SameOperators DEF L!ReceivePending, P!ReceivePending, L!history, P!history,
                               L!Last, P!Last
  <2> QED
    BY <2>2, <2>3, <2>4
<1>4. \A a : /\ L!Flush(a) => P!Flush(a)
             /\ L!RemoveConnection(a) => P!RemoveConnection(a)
  BY SameOperators, SameChanges
     DEF L!Flush, P!Flush, L!RemoveConnection, P!RemoveConnection, L!history, P!history,
         L!Cardinality, P!Cardinality
<1>5. \A r : L!HandleCancel(r) => P!HandleCancel(r)
  BY DEF L!HandleCancel, P!HandleCancel, L!history, P!history, L!RemoveAt, P!RemoveAt
<1>6. \A i : /\ L!HandleAccepted(i) => P!HandleAccepted(i)
             /\ L!HandleData(i) => P!HandleData(i)
             /\ L!HandleClose(i) => P!HandleClose(i)
  BY SameOperators, SameChanges
     DEF L!HandleAccepted, P!HandleAccepted, L!HandleData, P!HandleData,
         L!HandleClose, P!HandleClose, L!history, P!history
<1>7. 1 .. MaxAccepts = P!CallIds /\ L!ConnIds = P!ConnIds
  BY SameOperators DEF P!CallIds
<1>8. CASE HandleSocket \/ SocketComplete \/ AcceptComplete \/ AcceptFailed \/ HandleNearClose
  BY <1>1, <1>8 DEF HandleSocket, SocketComplete, AcceptComplete, AcceptFailed,
                    HandleNearClose
<1>9. CASE HandleAccept \/ HandleCloseListener
  BY <1>1, <1>2, <1>9 DEF HandleAccept, HandleCloseListener, P!Next
<1>10. CASE HandleCancel
  BY <1>1, <1>5, <1>7, <1>10 DEF HandleCancel, P!Next
<1>11. CASE HandleAccepted \/ HandleFarClose \/ DataFromNear
  BY <1>1, <1>6, <1>7, <1>11 DEF HandleAccepted, HandleFarClose, DataFromNear, P!Next
<1>12. CASE ListenerEvent
  BY <1>2, <1>3, <1>4, <1>12 DEF ListenerEvent, P!Next
<1>13. CASE RemoveListener
  BY <1>2, <1>13 DEF RemoveListener, P!Next
<1>14. CASE RemoveForwarder \/ \E i \in L!ConnIds : RemoveSocket(i)
  BY <1>1, <1>14 DEF RemoveForwarder, RemoveSocket
<1>15. CASE UNCHANGED vars
  BY <1>1, <1>15 DEF vars
<1> QED
  BY <1>8, <1>9, <1>10, <1>11, <1>12, <1>13, <1>14, <1>15 DEF Next, Deliver

LEMMA ListenInit == Init => P!Init
BY SameOperators DEF Init, L!Init, P!Init

LEMMA ListenImplemented == Spec => P!Spec
BY ListenInit, ListenStep, PTL DEF Spec, P!Spec

\* What DatagramListenProofs shows of the listening socket.
LEMMA ListenerInvariant == Spec => []P!ListenInv
<1>1. P!Spec => []P!ListenInv
  <2>1. /\ {Timeout, Backlog, ConnLimit, MaxId, MaxAccepts} \subseteq Nat \ {0}
        /\ MaxPackets \in Nat
    BY Bounds, BoundAssumption
  <2> QED
    BY <2>1, P!ListenInvariant
<1> QED
  BY <1>1, ListenImplemented, PTL

\* What DatagramListenProofs knows of the requests, as this module needs it.
LEMMA RequestFacts ==
    ASSUME P!ListenInv
    PROVE  /\ accepts \in Seq(1 .. MaxAccepts) /\ answered \in Seq(1 .. MaxAccepts)
           /\ requests \in Nat /\ nextId \in 1 .. MaxId + 1
           /\ \A r \in Sent(accepts) \cup Sent(answered) : r \in 1 .. MaxAccepts /\ r <= requests
           /\ \A r \in Sent(answered), q \in Sent(accepts) : r < q
           /\ \A i, j \in DOMAIN accepts : i < j => accepts[i] < accepts[j]
<1>1. /\ accepts \in Seq(1 .. MaxAccepts) /\ answered \in Seq(1 .. MaxAccepts)
      /\ requests \in 0 .. MaxAccepts /\ nextId \in 1 .. MaxId + 1
      /\ P!AnswersOK
  BY DEF P!ListenInv, P!QueuesOK, P!TablesOK, P!TablesMapped, P!CallIds
<1>2. /\ \A i \in DOMAIN accepts : accepts[i] \in 1 .. MaxAccepts
      /\ \A i \in DOMAIN answered : answered[i] \in 1 .. MaxAccepts
  BY <1>1, SeqElements
<1>3. requests \in Nat
  BY <1>1, Bounds
<1> QED
  BY <1>1, <1>2, <1>3 DEF P!AnswersOK, Sent

LEMMA SentQueues ==
    ASSUME NEW S, NEW q \in Seq(S)
    PROVE  /\ \A x \in S : Append(q, x) \in Seq(S) /\ Sent(Append(q, x)) = Sent(q) \cup {x}
           /\ q # <<>> => /\ Head(q) \in Sent(q) /\ Head(q) \in S
                          /\ Sent(Tail(q)) \subseteq Sent(q)
                          /\ Sent(q) \subseteq Sent(Tail(q)) \cup {Head(q)}
<1>1. ASSUME NEW x \in S
      PROVE  Append(q, x) \in Seq(S) /\ Sent(Append(q, x)) = Sent(q) \cup {x}
  <2>1. /\ Len(q) \in Nat /\ DOMAIN q = 1 .. Len(q)
        /\ Append(q, x) \in Seq(S) /\ DOMAIN Append(q, x) = 1 .. Len(q) + 1
        /\ \A i \in 1 .. Len(q) : Append(q, x)[i] = q[i]
        /\ Append(q, x)[Len(q) + 1] = x
    OBVIOUS
  <2>2. \A i \in 1 .. Len(q) : i \in 1 .. Len(q) + 1
    BY <2>1
  <2>3. \A i \in 1 .. Len(q) + 1 : i \in 1 .. Len(q) \/ i = Len(q) + 1
    BY <2>1
  <2>4. Len(q) + 1 \in 1 .. Len(q) + 1
    BY <2>1
  <2>5. Sent(Append(q, x)) \subseteq Sent(q) \cup {x}
    BY <2>1, <2>3 DEF Sent
  <2>6. Sent(q) \cup {x} \subseteq Sent(Append(q, x))
    BY <2>1, <2>2, <2>4 DEF Sent
  <2> QED
    BY <2>1, <2>5, <2>6
<1>2. ASSUME q # <<>>
      PROVE  /\ Head(q) \in Sent(q) /\ Head(q) \in S
             /\ Sent(Tail(q)) \subseteq Sent(q)
             /\ Sent(q) \subseteq Sent(Tail(q)) \cup {Head(q)}
  <2>1. /\ Len(q) \in Nat \ {0} /\ DOMAIN q = 1 .. Len(q) /\ Head(q) = q[1]
        /\ DOMAIN Tail(q) = 1 .. Len(q) - 1
        /\ \A i \in 1 .. Len(q) - 1 : Tail(q)[i] = q[i + 1]
    BY <1>2
  <2>2. Sent(Tail(q)) \subseteq Sent(q)
    BY <2>1 DEF Sent
  <2>3. ASSUME NEW i \in DOMAIN q
        PROVE  i = 1 \/ (i - 1 \in DOMAIN Tail(q) /\ q[i] = Tail(q)[i - 1])
    BY <2>1
  <2>4. Sent(q) \subseteq Sent(Tail(q)) \cup {Head(q)}
    BY <2>1, <2>3 DEF Sent
  <2>5. Head(q) \in Sent(q) /\ Head(q) \in S
    BY <2>1 DEF Sent
  <2> QED
    BY <2>2, <2>4, <2>5
<1> QED
  BY <1>1, <1>2

\* An order remains when the first message is handled, and when messages are
\* added that may come after those that are there.
LEMMA OrderedTail ==
    ASSUME NEW R, NEW q \in Seq(Messages), q # <<>>, Ordered(q, R)
    PROVE  /\ Ordered(Tail(q), R)
           /\ \A m \in Sent(Tail(q)) : <<Head(q), m>> \in R
<1>1. /\ Len(q) \in Nat \ {0} /\ DOMAIN q = 1 .. Len(q) /\ Head(q) = q[1]
      /\ DOMAIN Tail(q) = 1 .. Len(q) - 1
      /\ \A i \in 1 .. Len(q) - 1 : Tail(q)[i] = q[i + 1]
  OBVIOUS
<1>2. \A i \in DOMAIN Tail(q) : i + 1 \in DOMAIN q /\ 1 \in DOMAIN q /\ 1 < i + 1
  BY <1>1
<1>3. \A i, j \in DOMAIN Tail(q) : i < j => i + 1 < j + 1
  BY <1>1
<1>4. Ordered(Tail(q), R)
  BY <1>1, <1>2, <1>3 DEF Ordered
<1>5. \A i \in DOMAIN Tail(q) : <<Head(q), Tail(q)[i]>> \in R
  BY <1>1, <1>2 DEF Ordered
<1> QED
  BY <1>4, <1>5 DEF Sent

LEMMA OrderedMore ==
    ASSUME NEW R, NEW q \in Seq(Messages), NEW r \in Seq(Messages),
           Ordered(q, R), Ordered(r, R), \A m \in Sent(q), n \in Sent(r) : <<m, n>> \in R
    PROVE  Ordered(q \o r, R)
<1>1. /\ \A i \in 1 .. Len(q) + Len(r) :
            (q \o r)[i] = IF i <= Len(q) THEN q[i] ELSE r[i - Len(q)]
      /\ DOMAIN (q \o r) = 1 .. Len(q) + Len(r)
  BY ConcatProperties
<1>2. /\ Len(q) \in Nat /\ Len(r) \in Nat
      /\ DOMAIN q = 1 .. Len(q) /\ DOMAIN r = 1 .. Len(r)
  OBVIOUS
<1> PICK c : c = q \o r
  OBVIOUS
<1>3. /\ DOMAIN c = 1 .. Len(q) + Len(r)
      /\ \A i \in DOMAIN c : \/ i \in DOMAIN q /\ c[i] = q[i]
                             \/ /\ i > Len(q) /\ i - Len(q) \in DOMAIN r
                                /\ c[i] = r[i - Len(q)]
  BY <1>1, <1>2
<1> SUFFICES ASSUME NEW i \in DOMAIN c, NEW j \in DOMAIN c, i < j
             PROVE  <<c[i], c[j]>> \in R
  BY DEF Ordered
<1>4. CASE i \in DOMAIN q /\ c[i] = q[i] /\ j \in DOMAIN q /\ c[j] = q[j]
  BY <1>4 DEF Ordered
<1>5. CASE /\ i \in DOMAIN q /\ c[i] = q[i]
           /\ j > Len(q) /\ j - Len(q) \in DOMAIN r /\ c[j] = r[j - Len(q)]
  <2>1. c[i] \in Sent(q) /\ c[j] \in Sent(r)
    BY <1>5 DEF Sent
  <2> QED
    BY <2>1
<1>6. CASE /\ i > Len(q) /\ i - Len(q) \in DOMAIN r /\ c[i] = r[i - Len(q)]
           /\ j > Len(q) /\ j - Len(q) \in DOMAIN r /\ c[j] = r[j - Len(q)]
  <2>1. i - Len(q) < j - Len(q)
    BY <1>2, <1>3
  <2> QED
    BY <1>6, <2>1 DEF Ordered
<1>7. i > Len(q) => ~(j \in DOMAIN q)
  BY <1>2, <1>3
<1> QED
  BY <1>3, <1>4, <1>5, <1>6, <1>7

\* The identifiers of a finite set in some order.
LEMMA SetToSeqType ==
    ASSUME NEW S \in SUBSET (1 .. MaxId)
    PROVE  SetToSeq(S) \in Seq(S)
<1>1. IsFiniteSet(S)
  <2>1. 1 \in Int /\ MaxId \in Int
    BY BoundAssumption
  <2>2. IsFiniteSet(1 .. MaxId)
    BY <2>1, FS_Interval
  <2> QED
    BY <2>2, FS_Subset
<1>2. Cardinality(S) \in Nat /\ ExistsBijection(1 .. Cardinality(S), S)
  BY <1>1, FS_CardinalityType
<1>3. \E f \in [1 .. Cardinality(S) -> S] : IsInjective(f)
  BY <1>2 DEF ExistsBijection, Bijection, Injection
<1>4. SetToSeq(S) \in [1 .. Cardinality(S) -> S]
  BY <1>3 DEF SetToSeq
<1> QED
  BY <1>2, <1>4

\* What a step of the listening socket tells: CLOSE for some connections, and
\* the answer to the request that has been answered in the step.
LEMMA ToldFacts ==
    ASSUME P!ListenInv
    PROVE  \E closes \in Seq(Messages) :
            /\ \A m \in Sent(closes) : m.type = "CLOSE"
            /\ answered' = answered => Told = closes
            /\ answered' # answered =>
                Told = closes \o <<AcceptOk(Last(answered'), nextId)>>
<1> PICK gone : gone = {i \in L!ConnIds : caller'[i] = "told" /\ caller[i] # "told"}
  OBVIOUS
<1> PICK ids : ids = SetToSeq(gone)
  OBVIOUS
<1>1. ids \in Seq(gone) /\ gone \subseteq L!ConnIds
  BY SetToSeqType DEF L!ConnIds
<1> PICK closes : closes = [k \in DOMAIN ids |-> Close(ids[k])]
  OBVIOUS
<1>2. Len(ids) \in Nat /\ DOMAIN ids = 1 .. Len(ids) /\ \A k \in 1 .. Len(ids) : ids[k] \in gone
  BY <1>1, SeqElements
<1>3. \A k \in 1 .. Len(ids) : Close(ids[k]) \in Messages
  BY <1>1, <1>2, MessagesIn
<1>4. closes \in Seq(Messages)
  BY <1>2, <1>3
<1>5. \A m \in Sent(closes) : m.type = "CLOSE"
  BY MessageFields DEF Sent
<1>6. /\ answered' = answered => Told = closes \o <<>>
      /\ answered' # answered => Told = closes \o <<AcceptOk(Last(answered'), nextId)>>
  BY DEF Told
<1>7. closes \o <<>> = closes
  BY <1>4, NoMessages
<1> QED
  BY <1>4, <1>5, <1>6, <1>7

-----------------------------------------------------------------------------
(* The steps *)

\* A message that says nothing of the SOCKET call or of an ACCEPT.
Plain(m) == m.type \notin {"SOCKET", "SOCKET_done", "ACCEPT", "ACCEPT_ok"}

Orders == {SocketFirst, AnsweredOnce, CallsRise, AnswersDiffer}

LEMMA PlainLast ==
    ASSUME NEW m \in Messages, NEW n \in Messages, Plain(n), NEW R \in Orders
    PROVE  <<m, n>> \in R
<1>1. /\ <<m, n>> \in SocketFirst /\ <<m, n>> \in AnsweredOnce
      /\ <<m, n>> \in CallsRise /\ <<m, n>> \in AnswersDiffer
  BY DEF Plain, SocketFirst, AnsweredOnce, CallsRise, AnswersDiffer, Pairs
<1> QED
  BY <1>1 DEF Orders

\* What it does to a channel that plain messages are added to.
LEMMA PlainMore ==
    ASSUME NEW q \in Seq(Messages), NEW msgs \in Seq(Messages),
           \A m \in Sent(msgs) : Plain(m), NEW R \in Orders, Ordered(q, R)
    PROVE  Ordered(q \o msgs, R)
<1>1. /\ \A m \in Sent(q) : m \in Messages
      /\ \A m \in Sent(msgs) : m \in Messages
  BY DEF Sent
<1>2. \A m \in Sent(q), n \in Sent(msgs) : <<m, n>> \in R
  BY <1>1, PlainLast
<1>3. Ordered(msgs, R)
  <2>1. \A i \in DOMAIN msgs : msgs[i] \in Sent(msgs)
    BY DEF Sent
  <2> QED
    BY <1>1, <2>1, PlainLast DEF Ordered
<1> QED
  BY <1>2, <1>3, OrderedMore

\* The parts of the invariant, for use.
LEMMA Parts ==
    ASSUME AcceptInv
    PROVE  /\ Typed /\ OneSocketCall /\ NoneBefore
           /\ chan \in [Peers -> Seq(Messages)]
           /\ Far \in Seq(Messages) /\ Near \in Seq(Messages)
           /\ (\A m \in Sent(Far) : m \in Messages) /\ (\A m \in Sent(Near) : m \in Messages)
           /\ BothListen => rid
<1>1. chan \in [Peers -> Seq(Messages)] /\ Far \in Seq(Messages) /\ Near \in Seq(Messages)
  BY PeerNames DEF AcceptInv, Typed, Near, Far
<1>2. \A q \in Seq(Messages) : \A m \in Sent(q) : m \in Messages
  BY DEF Sent
<1> QED
  BY <1>1, <1>2 DEF AcceptInv, BothListen, NoneBefore

\* The channels after a step that sends plain messages, and may handle one.
LEMMA PlainChannels ==
    ASSUME chan \in [Peers -> Seq(Messages)], NEW p \in Peers, NEW msgs \in Seq(Messages),
           \A n \in Sent(msgs) : Plain(n), NEW m,
           Send(p, msgs) \/ (Receive(p, m) /\ Handled(p, msgs))
    PROVE  /\ chan' \in [Peers -> Seq(Messages)]
           /\ \A q \in Peers, R \in Orders : Ordered(chan[q], R) => Ordered(chan'[q], R)
           /\ \A q \in Peers : Sent(chan'[q]) \subseteq Sent(chan[q]) \cup Sent(msgs)
           /\ Send(p, msgs) => \A q \in Peers : Sent(chan[q]) \subseteq Sent(chan'[q])
           /\ ~Send(p, msgs) => /\ \A q \in Peers : Sent(chan[q]) \subseteq Sent(chan'[q]) \cup {m}
                                /\ m \in Sent(chan[p])
<1>0. /\ Other(p) \in Peers /\ \A q \in Peers : q = p \/ q = Other(p)
      /\ chan[p] \in Seq(Messages) /\ chan[Other(p)] \in Seq(Messages)
  BY DEF Other, Peers
<1>1. CASE Send(p, msgs)
  <2>1. /\ chan' \in [Peers -> Seq(Messages)]
        /\ chan'[p] = chan[p] /\ chan'[Other(p)] = chan[Other(p)] \o msgs
        /\ Sent(chan'[Other(p)]) = Sent(chan[Other(p)]) \cup Sent(msgs)
    BY <1>1, SendFacts
  <2>2. ASSUME NEW R \in Orders, Ordered(chan[Other(p)], R)
        PROVE  Ordered(chan'[Other(p)], R)
    <3>1. Ordered(chan[Other(p)] \o msgs, R)
      BY <1>0, <2>2, PlainMore
    <3> QED
      BY <2>1, <3>1
  <2> QED
    BY <1>0, <1>1, <2>1, <2>2
<1>2. CASE ~Send(p, msgs)
  <2>0. Receive(p, m) /\ Handled(p, msgs)
    BY <1>2
  <2>1. /\ chan' \in [Peers -> Seq(Messages)]
        /\ chan[p] # <<>> /\ m \in Sent(chan[p])
        /\ chan'[p] = Tail(chan[p]) /\ chan'[Other(p)] = chan[Other(p)] \o msgs
        /\ Sent(chan'[p]) \subseteq Sent(chan[p])
        /\ Sent(chan[p]) \subseteq Sent(chan'[p]) \cup {m}
        /\ Sent(chan'[Other(p)]) = Sent(chan[Other(p)]) \cup Sent(msgs)
    BY <2>0, HandledFacts
  <2>2. ASSUME NEW R \in Orders, Ordered(chan[Other(p)], R)
        PROVE  Ordered(chan'[Other(p)], R)
    <3>1. Ordered(chan[Other(p)] \o msgs, R)
      BY <1>0, <2>2, PlainMore
    <3> QED
      BY <2>1, <3>1
  <2>3. ASSUME NEW R \in Orders, Ordered(chan[p], R)
        PROVE  Ordered(chan'[p], R)
    BY <1>0, <2>1, <2>3, OrderedTail
  <2> QED
    BY <1>0, <1>2, <2>1, <2>2, <2>3
<1> QED
  BY <1>1, <1>2

\* A step that tells only of sockets, and that the forwarder's and the listening
\* socket's ACCEPTs do not take part in as long as both listen.
LEMMA QuietStep ==
    ASSUME AcceptInv, slots' \in [Slots -> Nat], nextCall' \in Nat, rid' = rid,
           requests' = requests,
           NEW p \in Peers, NEW msgs \in Seq(Messages), \A n \in Sent(msgs) : Plain(n), NEW m,
           Send(p, msgs) \/ (Receive(p, m) /\ Handled(p, msgs)),
           ~rid => /\ forwarder' # "listening" /\ \A s \in Slots : slots'[s] = 0
                   /\ \A n \in Sent(msgs) : n.type # "cancel",
           BothListen' => /\ BothListen
                          /\ accepts' = accepts /\ answered' = answered
                          /\ slots' = slots /\ nextCall' = nextCall
                          /\ \A n \in Sent(msgs) : n.type # "cancel"
                          /\ Send(p, msgs) \/ m.type \notin {"ACCEPT", "ACCEPT_ok"}
    PROVE  AcceptInv'
<1>1. /\ chan' \in [Peers -> Seq(Messages)]
      /\ \A q \in Peers, R \in Orders : Ordered(chan[q], R) => Ordered(chan'[q], R)
      /\ \A q \in Peers : Sent(chan'[q]) \subseteq Sent(chan[q]) \cup Sent(msgs)
      /\ Send(p, msgs) => \A q \in Peers : Sent(chan[q]) \subseteq Sent(chan'[q])
      /\ ~Send(p, msgs) => \A q \in Peers : Sent(chan[q]) \subseteq Sent(chan'[q]) \cup {m}
  BY Parts, PlainChannels
<1>2. /\ \A R \in Orders : Ordered(Far, R) => Ordered(Far', R)
      /\ \A R \in Orders : Ordered(Near, R) => Ordered(Near', R)
      /\ Sent(Far') \subseteq Sent(Far) \cup Sent(msgs)
      /\ Sent(Near') \subseteq Sent(Near) \cup Sent(msgs)
  BY <1>1, PeerNames DEF Far, Near
<1>3. /\ SocketFirst \in Orders /\ AnsweredOnce \in Orders
      /\ CallsRise \in Orders /\ AnswersDiffer \in Orders
  BY DEF Orders
<1>4. Typed'
  BY <1>1 DEF Typed
<1>5. OneSocketCall'
  BY <1>2, <1>3, Parts DEF OneSocketCall, Plain
<1>6. NoneBefore'
  BY <1>2, Parts DEF NoneBefore, Plain
<1>7. ASSUME BothListen'
      PROVE  (requests < nextCall /\ CallsUnderway /\ AnswersUnderway /\ QueueHeld /\ SlotsOK)'
  <2>1. /\ requests < nextCall /\ CallsUnderway /\ AnswersUnderway /\ QueueHeld /\ SlotsOK
        /\ accepts' = accepts /\ answered' = answered
        /\ slots' = slots /\ nextCall' = nextCall
        /\ \A n \in Sent(msgs) : n.type # "cancel" /\ n.type \notin {"ACCEPT", "ACCEPT_ok"}
    BY <1>7 DEF AcceptInv, Plain
  <2>2. /\ \A q : AcceptCall(q) \in Sent(Far) => AcceptCall(q) \in Sent(Far')
        /\ \A q, i : AcceptOk(q, i) \in Sent(Near) => AcceptOk(q, i) \in Sent(Near')
    BY <1>1, <1>7, PeerNames, MessageFields DEF Far, Near
  <2>3. CallsUnderway'
    BY <1>2, <1>3, <2>1, <2>2 DEF CallsUnderway, Held
  <2>4. AnswersUnderway'
    BY <1>2, <1>3, <2>1 DEF AnswersUnderway, Held
  <2>5. QueueHeld'
    BY <2>1, <2>2 DEF QueueHeld, Held
  <2>6. SlotsOK'
    BY <2>1 DEF SlotsOK
  <2> QED
    BY <2>1, <2>3, <2>4, <2>5, <2>6
<1> QED
  BY <1>4, <1>5, <1>6, <1>7 DEF AcceptInv

\* The messages that are plain.
LEMMA PlainMessages ==
    /\ Plain(CloseListener) /\ CloseListener.type # "cancel"
    /\ \A r : Plain(AcceptError(r)) /\ AcceptError(r).type # "cancel"
    /\ \A r : Plain(CancelCall(r)) /\ CancelCall(r).type = "cancel"
    /\ \A i : /\ Plain(Accepted(i)) /\ Accepted(i).type # "cancel"
              /\ Plain(Close(i)) /\ Close(i).type # "cancel"
BY MessageFields DEF Plain

LEMMA ToldPlain ==
    ASSUME P!ListenInv, answered' = answered
    PROVE  Told \in Seq(Messages) /\ \A n \in Sent(Told) : Plain(n) /\ n.type # "cancel"
BY ToldFacts DEF Plain

\* A step that has nothing to do with ACCEPTs, which may remove the listening
\* socket.
LEMMA OtherStep ==
    ASSUME AcceptInv, up' => up, requests' = requests, answered' = answered,
           up' => accepts' = accepts, UNCHANGED forwarding,
           NEW p \in Peers, NEW msgs \in Seq(Messages),
           \A n \in Sent(msgs) : Plain(n) /\ n.type # "cancel", NEW m,
           Send(p, msgs) \/ (Receive(p, m) /\ Handled(p, msgs) /\ Plain(m))
    PROVE  AcceptInv'
<1>1. /\ slots' = slots /\ nextCall' = nextCall /\ rid' = rid /\ forwarder' = forwarder
  BY DEF forwarding
<1>2. slots' \in [Slots -> Nat] /\ nextCall' \in Nat
  BY <1>1, Parts DEF Typed
<1>3. ~rid => forwarder' # "listening" /\ \A s \in Slots : slots'[s] = 0
  BY <1>1, Parts DEF NoneBefore
<1>4. BothListen' => /\ BothListen /\ accepts' = accepts
                     /\ Send(p, msgs) \/ m.type \notin {"ACCEPT", "ACCEPT_ok"}
  BY <1>1 DEF BothListen, Plain
<1> QED
  BY <1>1, <1>2, <1>3, <1>4, QuietStep

LEMMA ListenerQuiet ==
    /\ L!Tick => UNCHANGED <<up, accepts, requests, answered>>
    /\ L!TimerFires => UNCHANGED <<up, accepts, requests, answered>>
    /\ \A a : L!ReceiveKnown(a) => UNCHANGED <<up, accepts, requests, answered>>
    /\ \A a : L!ReceivePending(a) => UNCHANGED <<up, accepts, requests, answered>>
    /\ \A a : L!Flush(a) => UNCHANGED <<up, accepts, requests, answered>>
    /\ \A a : L!RemoveConnection(a) => UNCHANGED <<up, accepts, requests, answered>>
    /\ \A i : L!HandleAccepted(i) => UNCHANGED <<up, accepts, requests, answered>>
    /\ \A i : L!HandleData(i) => UNCHANGED <<up, accepts, requests, answered>>
    /\ \A i : L!HandleClose(i) => UNCHANGED <<up, accepts, requests, answered>>
    /\ L!RemoveListener => up' = FALSE /\ UNCHANGED <<requests, answered>>
    /\ UNCHANGED listening => UNCHANGED <<up, accepts, requests, answered>>
BY DEF L!Tick, L!TimerFires, L!ReceiveKnown, L!ReceivePending, L!Flush, L!RemoveConnection,
       L!HandleAccepted, L!HandleData, L!HandleClose, L!RemoveListener, L!Arrives,
       L!history, listening

\* Messages that are answered with nothing.
LEMMA NothingSaid == <<>> \in Seq(Messages) /\ Sent(<<>>) = {}
BY NoMessages, SentFacts

LEMMA ListenerQuietStep ==
    ASSUME AcceptInv, P!ListenInv, UNCHANGED <<up, accepts, requests, answered>>,
           Send("far", Told), UNCHANGED forwarding
    PROVE  AcceptInv'
<1>1. Told \in Seq(Messages) /\ \A n \in Sent(Told) : Plain(n) /\ n.type # "cancel"
  BY ToldPlain
<1> QED
  BY <1>1, PeerNames, OtherStep

LEMMA RemoveListenerStep ==
    ASSUME AcceptInv, P!ListenInv, RemoveListener
    PROVE  AcceptInv'
<1>1. /\ up' = FALSE /\ requests' = requests /\ answered' = answered /\ UNCHANGED forwarding
  BY ListenerQuiet DEF RemoveListener
<1>2. Told \in Seq(Messages) /\ \A n \in Sent(Told) : Plain(n) /\ n.type # "cancel"
  BY <1>1, ToldPlain
<1> PICK errors : errors = [i \in DOMAIN accepts |-> AcceptError(accepts[i])]
  OBVIOUS
<1>3. errors \in Seq(Messages) /\ \A n \in Sent(errors) : Plain(n) /\ n.type # "cancel"
  <2>1. /\ Len(accepts) \in Nat /\ DOMAIN accepts = 1 .. Len(accepts)
        /\ \A i \in 1 .. Len(accepts) : accepts[i] \in 1 .. MaxAccepts
    BY RequestFacts, SeqElements
  <2>2. \A i \in 1 .. Len(accepts) : AcceptError(accepts[i]) \in Messages
    BY <2>1, MessagesIn, Bounds
  <2>3. errors \in Seq(Messages)
    BY <2>1, <2>2
  <2> QED
    BY <2>3, PlainMessages DEF Sent
<1>4. ASSUME NEW msgs \in Seq(Messages), \A n \in Sent(msgs) : Plain(n) /\ n.type # "cancel",
             Send("far", Told \o msgs)
      PROVE  AcceptInv'
  <2> PICK all : all = Told \o msgs
    OBVIOUS
  <2>1. all \in Seq(Messages) /\ Sent(all) = Sent(Told) \cup Sent(msgs)
    BY <1>2, SentConcat
  <2>2. \A n \in Sent(all) : Plain(n) /\ n.type # "cancel"
    BY <1>2, <1>4, <2>1
  <2>3. Send("far", all)
    BY <1>4
  <2> QED
    BY <1>1, <2>1, <2>2, <2>3, PeerNames, OtherStep
<1>5. Send("far", Told \o errors) \/ Send("far", Told \o <<>>)
  BY DEF RemoveListener
<1> QED
  BY <1>3, <1>4, <1>5, NothingSaid

\* While both ends listen no ACCEPT is cancelled.
LEMMA HandleCancelStep ==
    ASSUME AcceptInv, P!ListenInv, HandleCancel
    PROVE  AcceptInv'
<1>1. PICK r \in 1 .. MaxAccepts : Receive("far", CancelCall(r)) /\ Handled("far", <<>>)
  BY DEF HandleCancel
<1>2. /\ up' = up /\ requests' = requests /\ answered' = answered /\ UNCHANGED forwarding
  BY ListenerQuiet DEF HandleCancel, L!HandleCancel, L!history
<1>3. CancelCall(r) \in Sent(Far)
  BY <1>1, PeerNames, Parts, NothingSaid, HandledFacts DEF Far
<1>4. ~BothListen /\ ~BothListen'
  <2>1. BothListen => FALSE
    BY <1>3, MessageFields DEF AcceptInv, CallsUnderway
  <2> QED
    BY <1>2, <2>1 DEF BothListen, forwarding
<1>5. /\ slots' = slots /\ nextCall' = nextCall /\ rid' = rid /\ forwarder' = forwarder
  BY <1>2 DEF forwarding
<1>6. slots' \in [Slots -> Nat] /\ nextCall' \in Nat
  BY <1>5, Parts DEF Typed
<1>7. ~rid => forwarder' # "listening" /\ \A s \in Slots : slots'[s] = 0
  BY <1>5, Parts DEF NoneBefore
<1> QED
  BY <1>1, <1>2, <1>4, <1>5, <1>6, <1>7, PeerNames, NothingSaid, QuietStep

LEMMA HandleAcceptedStep ==
    ASSUME AcceptInv, HandleAccepted
    PROVE  AcceptInv'
<1>1. PICK i \in L!ConnIds :
        Receive("far", Accepted(i)) /\ Handled("far", <<>>) /\ L!HandleAccepted(i)
  BY DEF HandleAccepted
<1>2. UNCHANGED <<up, accepts, requests, answered>> /\ UNCHANGED forwarding
  BY <1>1, ListenerQuiet DEF HandleAccepted
<1> QED
  BY <1>1, <1>2, PeerNames, NothingSaid, PlainMessages, OtherStep

LEMMA HandleFarCloseStep ==
    ASSUME AcceptInv, HandleFarClose
    PROVE  AcceptInv'
<1>1. PICK i \in L!ConnIds :
        /\ Receive("far", Close(i)) /\ Handled("far", <<>>)
        /\ L!HandleClose(i) \/ UNCHANGED listening
  BY DEF HandleFarClose
<1>2. UNCHANGED <<up, accepts, requests, answered>> /\ UNCHANGED forwarding
  BY <1>1, ListenerQuiet DEF HandleFarClose
<1> QED
  BY <1>1, <1>2, PeerNames, NothingSaid, PlainMessages, OtherStep

LEMMA HandleCloseListenerStep ==
    ASSUME AcceptInv, P!ListenInv, HandleCloseListener
    PROVE  AcceptInv'
<1>1. Receive("far", CloseListener) /\ UNCHANGED forwarding
  BY DEF HandleCloseListener
<1>2. CASE L!RemoveListener /\ Handled("far", Told)
  <2>1. up' = FALSE /\ requests' = requests /\ answered' = answered
    BY <1>2, ListenerQuiet
  <2>2. Told \in Seq(Messages) /\ \A n \in Sent(Told) : Plain(n) /\ n.type # "cancel"
    BY <2>1, ToldPlain
  <2> QED
    BY <1>1, <1>2, <2>1, <2>2, PeerNames, PlainMessages, OtherStep
<1>3. CASE Handled("far", <<>>) /\ UNCHANGED listening
  <2>1. UNCHANGED <<up, accepts, requests, answered>>
    BY <1>3, ListenerQuiet
  <2> QED
    BY <1>1, <1>3, <2>1, PeerNames, NothingSaid, PlainMessages, OtherStep
<1> QED
  BY <1>2, <1>3 DEF HandleCloseListener

LEMMA HandleNearCloseStep ==
    ASSUME AcceptInv, HandleNearClose
    PROVE  AcceptInv'
<1>1. PICK i \in L!ConnIds : Receive("near", Close(i)) /\ Handled("near", <<>>)
  BY DEF HandleNearClose
<1>2. UNCHANGED <<up, accepts, requests, answered>> /\ UNCHANGED forwarding
  BY ListenerQuiet DEF HandleNearClose
<1> QED
  BY <1>1, <1>2, PeerNames, NothingSaid, PlainMessages, OtherStep

LEMMA RemoveSocketStep ==
    ASSUME AcceptInv, NEW i \in L!ConnIds, RemoveSocket(i)
    PROVE  AcceptInv'
<1>1. UNCHANGED <<up, accepts, requests, answered>> /\ UNCHANGED forwarding
  BY ListenerQuiet DEF RemoveSocket
<1>2. Send("near", <<Close(i)>>)
  BY DEF RemoveSocket
<1>3. <<Close(i)>> \in Seq(Messages) /\ Sent(<<Close(i)>>) = {Close(i)}
  BY MessagesIn, FewMessages, SentFacts
<1> QED
  BY <1>1, <1>2, <1>3, PeerNames, PlainMessages, OtherStep

\* A step that changes nothing that the invariant is about.
LEMMA NothingStep ==
    ASSUME AcceptInv, UNCHANGED <<up, accepts, requests, answered>>, UNCHANGED forwarding,
           chan' = chan
    PROVE  AcceptInv'
<1>1. Send("far", <<>>)
  <2>1. chan \in [Peers -> Seq(Messages)] /\ chan["near"] \in Seq(Messages)
    BY Parts, PeerNames
  <2>2. chan["near"] \o <<>> = chan["near"]
    BY <2>1, NoMessages
  <2> QED
    BY <2>1, <2>2, PeerNames DEF Send
<1> QED
  BY <1>1, PeerNames, NothingSaid, OtherStep

LEMMA DataFromNearStep ==
    ASSUME AcceptInv, DataFromNear
    PROVE  AcceptInv'
<1>1. /\ UNCHANGED <<up, accepts, requests, answered>> /\ UNCHANGED forwarding
      /\ chan' = chan
  BY ListenerQuiet DEF DataFromNear
<1> QED
  BY <1>1, NothingStep

LEMMA AcceptFailedStep ==
    ASSUME AcceptInv, AcceptFailed
    PROVE  AcceptInv'
<1>1. PICK r \in 1 .. MaxAccepts :
        /\ Receive("near", AcceptError(r)) /\ Handled("near", <<>>)
        /\ slots' = [s \in Slots |-> IF slots[s] = r THEN 0 ELSE slots[s]]
        /\ forwarder' = IF slots' = slots THEN forwarder ELSE "error"
  BY DEF AcceptFailed
<1>2. /\ UNCHANGED <<up, accepts, requests, answered>> /\ rid' = rid /\ nextCall' = nextCall
  BY ListenerQuiet DEF AcceptFailed
<1>3. slots' \in [Slots -> Nat] /\ nextCall' \in Nat
  BY <1>1, <1>2, Parts DEF Typed
<1>4. ~rid => forwarder' # "listening" /\ \A s \in Slots : slots'[s] = 0
  BY <1>1, Parts DEF NoneBefore
<1>5. BothListen' => BothListen /\ slots' = slots
  BY <1>1, <1>2 DEF BothListen
<1>6. AcceptError(r).type \notin {"ACCEPT", "ACCEPT_ok"}
  BY MessageFields
<1> QED
  BY <1>1, <1>2, <1>3, <1>4, <1>5, <1>6, PeerNames, NothingSaid, QuietStep

LEMMA RemoveForwarderStep ==
    ASSUME AcceptInv, RemoveForwarder
    PROVE  AcceptInv'
<1>1. /\ UNCHANGED <<up, accepts, requests, answered>> /\ rid' = rid /\ nextCall' = nextCall
      /\ forwarder' = "gone" /\ slots' = [s \in Slots |-> 0]
  BY ListenerQuiet DEF RemoveForwarder
<1> PICK closing : closing = IF rid THEN <<CloseListener>> ELSE <<>>
  OBVIOUS
<1>2. closing \in Seq(Messages) /\ \A n \in Sent(closing) : Plain(n) /\ n.type # "cancel"
  BY MessagesIn, FewMessages, SentFacts, NothingSaid, PlainMessages
<1>3. ASSUME NEW r \in Nat
      PROVE  /\ Cancels(r) \in Seq(Messages) /\ \A n \in Sent(Cancels(r)) : Plain(n)
             /\ r = 0 => Sent(Cancels(r)) = {}
  BY MessagesIn, FewMessages, SentFacts, NothingSaid, PlainMessages DEF Cancels
<1>4. 1 \in Slots /\ 2 \in Slots /\ slots[1] \in Nat /\ slots[2] \in Nat
  BY Parts DEF Typed, Slots
<1> PICK first : first = Cancels(slots[1])
  OBVIOUS
<1> PICK second : second = Cancels(slots[2])
  OBVIOUS
<1>5. /\ first \in Seq(Messages) /\ second \in Seq(Messages)
      /\ \A n \in Sent(first) \cup Sent(second) : Plain(n)
      /\ ~rid => Sent(first) = {} /\ Sent(second) = {}
  BY <1>3, <1>4, Parts DEF NoneBefore
<1>6. Send("near", (first \o second) \o closing)
  BY DEF RemoveForwarder
<1> PICK both : both = first \o second
  OBVIOUS
<1>7. both \in Seq(Messages) /\ Sent(both) = Sent(first) \cup Sent(second)
  BY <1>5, SentConcat
<1> PICK msgs : msgs = both \o closing
  OBVIOUS
<1>8. msgs \in Seq(Messages) /\ Sent(msgs) = Sent(both) \cup Sent(closing)
  BY <1>2, <1>7, SentConcat
<1>9. /\ \A n \in Sent(msgs) : Plain(n)
      /\ ~rid => \A n \in Sent(msgs) : n.type # "cancel"
  BY <1>2, <1>5, <1>7, <1>8
<1>10. Send("near", msgs)
  BY <1>6
<1>11. slots' \in [Slots -> Nat] /\ nextCall' \in Nat /\ \A s \in Slots : slots'[s] = 0
  BY <1>1, Parts DEF Typed
<1>12. ~BothListen' /\ forwarder' # "listening"
  BY <1>1 DEF BothListen
<1> QED
  BY <1>1, <1>8, <1>9, <1>10, <1>11, <1>12, PeerNames, QuietStep

\* Without a listening socket there is nothing of ACCEPT.
LEMMA HandleSocketStep ==
    ASSUME AcceptInv, HandleSocket
    PROVE  AcceptInv'
<1>1. PICK ok \in BOOLEAN : Receive("far", Socket) /\ Handled("far", <<SocketDone(ok)>>)
  BY DEF HandleSocket
<1>2. UNCHANGED <<up, accepts, requests, answered>> /\ UNCHANGED forwarding
  BY ListenerQuiet DEF HandleSocket
<1>3. /\ SocketDone(ok) \in Messages /\ <<SocketDone(ok)>> \in Seq(Messages)
      /\ Sent(<<SocketDone(ok)>>) = {SocketDone(ok)}
  BY MessagesIn, FewMessages, SentFacts
<1>4. /\ chan' \in [Peers -> Seq(Messages)]
      /\ Far # <<>> /\ Socket = Head(Far) /\ Socket \in Sent(Far)
      /\ Far' = Tail(Far) /\ Near' = Near \o <<SocketDone(ok)>>
      /\ Sent(Far') \subseteq Sent(Far)
      /\ Sent(Near') = Sent(Near) \cup {SocketDone(ok)}
  BY <1>1, <1>3, HandledFacts, PeerNames, Parts DEF Far, Near
<1>5. ~rid /\ \A n \in Sent(Near) : n.type # "SOCKET_done"
  BY <1>4, MessageFields, Parts DEF OneSocketCall
<1>6. Far \in Seq(Messages) /\ Near \in Seq(Messages)
  BY Parts
<1>7. /\ Ordered(Far', SocketFirst)
      /\ \A n \in Sent(Far') : n.type # "SOCKET"
  <2>1. /\ Ordered(Tail(Far), SocketFirst)
        /\ \A n \in Sent(Tail(Far)) : <<Head(Far), n>> \in SocketFirst
    BY <1>4, <1>6, Parts, OrderedTail DEF OneSocketCall
  <2> QED
    BY <1>4, <2>1 DEF SocketFirst
<1>8. Ordered(Near', AnsweredOnce)
  <2>1. Ordered(Near, AnsweredOnce)
    BY Parts DEF OneSocketCall
  <2>2. Ordered(<<SocketDone(ok)>>, AnsweredOnce)
    BY DEF Ordered
  <2>3. \A n \in Sent(Near) : <<n, SocketDone(ok)>> \in AnsweredOnce
    BY <1>3, <1>5, Parts DEF AnsweredOnce, Pairs
  <2>4. Ordered(Near \o <<SocketDone(ok)>>, AnsweredOnce)
    BY <1>3, <1>6, <2>1, <2>2, <2>3, OrderedMore
  <2> QED
    BY <1>4, <2>4
<1>9. OneSocketCall'
  BY <1>2, <1>4, <1>5, <1>7, <1>8 DEF OneSocketCall, forwarding
<1>10. NoneBefore'
  BY <1>2, <1>4, Parts, MessageFields DEF NoneBefore, forwarding
<1>11. Typed'
  BY <1>2, <1>4, Parts DEF Typed, forwarding
<1>12. ~BothListen'
  BY <1>2, <1>5, Parts DEF BothListen, NoneBefore, forwarding
<1> QED
  BY <1>9, <1>10, <1>11, <1>12 DEF AcceptInv

\* Messages that are never the first of a pair keep any order.
LEMMA NoneOrdered ==
    ASSUME NEW q \in Seq(Messages)
    PROVE  /\ (\A m \in Sent(q) : m.type # "ACCEPT") => Ordered(q, CallsRise)
           /\ (\A m \in Sent(q) : m.type # "ACCEPT_ok") => Ordered(q, AnswersDiffer)
<1>1. \A i \in DOMAIN q : q[i] \in Messages /\ q[i] \in Sent(q)
  BY DEF Sent
<1> QED
  BY <1>1 DEF Ordered, CallsRise, AnswersDiffer, Pairs

\* The forwarder handles a message.
LEMMA NearHandles ==
    ASSUME chan \in [Peers -> Seq(Messages)], NEW m, NEW msgs \in Seq(Messages),
           Receive("near", m), Handled("near", msgs)
    PROVE  /\ chan' \in [Peers -> Seq(Messages)]
           /\ Near # <<>> /\ m = Head(Near) /\ m \in Sent(Near) /\ m \in Messages
           /\ Near' = Tail(Near) /\ Near' \in Seq(Messages)
           /\ Sent(Near') \subseteq Sent(Near) /\ Sent(Near) \subseteq Sent(Near') \cup {m}
           /\ Far' = Far \o msgs /\ Far' \in Seq(Messages)
           /\ Sent(Far') = Sent(Far) \cup Sent(msgs)
BY HandledFacts, PeerNames DEF Far, Near

\* The far peer handles one.
LEMMA FarHandles ==
    ASSUME chan \in [Peers -> Seq(Messages)], NEW m, NEW msgs \in Seq(Messages),
           Receive("far", m), Handled("far", msgs)
    PROVE  /\ chan' \in [Peers -> Seq(Messages)]
           /\ Far # <<>> /\ m = Head(Far) /\ m \in Sent(Far) /\ m \in Messages
           /\ Far' = Tail(Far) /\ Far' \in Seq(Messages)
           /\ Sent(Far') \subseteq Sent(Far) /\ Sent(Far) \subseteq Sent(Far') \cup {m}
           /\ Near' = Near \o msgs /\ Near' \in Seq(Messages)
           /\ Sent(Near') = Sent(Near) \cup Sent(msgs)
BY HandledFacts, PeerNames DEF Far, Near

\* The listening socket is open: the first two ACCEPTs go there.
LEMMA ListeningStep ==
    ASSUME AcceptInv, P!ListenInv, Receive("near", SocketDone(TRUE)),
           forwarder' = "listening", rid' = TRUE,
           slots' = [s \in Slots |-> s], nextCall' = Cardinality(Slots) + 1,
           Handled("near", <<AcceptCall(1), AcceptCall(2)>>), UNCHANGED listening
    PROVE  AcceptInv'
<1> PICK msgs : msgs = <<AcceptCall(1), AcceptCall(2)>>
  OBVIOUS
<1>1. /\ AcceptCall(1) \in Messages /\ AcceptCall(2) \in Messages
      /\ msgs \in Seq(Messages) /\ Sent(msgs) = {AcceptCall(1), AcceptCall(2)}
      /\ DOMAIN msgs = {1, 2} /\ msgs[1] = AcceptCall(1) /\ msgs[2] = AcceptCall(2)
  BY MessagesIn, FewMessages, SentFacts
<1>2. /\ chan' \in [Peers -> Seq(Messages)]
      /\ Near # <<>> /\ SocketDone(TRUE) = Head(Near) /\ SocketDone(TRUE) \in Sent(Near)
      /\ Near' = Tail(Near) /\ Far' = Far \o msgs
      /\ Sent(Near') \subseteq Sent(Near)
      /\ Sent(Far') = Sent(Far) \cup {AcceptCall(1), AcceptCall(2)}
  BY <1>1, NearHandles, Parts
<1>3. ~rid /\ \A n \in Sent(Far) : n.type # "SOCKET"
  BY <1>2, MessageFields, Parts DEF OneSocketCall
<1>4. /\ requests = 0 /\ \A n \in Sent(Far) : n.type \notin {"ACCEPT", "cancel"}
      /\ \A n \in Sent(Near) : n.type # "ACCEPT_ok"
  BY <1>3, Parts DEF NoneBefore
<1>5. Far \in Seq(Messages) /\ Near \in Seq(Messages)
  BY Parts
<1>6. UNCHANGED <<up, accepts, requests, answered>>
  BY ListenerQuiet
<1>7. nextCall' = 3
  BY Bounds
<1>8. Typed'
  BY <1>2, <1>7 DEF Typed, Slots
<1>9. OneSocketCall'
  <2>1. /\ Ordered(Tail(Near), AnsweredOnce)
        /\ \A n \in Sent(Tail(Near)) : <<Head(Near), n>> \in AnsweredOnce
    BY <1>2, <1>5, Parts, OrderedTail DEF OneSocketCall
  <2>2. \A n \in Sent(Near') : n.type # "SOCKET_done"
    <3>1. SocketDone(TRUE).type = "SOCKET_done"
      BY MessageFields
    <3>2. \A n \in Sent(Near') : <<SocketDone(TRUE), n>> \in AnsweredOnce
      BY <1>2, <2>1
    <3> QED
      BY <3>1, <3>2 DEF AnsweredOnce
  <2>3. Ordered(msgs, SocketFirst)
    BY <1>1, MessageFields DEF Ordered, SocketFirst, Pairs
  <2>4. \A m \in Sent(Far), n \in Sent(msgs) : <<m, n>> \in SocketFirst
    BY <1>1, MessageFields, Parts DEF SocketFirst, Pairs
  <2>5. Ordered(Far, SocketFirst)
    BY Parts DEF OneSocketCall
  <2>6. Ordered(Far', SocketFirst)
    BY <1>1, <1>2, <1>5, <2>3, <2>4, <2>5, OrderedMore
  <2> QED
    BY <1>2, <1>3, <2>1, <2>2, <2>6, MessageFields DEF OneSocketCall
<1>10. NoneBefore'
  BY DEF NoneBefore
<1>11. CallsUnderway'
  <2>1. Ordered(Far, CallsRise)
    BY <1>4, <1>5, NoneOrdered
  <2>2. Ordered(msgs, CallsRise)
    BY <1>1, MessageFields DEF Ordered, CallsRise, Pairs
  <2>3. \A m \in Sent(Far), n \in Sent(msgs) : <<m, n>> \in CallsRise
    BY <1>1, <1>4, Parts DEF CallsRise, Pairs
  <2>4. Ordered(Far', CallsRise)
    BY <1>1, <1>2, <1>5, <2>1, <2>2, <2>3, OrderedMore
  <2>5. \A q \in Nat : requests' < q /\ q < nextCall' => AcceptCall(q) \in Sent(Far')
    <3>1. \A q \in Nat : requests' < q /\ q < nextCall' => q = 1 \/ q = 2
      BY <1>4, <1>6, <1>7
    <3>2. AcceptCall(1) \in Sent(Far') /\ AcceptCall(2) \in Sent(Far')
      BY <1>2
    <3> QED
      BY <3>1, <3>2
  <2>6. Held(1)' /\ Held(2)'
    BY DEF Held, Slots
  <2>7. \A m \in Sent(Far') :
          /\ m.type # "cancel"
          /\ m.type = "ACCEPT" => requests' < m.call /\ m.call < nextCall' /\ Held(m.call)'
    <3>1. \A m \in Sent(Far') : m \in Sent(Far) \/ m = AcceptCall(1) \/ m = AcceptCall(2)
      BY <1>2
    <3>2. \A r : AcceptCall(r).type = "ACCEPT" /\ AcceptCall(r).call = r
      BY MessageFields
    <3>3. requests' < 1 /\ requests' < 2 /\ 1 < nextCall' /\ 2 < nextCall'
      BY <1>4, <1>6, <1>7
    <3>4. \A m \in Sent(Far) : m.type \notin {"ACCEPT", "cancel"}
      BY <1>4
    <3> QED
      BY <2>6, <3>1, <3>2, <3>3, <3>4
  <2> QED
    BY <2>4, <2>5, <2>7 DEF CallsUnderway
<1>12. AnswersUnderway'
  <2>1. \A n \in Sent(Near') : n.type # "ACCEPT_ok"
    BY <1>2, <1>4
  <2>2. Near' \in Seq(Messages)
    BY <1>2, PeerNames DEF Near
  <2>3. Ordered(Near', AnswersDiffer)
    BY <2>1, <2>2, NoneOrdered
  <2> QED
    BY <2>1, <2>3 DEF AnswersUnderway
<1>13. QueueHeld'
  <2>1. Sent(accepts) = {}
    BY <1>4, RequestFacts
  <2>2. \A s \in Slots : ~(slots'[s] <= requests')
    BY <1>4, <1>6 DEF Slots
  <2> QED
    BY <1>6, <2>1, <2>2 DEF QueueHeld
<1>14. SlotsOK'
  BY <1>7 DEF SlotsOK, Slots
<1>15. requests' < nextCall'
  BY <1>4, <1>6, <1>7
<1> QED
  BY <1>8, <1>9, <1>10, <1>11, <1>12, <1>13, <1>14, <1>15 DEF AcceptInv

LEMMA SocketCompleteStep ==
    ASSUME AcceptInv, P!ListenInv, SocketComplete
    PROVE  AcceptInv'
<1>1. PICK ok \in BOOLEAN :
        /\ Receive("near", SocketDone(ok))
        /\ \/ /\ Handled("near", <<>>) /\ rid' = rid /\ slots' = slots /\ nextCall' = nextCall
              /\ forwarder' = forwarder \/ forwarder' = "error"
           \/ /\ ok /\ forwarder' = "listening" /\ rid' = TRUE
              /\ slots' = [s \in Slots |-> s] /\ nextCall' = Cardinality(Slots) + 1
              /\ Handled("near", <<AcceptCall(1), AcceptCall(2)>>)
        /\ UNCHANGED listening
  BY DEF SocketComplete, forwarding
<1>2. CASE /\ Handled("near", <<>>) /\ rid' = rid /\ slots' = slots /\ nextCall' = nextCall
           /\ forwarder' = forwarder \/ forwarder' = "error"
  <2>1. UNCHANGED <<up, accepts, requests, answered>>
    BY <1>1, ListenerQuiet
  <2>2. slots' \in [Slots -> Nat] /\ nextCall' \in Nat
    BY <1>2, Parts DEF Typed
  <2>3. ~rid => forwarder' # "listening" /\ \A s \in Slots : slots'[s] = 0
    BY <1>2, Parts DEF NoneBefore
  <2>4. BothListen' => BothListen
    BY <1>2, <2>1 DEF BothListen
  <2>5. SocketDone(ok).type \notin {"ACCEPT", "ACCEPT_ok"}
    BY MessageFields
  <2> QED
    BY <1>1, <1>2, <2>1, <2>2, <2>3, <2>4, <2>5, PeerNames, NothingSaid, QuietStep
<1>3. CASE /\ ok /\ forwarder' = "listening" /\ rid' = TRUE
           /\ slots' = [s \in Slots |-> s] /\ nextCall' = Cardinality(Slots) + 1
           /\ Handled("near", <<AcceptCall(1), AcceptCall(2)>>)
  <2>1. Receive("near", SocketDone(TRUE))
    BY <1>1, <1>3
  <2> QED
    BY <1>1, <1>3, <2>1, ListeningStep
<1> QED
  BY <1>1, <1>2, <1>3

\* The answer to a request goes after CLOSE for some connections.
LEMMA AnswerTold ==
    ASSUME AcceptInv, NEW closes \in Seq(Messages), \A m \in Sent(closes) : m.type = "CLOSE",
           NEW r \in Nat, NEW i \in L!ConnIds
    PROVE  \E msgs :
           /\ msgs = closes \o <<AcceptOk(r, i)>>
           /\ msgs \in Seq(Messages) /\ Sent(msgs) = Sent(closes) \cup {AcceptOk(r, i)}
           /\ Ordered(Near \o msgs, AnsweredOnce)
           /\ (/\ Ordered(Near, AnswersDiffer)
               /\ \A m \in Sent(Near) : m.type = "ACCEPT_ok" => m.call # r)
              => Ordered(Near \o msgs, AnswersDiffer)
<1> PICK ok : ok = AcceptOk(r, i)
  OBVIOUS
<1>1. ok \in Messages /\ ok.type = "ACCEPT_ok" /\ ok.call = r
  BY MessagesIn, MessageFields
<1>2. <<ok>> \in Seq(Messages) /\ Sent(<<ok>>) = {ok}
  BY <1>1, FewMessages, SentFacts
<1>3. Near \in Seq(Messages) /\ Near \o closes \in Seq(Messages)
      /\ Sent(Near \o closes) = Sent(Near) \cup Sent(closes)
      /\ closes \o <<ok>> \in Seq(Messages)
      /\ Sent(closes \o <<ok>>) = Sent(closes) \cup Sent(<<ok>>)
  BY <1>2, Parts, SentConcat
<1>4. Near \o (closes \o <<ok>>) = (Near \o closes) \o <<ok>>
  BY <1>2, <1>3, ConcatAssociative
<1>5. \A R \in Orders : Ordered(Near, R) => Ordered(Near \o closes, R)
  <2>1. \A m \in Sent(closes) : Plain(m)
    BY DEF Plain
  <2> QED
    BY <1>3, <2>1, PlainMore
<1>6. AnsweredOnce \in Orders /\ AnswersDiffer \in Orders
  BY DEF Orders
<1>7. \A R : Ordered(<<ok>>, R)
  BY DEF Ordered
<1>8. \A m \in Sent(closes) : m \in Messages
  BY DEF Sent
<1>9. Ordered((Near \o closes) \o <<ok>>, AnsweredOnce)
  <2>1. Ordered(Near \o closes, AnsweredOnce)
    BY <1>5, <1>6, Parts DEF OneSocketCall
  <2>2. \A m \in Sent(Near \o closes), n \in Sent(<<ok>>) : <<m, n>> \in AnsweredOnce
    BY <1>1, <1>2, <1>3, <1>8, Parts DEF AnsweredOnce, Pairs
  <2> QED
    BY <1>2, <1>3, <1>7, <2>1, <2>2, OrderedMore
<1>10. ASSUME Ordered(Near, AnswersDiffer),
              \A m \in Sent(Near) : m.type = "ACCEPT_ok" => m.call # r
       PROVE  Ordered((Near \o closes) \o <<ok>>, AnswersDiffer)
  <2>1. Ordered(Near \o closes, AnswersDiffer)
    BY <1>5, <1>6, <1>10
  <2>2. \A m \in Sent(Near \o closes), n \in Sent(<<ok>>) : <<m, n>> \in AnswersDiffer
    BY <1>1, <1>2, <1>3, <1>8, <1>10, Parts DEF AnswersDiffer, Pairs
  <2> QED
    BY <1>2, <1>3, <1>7, <2>1, <2>2, OrderedMore
<1> QED
  BY <1>2, <1>3, <1>4, <1>9, <1>10

\* The last request that has been answered.
LEMMA LastAnswered ==
    ASSUME NEW q \in Seq(Nat), NEW x \in Nat
    PROVE  Last(Append(q, x)) = x /\ Append(q, x) # q
<1>1. Len(Append(q, x)) = Len(q) + 1 /\ Append(q, x)[Len(q) + 1] = x /\ Len(q) \in Nat
  OBVIOUS
<1> QED
  BY <1>1 DEF Last

LEMMA AnsweredQueue ==
    ASSUME P!ListenInv
    PROVE  answered \in Seq(Nat) /\ accepts \in Seq(Nat)
<1>1. answered \in Seq(1 .. MaxAccepts) /\ accepts \in Seq(1 .. MaxAccepts)
  BY RequestFacts
<1>2. /\ \A k \in 1 .. Len(answered) : answered[k] \in Nat
      /\ \A k \in 1 .. Len(accepts) : accepts[k] \in Nat
  <2>1. \A r \in 1 .. MaxAccepts : r \in Nat
    BY Bounds
  <2>2. /\ \A k \in 1 .. Len(answered) : answered[k] \in 1 .. MaxAccepts
        /\ \A k \in 1 .. Len(accepts) : accepts[k] \in 1 .. MaxAccepts
    BY <1>1, SeqElements
  <2> QED
    BY <2>1, <2>2
<1>3. \A q \in Seq(1 .. MaxAccepts) : (\A k \in 1 .. Len(q) : q[k] \in Nat) => q \in Seq(Nat)
  OBVIOUS
<1> QED
  BY <1>1, <1>2, <1>3

\* What is told when the request x has been answered.
LEMMA AnswerStep ==
    ASSUME AcceptInv, P!ListenInv, NEW x \in Nat, nextId <= MaxId,
           answered' = Append(answered, x)
    PROVE  \E closes \in Seq(Messages), i \in L!ConnIds :
            /\ \A m \in Sent(closes) : m.type = "CLOSE"
            /\ Told = closes \o <<AcceptOk(x, i)>>
<1>1. Last(answered') = x /\ answered' # answered
  BY AnsweredQueue, LastAnswered
<1>2. nextId \in L!ConnIds
  BY RequestFacts, BoundAssumption DEF L!ConnIds
<1> QED
  BY <1>1, <1>2, ToldFacts

\* A packet completes the request that has waited longest.
LEMMA ReceiveAcceptStep ==
    ASSUME AcceptInv, P!ListenInv, NEW a, L!ReceiveAccept(a), Send("far", Told),
           UNCHANGED forwarding
    PROVE  AcceptInv'
<1>1. /\ accepts # <<>> /\ accepts' = Tail(accepts) /\ answered' = Append(answered, Head(accepts))
      /\ up' = up /\ requests' = requests /\ nextId <= MaxId
  BY DEF L!ReceiveAccept, L!ConnectionNew, L!Arrives
<1>2. PICK x \in Nat :
        /\ x \in Sent(accepts)
        /\ Sent(Tail(accepts)) \subseteq Sent(accepts)
        /\ Sent(accepts) \subseteq Sent(Tail(accepts)) \cup {x}
        /\ Sent(answered') = Sent(answered) \cup {x}
        /\ answered' = Append(answered, x)
  <2>1. accepts \in Seq(Nat) /\ answered \in Seq(Nat)
    BY AnsweredQueue
  <2>2. /\ Head(accepts) \in Nat /\ Head(accepts) \in Sent(accepts)
        /\ Sent(Tail(accepts)) \subseteq Sent(accepts)
        /\ Sent(accepts) \subseteq Sent(Tail(accepts)) \cup {Head(accepts)}
    BY <1>1, <2>1, SentQueues
  <2>3. \A r \in Nat : Sent(Append(answered, r)) = Sent(answered) \cup {r}
    BY <2>1, SentQueues
  <2> QED
    BY <1>1, <2>2, <2>3
<1>4. PICK closes \in Seq(Messages), i \in L!ConnIds :
        /\ \A m \in Sent(closes) : m.type = "CLOSE"
        /\ Told = closes \o <<AcceptOk(x, i)>>
  BY <1>1, <1>2, AnswerStep
<1>5. PICK msgs :
        /\ msgs = closes \o <<AcceptOk(x, i)>>
        /\ msgs \in Seq(Messages) /\ Sent(msgs) = Sent(closes) \cup {AcceptOk(x, i)}
        /\ Ordered(Near \o msgs, AnsweredOnce)
        /\ (/\ Ordered(Near, AnswersDiffer)
            /\ \A m \in Sent(Near) : m.type = "ACCEPT_ok" => m.call # x)
           => Ordered(Near \o msgs, AnswersDiffer)
  <2>1. x \in Nat /\ \A m \in Sent(closes) : m.type = "CLOSE"
    BY <1>2, <1>4
  <2> QED
    BY <2>1, AnswerTold
<1>6. /\ chan' \in [Peers -> Seq(Messages)]
      /\ Far' = Far /\ Near' = Near \o msgs
      /\ Sent(Near') = Sent(Near) \cup Sent(msgs)
  <2>1. Send("far", msgs)
    BY <1>4, <1>5
  <2> QED
    BY <1>5, <2>1, SendFacts, PeerNames, Parts DEF Far, Near
<1>7. AcceptOk(x, i).type = "ACCEPT_ok" /\ AcceptOk(x, i).call = x
  BY MessageFields
<1>8. rid
  <2>1. x \in Nat /\ 1 <= x /\ x <= requests /\ requests \in Nat
    BY <1>2, RequestFacts, Bounds
  <2> QED
    BY <2>1, Parts DEF NoneBefore
<1>9. /\ slots' = slots /\ nextCall' = nextCall /\ rid' = rid /\ forwarder' = forwarder
  BY DEF forwarding
<1>10. Typed'
  BY <1>6, <1>9, Parts DEF Typed
<1>11. OneSocketCall'
  BY <1>4, <1>5, <1>6, <1>7, <1>8, <1>9, Parts DEF OneSocketCall
<1>12. NoneBefore'
  BY <1>8, <1>9 DEF NoneBefore
<1>13. ASSUME BothListen'
       PROVE  (requests < nextCall /\ CallsUnderway /\ AnswersUnderway /\ QueueHeld /\ SlotsOK)'
  <2>1. requests < nextCall /\ CallsUnderway /\ AnswersUnderway /\ QueueHeld /\ SlotsOK
    BY <1>1, <1>9, <1>13 DEF AcceptInv, BothListen
  <2>2. CallsUnderway' /\ SlotsOK' /\ requests' < nextCall'
    BY <1>1, <1>6, <1>9, <2>1 DEF CallsUnderway, SlotsOK, Held
  <2>3. \A m \in Sent(Near) : m.type = "ACCEPT_ok" => m.call # x
    <3>1. \A r \in Sent(answered) : r < x /\ r \in Nat
      BY <1>2, RequestFacts
    <3> QED
      BY <1>2, <2>1, <3>1 DEF AnswersUnderway
  <2>4. AnswersUnderway'
    <3>1. Ordered(Near', AnswersDiffer)
      BY <1>5, <1>6, <2>1, <2>3 DEF AnswersUnderway
    <3>2. Held(x)
      BY <1>2, <2>1 DEF QueueHeld
    <3>3. \A m \in Sent(Near') : m.type = "ACCEPT_ok" => m.call \in Sent(answered') /\ Held(m.call)
      BY <1>2, <1>4, <1>5, <1>6, <1>7, <2>1, <3>2 DEF AnswersUnderway
    <3> QED
      BY <1>9, <3>1, <3>3 DEF AnswersUnderway, Held
  <2>5. QueueHeld'
    <3>1. Sent(accepts') \subseteq Sent(accepts) /\ Sent(accepts) \subseteq Sent(accepts') \cup {x}
      BY <1>1, <1>2
    <3>2. AcceptOk(x, i) \in Sent(Near') /\ Sent(Near) \subseteq Sent(Near')
      BY <1>5, <1>6
    <3> QED
      BY <1>1, <1>9, <2>1, <3>1, <3>2 DEF QueueHeld, Held
  <2> QED
    BY <2>2, <2>4, <2>5
<1> QED
  BY <1>10, <1>11, <1>12, <1>13 DEF AcceptInv

LEMMA ListenerEventStep ==
    ASSUME AcceptInv, P!ListenInv, ListenerEvent
    PROVE  AcceptInv'
<1>1. Send("far", Told) /\ UNCHANGED forwarding
  BY DEF ListenerEvent
<1>2. UNCHANGED <<up, accepts, requests, answered>> \/ \E a : L!ReceiveAccept(a)
  BY ListenerQuiet DEF ListenerEvent
<1> QED
  BY <1>1, <1>2, ListenerQuietStep, ReceiveAcceptStep

\* The request that arrives is the first that is not counted yet, and those
\* behind it come later.
LEMMA NextArrives ==
    ASSUME AcceptInv, P!ListenInv, BothListen, NEW r \in Nat,
           Far # <<>>, AcceptCall(r) = Head(Far),
           Far' = Tail(Far), requests' = requests + 1, nextCall' = nextCall, slots' = slots
    PROVE  r = requests + 1 /\ r < nextCall /\ Held(r) /\ CallsUnderway'
<1>1. CallsUnderway /\ requests < nextCall /\ requests \in Nat /\ nextCall \in Nat
  BY RequestFacts, Parts DEF AcceptInv, Typed
<1>2. Far \in Seq(Messages)
  BY Parts
<1>3. /\ AcceptCall(r) \in Sent(Far) /\ Far' \in Seq(Messages)
      /\ Sent(Far') \subseteq Sent(Far)
      /\ Sent(Far) \subseteq Sent(Far') \cup {AcceptCall(r)}
  BY <1>2, SentTail
<1>4. /\ Ordered(Far', CallsRise)
      /\ \A m \in Sent(Far') : <<AcceptCall(r), m>> \in CallsRise
  BY <1>1, <1>2, OrderedTail DEF CallsUnderway
<1>5. \A q : AcceptCall(q).type = "ACCEPT" /\ AcceptCall(q).call = q
  BY MessageFields
<1>6. \A m \in Sent(Far') : m.type = "ACCEPT" => r < m.call
  BY <1>4, <1>5 DEF CallsRise
<1>7. requests < r /\ r < nextCall /\ Held(r)
  BY <1>1, <1>3, <1>5 DEF CallsUnderway
<1>8. r = requests + 1
  <2>1. CASE requests + 1 < r
    <3>1. AcceptCall(requests + 1) \in Sent(Far)
      BY <1>1, <1>7, <2>1 DEF CallsUnderway
    <3>2. AcceptCall(requests + 1) # AcceptCall(r)
      BY <1>1, <1>5, <2>1
    <3>3. r < requests + 1
      BY <1>3, <1>5, <1>6, <3>1, <3>2
    <3> QED
      BY <1>1, <2>1, <3>3
  <2> QED
    BY <1>1, <1>7, <2>1
<1>9. \A q \in Nat : requests' < q /\ q < nextCall' => AcceptCall(q) \in Sent(Far')
  <2> SUFFICES ASSUME NEW q \in Nat, requests + 1 < q, q < nextCall
               PROVE  AcceptCall(q) \in Sent(Far')
    OBVIOUS
  <2>1. AcceptCall(q) \in Sent(Far)
    BY <1>1 DEF CallsUnderway
  <2>2. AcceptCall(q) # AcceptCall(r)
    BY <1>1, <1>5, <1>8
  <2> QED
    BY <1>3, <2>1, <2>2
<1>10. \A m \in Sent(Far') :
        /\ m.type # "cancel"
        /\ m.type = "ACCEPT" => requests' < m.call /\ m.call < nextCall' /\ Held(m.call)'
  BY <1>1, <1>3, <1>6, <1>8 DEF CallsUnderway, Held
<1> QED
  BY <1>4, <1>7, <1>8, <1>9, <1>10 DEF CallsUnderway

\* A request finds a packet that waits for it.
LEMMA AcceptAnsweredStep ==
    ASSUME AcceptInv, P!ListenInv, NEW r \in Nat, Receive("far", AcceptCall(r)),
           Handled("far", Told), UNCHANGED forwarding, nextId <= MaxId,
           up' = up, requests' = requests + 1, accepts' = accepts,
           answered' = Append(answered, requests + 1)
    PROVE  AcceptInv'
<1>1. PICK x \in Nat : x = requests + 1
  BY RequestFacts
<1>2. answered' = Append(answered, x) /\ Sent(answered') = Sent(answered) \cup {x}
  <2>1. \A q \in Nat : Sent(Append(answered, q)) = Sent(answered) \cup {q}
    BY AnsweredQueue, SentQueues
  <2> QED
    BY <1>1, <2>1
<1>4. PICK closes \in Seq(Messages), i \in L!ConnIds :
        /\ \A m \in Sent(closes) : m.type = "CLOSE"
        /\ Told = closes \o <<AcceptOk(x, i)>>
  BY <1>2, AnswerStep
<1>5. PICK msgs :
        /\ msgs = closes \o <<AcceptOk(x, i)>>
        /\ msgs \in Seq(Messages) /\ Sent(msgs) = Sent(closes) \cup {AcceptOk(x, i)}
        /\ Ordered(Near \o msgs, AnsweredOnce)
        /\ (/\ Ordered(Near, AnswersDiffer)
            /\ \A m \in Sent(Near) : m.type = "ACCEPT_ok" => m.call # x)
           => Ordered(Near \o msgs, AnswersDiffer)
  <2>1. x \in Nat /\ \A m \in Sent(closes) : m.type = "CLOSE"
    BY <1>4
  <2> QED
    BY <2>1, AnswerTold
<1>6. /\ chan' \in [Peers -> Seq(Messages)]
      /\ Far # <<>> /\ AcceptCall(r) = Head(Far) /\ AcceptCall(r) \in Sent(Far)
      /\ Far' = Tail(Far) /\ Near' = Near \o msgs
      /\ Sent(Far') \subseteq Sent(Far)
      /\ Sent(Near') = Sent(Near) \cup Sent(msgs)
  <2>1. Handled("far", msgs)
    BY <1>4, <1>5
  <2> QED
    BY <1>5, <2>1, FarHandles, Parts
<1>7. AcceptOk(x, i).type = "ACCEPT_ok" /\ AcceptOk(x, i).call = x
  BY MessageFields
<1>8. rid
  BY <1>6, MessageFields, Parts DEF NoneBefore
<1>9. /\ slots' = slots /\ nextCall' = nextCall /\ rid' = rid /\ forwarder' = forwarder
  BY DEF forwarding
<1>10. Typed'
  BY <1>6, <1>9, Parts DEF Typed
<1>11. OneSocketCall'
  <2>1. Ordered(Far', SocketFirst)
    BY <1>6, Parts, OrderedTail DEF OneSocketCall
  <2> QED
    BY <1>4, <1>5, <1>6, <1>7, <1>8, <1>9, <2>1, Parts DEF OneSocketCall
<1>12. NoneBefore'
  BY <1>8, <1>9 DEF NoneBefore
<1>13. ASSUME BothListen'
       PROVE  (requests < nextCall /\ CallsUnderway /\ AnswersUnderway /\ QueueHeld /\ SlotsOK)'
  <2>0. BothListen
    BY <1>9, <1>13 DEF BothListen
  <2>1. requests < nextCall /\ CallsUnderway /\ AnswersUnderway /\ QueueHeld /\ SlotsOK
    BY <2>0 DEF AcceptInv
  <2>2. r = x /\ x < nextCall /\ Held(x) /\ CallsUnderway'
    BY <1>1, <1>6, <1>9, <2>0, NextArrives
  <2>3. \A m \in Sent(Near) : m.type = "ACCEPT_ok" => m.call # x
    <3>1. \A q \in Sent(answered) : q # x
      BY <1>1, RequestFacts, Bounds
    <3> QED
      BY <2>1, <3>1 DEF AnswersUnderway
  <2>4. AnswersUnderway'
    <3>1. Ordered(Near', AnswersDiffer)
      BY <1>5, <1>6, <2>1, <2>3 DEF AnswersUnderway
    <3>3. \A m \in Sent(Near') : m.type = "ACCEPT_ok" => m.call \in Sent(answered') /\ Held(m.call)
      BY <1>2, <1>4, <1>5, <1>6, <1>7, <2>1, <2>2 DEF AnswersUnderway
    <3> QED
      BY <1>9, <3>1, <3>3 DEF AnswersUnderway, Held
  <2>5. QueueHeld'
    <3>1. \A s \in Slots : slots[s] <= x => slots[s] <= requests \/ slots[s] = x
      BY <1>1, RequestFacts, Parts DEF Typed
    <3>2. AcceptOk(x, i) \in Sent(Near') /\ Sent(Near) \subseteq Sent(Near')
      BY <1>5, <1>6
    <3> QED
      BY <1>1, <1>9, <2>1, <3>1, <3>2 DEF QueueHeld, Held
  <2> QED
    BY <1>1, <1>9, <2>1, <2>2, <2>4, <2>5 DEF SlotsOK
<1> QED
  BY <1>10, <1>11, <1>12, <1>13 DEF AcceptInv

\* A request has to wait.
LEMMA AcceptQueuedStep ==
    ASSUME AcceptInv, P!ListenInv, NEW r \in Nat, Receive("far", AcceptCall(r)),
           Handled("far", Told), UNCHANGED forwarding, answered' = answered,
           up' = up, requests' = requests + 1, accepts' = Append(accepts, requests + 1)
    PROVE  AcceptInv'
<1>1. PICK x \in Nat : x = requests + 1
  BY RequestFacts
<1>2. Sent(accepts') = Sent(accepts) \cup {x}
  <2>1. \A q \in Nat : Sent(Append(accepts, q)) = Sent(accepts) \cup {q}
    BY AnsweredQueue, SentQueues
  <2> QED
    BY <1>1, <2>1
<1>3. Told \in Seq(Messages) /\ \A n \in Sent(Told) : Plain(n)
  BY ToldPlain
<1>4. /\ chan' \in [Peers -> Seq(Messages)]
      /\ Far # <<>> /\ AcceptCall(r) = Head(Far) /\ AcceptCall(r) \in Sent(Far)
      /\ Far' = Tail(Far) /\ Near' = Near \o Told
      /\ Sent(Far') \subseteq Sent(Far)
      /\ Sent(Near') = Sent(Near) \cup Sent(Told)
  BY <1>3, FarHandles, Parts
<1>5. \A R \in Orders : Ordered(Near, R) => Ordered(Near', R)
  BY <1>3, <1>4, Parts, PlainMore
<1>6. AnsweredOnce \in Orders /\ AnswersDiffer \in Orders
  BY DEF Orders
<1>8. rid
  BY <1>4, MessageFields, Parts DEF NoneBefore
<1>9. /\ slots' = slots /\ nextCall' = nextCall /\ rid' = rid /\ forwarder' = forwarder
  BY DEF forwarding
<1>10. Typed'
  BY <1>4, <1>9, Parts DEF Typed
<1>11. OneSocketCall'
  <2>1. Ordered(Far', SocketFirst)
    BY <1>4, Parts, OrderedTail DEF OneSocketCall
  <2>2. Ordered(Near', AnsweredOnce)
    BY <1>5, <1>6, Parts DEF OneSocketCall
  <2> QED
    BY <1>3, <1>4, <1>8, <1>9, <2>1, <2>2, Parts DEF OneSocketCall, Plain
<1>12. NoneBefore'
  BY <1>8, <1>9 DEF NoneBefore
<1>13. ASSUME BothListen'
       PROVE  (requests < nextCall /\ CallsUnderway /\ AnswersUnderway /\ QueueHeld /\ SlotsOK)'
  <2>0. BothListen
    BY <1>9, <1>13 DEF BothListen
  <2>1. requests < nextCall /\ CallsUnderway /\ AnswersUnderway /\ QueueHeld /\ SlotsOK
    BY <2>0 DEF AcceptInv
  <2>2. r = x /\ x < nextCall /\ Held(x) /\ CallsUnderway'
    BY <1>1, <1>4, <1>9, <2>0, NextArrives
  <2>4. AnswersUnderway'
    <3>1. Ordered(Near', AnswersDiffer)
      BY <1>5, <1>6, <2>1 DEF AnswersUnderway
    <3> QED
      BY <1>3, <1>4, <1>9, <2>1, <3>1 DEF AnswersUnderway, Held, Plain
  <2>5. QueueHeld'
    <3>1. \A s \in Slots : slots[s] <= x => slots[s] <= requests \/ slots[s] = x
      BY <1>1, RequestFacts, Parts DEF Typed
    <3> QED
      BY <1>1, <1>2, <1>4, <1>9, <2>1, <2>2, <3>1 DEF QueueHeld, Held
  <2> QED
    BY <1>1, <1>9, <2>1, <2>2, <2>4, <2>5 DEF SlotsOK
<1> QED
  BY <1>10, <1>11, <1>12, <1>13 DEF AcceptInv

LEMMA HandleAcceptStep ==
    ASSUME AcceptInv, P!ListenInv, HandleAccept
    PROVE  AcceptInv'
<1>1. PICK r \in 1 .. MaxAccepts :
        /\ Receive("far", AcceptCall(r)) /\ UNCHANGED forwarding
        /\ \/ L!HandleAccept /\ Handled("far", Told)
           \/ ~up /\ Handled("far", <<AcceptError(r)>>) /\ UNCHANGED listening
  BY DEF HandleAccept
<1>2. r \in Nat
  BY Bounds
<1>3. CASE L!HandleAccept /\ Handled("far", Told)
  <2>1. up' = up /\ requests' = requests + 1
    BY <1>3 DEF L!HandleAccept
  <2>2. \/ /\ nextId <= MaxId /\ accepts' = accepts
           /\ answered' = Append(answered, requests + 1)
        \/ accepts' = Append(accepts, requests + 1) /\ answered' = answered
    BY <1>3 DEF L!HandleAccept, L!ConnectionNew
  <2> QED
    BY <1>1, <1>2, <1>3, <2>1, <2>2, AcceptAnsweredStep, AcceptQueuedStep
<1>4. CASE ~up /\ Handled("far", <<AcceptError(r)>>) /\ UNCHANGED listening
  <2>1. UNCHANGED <<up, accepts, requests, answered>>
    BY <1>4, ListenerQuiet
  <2>2. /\ slots' = slots /\ nextCall' = nextCall /\ rid' = rid /\ forwarder' = forwarder
    BY <1>1 DEF forwarding
  <2>3. slots' \in [Slots -> Nat] /\ nextCall' \in Nat
    BY <2>2, Parts DEF Typed
  <2>4. ~rid => forwarder' # "listening" /\ \A s \in Slots : slots'[s] = 0
    BY <2>2, Parts DEF NoneBefore
  <2>5. /\ <<AcceptError(r)>> \in Seq(Messages)
        /\ \A n \in Sent(<<AcceptError(r)>>) : Plain(n) /\ n.type # "cancel"
    BY <1>2, MessagesIn, FewMessages, SentFacts, PlainMessages
  <2>6. ~BothListen'
    BY <1>4, <2>1 DEF BothListen
  <2>7. Receive("far", AcceptCall(r)) /\ Handled("far", <<AcceptError(r)>>)
    BY <1>1, <1>4
  <2> QED
    BY <2>1, <2>2, <2>3, <2>4, <2>5, <2>6, <2>7, PeerNames, QuietStep
<1> QED
  BY <1>1, <1>3, <1>4

\* The answer to an ACCEPT is replaced by the next ACCEPT.
LEMMA ForwardStep ==
    ASSUME AcceptInv, P!ListenInv, NEW r \in Nat, r # 0, NEW i \in L!ConnIds, NEW s \in Slots,
           Receive("near", AcceptOk(r, i)), slots[s] = r, Forward(i, s),
           UNCHANGED listening, rid' = rid, forwarder' = forwarder
    PROVE  AcceptInv'
<1>1. UNCHANGED <<up, accepts, requests, answered>>
  BY ListenerQuiet
<1>2. nextCall \in Nat /\ slots \in [Slots -> Nat] /\ requests \in Nat
  BY RequestFacts, Parts DEF Typed
<1>3. PICK first \in Messages :
        /\ Plain(first) /\ first.type # "cancel"
        /\ Handled("near", <<first, AcceptCall(nextCall)>>)
  BY MessagesIn, PlainMessages DEF Forward
<1>4. PICK next \in Messages :
        next = AcceptCall(nextCall) /\ next.type = "ACCEPT" /\ next.call = nextCall
  BY <1>2, MessagesIn, MessageFields
<1>5. PICK msgs \in Seq(Messages) :
        /\ Handled("near", msgs) /\ Sent(msgs) = {first, next}
        /\ DOMAIN msgs = {1, 2} /\ msgs[1] = first /\ msgs[2] = next
  <2>1. <<first, next>> \in Seq(Messages) /\ Sent(<<first, next>>) = {first, next}
    BY FewMessages, SentFacts
  <2>2. Handled("near", <<first, next>>)
    BY <1>3, <1>4
  <2>3. /\ DOMAIN <<first, next>> = {1, 2}
        /\ <<first, next>>[1] = first /\ <<first, next>>[2] = next
    OBVIOUS
  <2> QED
    BY <2>1, <2>2, <2>3
<1>6. /\ chan' \in [Peers -> Seq(Messages)]
      /\ Near # <<>> /\ AcceptOk(r, i) = Head(Near) /\ AcceptOk(r, i) \in Sent(Near)
      /\ Near' = Tail(Near) /\ Far' = Far \o msgs
      /\ Sent(Near') \subseteq Sent(Near)
      /\ Sent(Near) \subseteq Sent(Near') \cup {AcceptOk(r, i)}
      /\ Sent(Far') = Sent(Far) \cup {first, next}
  BY <1>5, NearHandles, Parts
<1>7. AcceptOk(r, i).type = "ACCEPT_ok" /\ AcceptOk(r, i).call = r
  BY MessageFields
<1>8. rid
  BY <1>6, <1>7, Parts DEF NoneBefore
<1>9. /\ slots' = [slots EXCEPT ![s] = nextCall] /\ nextCall' = nextCall + 1
  BY DEF Forward
<1>10. Typed'
  BY <1>2, <1>6, <1>9 DEF Typed
<1>11. OneSocketCall'
  <2>1. Ordered(Near', AnsweredOnce)
    BY <1>6, Parts, OrderedTail DEF OneSocketCall
  <2>2. \A m \in Sent(msgs) : m \in Messages /\ m.type # "SOCKET"
    BY <1>3, <1>4, <1>5 DEF Plain
  <2>3. Ordered(msgs, SocketFirst)
    BY <1>5, <2>2 DEF Ordered, SocketFirst, Pairs
  <2>4. \A m \in Sent(Far), n \in Sent(msgs) : <<m, n>> \in SocketFirst
    BY <2>2, Parts DEF SocketFirst, Pairs
  <2>5. Ordered(Far', SocketFirst)
    BY <1>6, <2>3, <2>4, Parts, OrderedMore DEF OneSocketCall
  <2> QED
    BY <1>5, <1>6, <1>8, <2>1, <2>2, <2>5, Parts DEF OneSocketCall
<1>12. NoneBefore'
  BY <1>8 DEF NoneBefore
<1>13. ASSUME BothListen'
       PROVE  (requests < nextCall /\ CallsUnderway /\ AnswersUnderway /\ QueueHeld /\ SlotsOK)'
  <2>1. requests < nextCall /\ CallsUnderway /\ AnswersUnderway /\ QueueHeld /\ SlotsOK
    BY <1>1, <1>13 DEF AcceptInv, BothListen
  <2>2. r \in Sent(answered) /\ r <= requests
    BY <1>6, <1>7, <2>1, RequestFacts DEF AnswersUnderway
  \* What is held stays so, unless it is the call that has been answered.
  <2>3. /\ \A q : Held(q) /\ q # r => Held(q)'
        /\ Held(next.call)'
    <3>1. /\ slots'[s] = nextCall
          /\ \A u \in Slots : u # s => slots'[u] = slots[u]
      BY <1>2, <1>9
    <3>2. \A u \in Slots : slots[u] # r => u # s
      OBVIOUS
    <3>3. slots'[s] = next.call
      BY <1>4, <3>1
    <3> QED
      BY <3>1, <3>2, <3>3 DEF Held
  <2>4. CallsUnderway'
    <3>1. Ordered(Far', CallsRise)
      <4>1. Ordered(msgs, CallsRise)
        BY <1>3, <1>5 DEF Ordered, CallsRise, Pairs, Plain
      <4>2. \A m \in Sent(Far), n \in Sent(msgs) : <<m, n>> \in CallsRise
        BY <1>3, <1>4, <1>5, <2>1, Parts DEF CallsRise, Pairs, Plain, CallsUnderway
      <4> QED
        BY <1>6, <2>1, <4>1, <4>2, Parts, OrderedMore DEF CallsUnderway
    <3>2. \A q \in Nat : requests' < q /\ q < nextCall' => AcceptCall(q) \in Sent(Far')
      <4> SUFFICES ASSUME NEW q \in Nat, requests < q, q < nextCall + 1
                   PROVE  AcceptCall(q) \in Sent(Far')
        BY <1>1, <1>9
      <4>1. CASE q = nextCall
        BY <1>4, <1>6, <4>1
      <4>2. CASE q < nextCall
        BY <1>6, <2>1, <4>2 DEF CallsUnderway
      <4> QED
        BY <1>2, <4>1, <4>2
    <3>3. ASSUME NEW m \in Sent(Far)
          PROVE  /\ m.type # "cancel"
                 /\ m.type = "ACCEPT" =>
                        requests' < m.call /\ m.call < nextCall' /\ Held(m.call)'
      <4>1. /\ m.type # "cancel"
            /\ m.type = "ACCEPT" => requests < m.call /\ m.call < nextCall /\ Held(m.call)
        BY <2>1 DEF CallsUnderway
      <4>2. CASE m.type = "ACCEPT"
        <5>1. m.call \in Nat
          BY <1>2, <4>1, <4>2 DEF Held
        <5>2. m.call # r
          BY <1>2, <2>2, <4>1, <4>2, <5>1
        <5> QED
          BY <1>1, <1>2, <1>9, <2>3, <4>1, <4>2, <5>1, <5>2
      <4> QED
        BY <4>1, <4>2
    <3>4. \A m \in {first, next} :
            /\ m.type # "cancel"
            /\ m.type = "ACCEPT" => requests' < m.call /\ m.call < nextCall' /\ Held(m.call)'
      <4>1. requests' < nextCall /\ nextCall < nextCall'
        BY <1>1, <1>2, <1>9, <2>1
      <4>2. next.type # "cancel" /\ requests' < next.call /\ next.call < nextCall'
            /\ Held(next.call)'
        BY <1>4, <2>3, <4>1
      <4>3. first.type # "cancel" /\ first.type # "ACCEPT"
        BY <1>3 DEF Plain
      <4> QED
        BY <4>2, <4>3
    <3> QED
      BY <1>6, <3>1, <3>2, <3>3, <3>4 DEF CallsUnderway
  <2>5. AnswersUnderway' /\ \A m \in Sent(Near') : m.type = "ACCEPT_ok" => m.call # r
    <3>1. /\ Ordered(Near', AnswersDiffer)
          /\ \A m \in Sent(Near') : <<AcceptOk(r, i), m>> \in AnswersDiffer
      BY <1>6, <2>1, Parts, OrderedTail DEF AnswersUnderway
    <3>2. \A m \in Sent(Near') : m.type = "ACCEPT_ok" => m.call # r
      BY <1>7, <3>1 DEF AnswersDiffer
    <3> QED
      BY <1>1, <1>6, <2>1, <2>3, <3>1, <3>2 DEF AnswersUnderway
  <2>6. QueueHeld'
    <3>1. \A q \in Sent(accepts) : Held(q)'
      <4>1. \A q \in Sent(accepts) : r < q /\ q \in Nat
        BY <2>2, RequestFacts, Bounds
      <4> QED
        BY <1>2, <2>1, <2>3, <4>1 DEF QueueHeld
    <3>2. ASSUME NEW u \in Slots, slots'[u] <= requests
          PROVE  \/ slots'[u] \in Sent(accepts)
                 \/ \E j \in L!ConnIds : AcceptOk(slots'[u], j) \in Sent(Near')
      <4>1. u # s /\ slots'[u] = slots[u]
        BY <1>2, <1>9, <2>1, <3>2
      <4>2. slots[u] # r
        BY <2>1, <4>1 DEF SlotsOK
      <4>3. \A j : AcceptOk(slots[u], j) # AcceptOk(r, i)
        BY <4>2, MessageFields
      <4> QED
        BY <1>6, <2>1, <3>2, <4>1, <4>3 DEF QueueHeld
    <3> QED
      BY <1>1, <3>1, <3>2 DEF QueueHeld
  <2>7. SlotsOK'
    <3>1. \A u \in Slots : slots[u] # 0 /\ slots[u] < nextCall /\ slots[u] \in Nat
      BY <1>2, <2>1 DEF SlotsOK
    <3>2. \A u \in Slots : slots'[u] = IF u = s THEN nextCall ELSE slots[u]
      BY <1>2, <1>9
    <3>3. nextCall # 0
      BY <1>2, <2>1
    <3>4. \A u, v \in Slots : slots[u] = slots[v] => u = v
      BY <2>1 DEF SlotsOK
    <3>5. \A u \in Slots : slots'[u] # 0 /\ slots'[u] < nextCall'
      BY <1>2, <1>9, <3>1, <3>2, <3>3
    <3>6. \A u, v \in Slots : slots'[u] = slots'[v] => u = v
      BY <1>2, <3>1, <3>2, <3>4
    <3> QED
      BY <3>5, <3>6 DEF SlotsOK
  <2>8. requests' < nextCall'
    BY <1>1, <1>2, <1>9, <2>1
  <2> QED
    BY <2>4, <2>5, <2>6, <2>7, <2>8
<1> QED
  BY <1>10, <1>11, <1>12, <1>13 DEF AcceptInv

LEMMA AcceptCompleteStep ==
    ASSUME AcceptInv, P!ListenInv, AcceptComplete
    PROVE  AcceptInv'
<1>1. PICK r \in 1 .. MaxAccepts, i \in L!ConnIds :
        /\ Receive("near", AcceptOk(r, i))
        /\ \/ \E s \in Slots : slots[s] = r /\ Forward(i, s)
           \/ /\ \A s \in Slots : slots[s] # r
              /\ Handled("near", <<>>) /\ slots' = slots /\ nextCall' = nextCall
        /\ UNCHANGED listening /\ forwarder' = forwarder /\ rid' = rid
  BY DEF AcceptComplete
<1>2. r \in Nat /\ r # 0
  BY Bounds
<1>3. CASE /\ \A s \in Slots : slots[s] # r
           /\ Handled("near", <<>>) /\ slots' = slots /\ nextCall' = nextCall
  <2>1. UNCHANGED <<up, accepts, requests, answered>>
    BY <1>1, ListenerQuiet
  <2>2. AcceptOk(r, i) \in Sent(Near)
    BY <1>1, <1>3, NothingSaid, NearHandles, Parts
  <2>3. BothListen => Held(r)
    BY <2>2, MessageFields DEF AcceptInv, AnswersUnderway
  <2>4. ~BothListen'
    BY <1>1, <1>3, <2>1, <2>3 DEF BothListen, Held
  <2>5. slots' \in [Slots -> Nat] /\ nextCall' \in Nat
    BY <1>3, Parts DEF Typed
  <2>6. ~rid => forwarder' # "listening" /\ \A s \in Slots : slots'[s] = 0
    BY <1>1, <1>3, Parts DEF NoneBefore
  <2> QED
    BY <1>1, <1>3, <2>1, <2>4, <2>5, <2>6, PeerNames, NothingSaid, QuietStep
<1> QED
  BY <1>1, <1>2, <1>3, ForwardStep

-----------------------------------------------------------------------------
(* The theorems *)

LEMMA AcceptInit == Init => AcceptInv
<1> SUFFICES ASSUME Init
             PROVE  AcceptInv
  OBVIOUS
<1>1. /\ Far = <<Socket>> /\ Near = <<>> /\ chan \in [Peers -> Seq(Messages)]
      /\ Far \in Seq(Messages) /\ Near \in Seq(Messages)
  <2>1. <<Socket>> \in Seq(Messages) /\ <<>> \in Seq(Messages)
    BY MessagesIn, FewMessages, NoMessages
  <2> QED
    BY <2>1 DEF Init, Silence, Peers, Far, Near
<1>2. Sent(Far) = {Socket} /\ Sent(Near) = {}
  BY <1>1, SentFacts
<1>3. \A R : Ordered(Far, R) /\ Ordered(Near, R)
  BY <1>1 DEF Ordered
<1>4. /\ slots = [s \in Slots |-> 0] /\ nextCall = 1 /\ rid = FALSE
      /\ forwarder = "starting" /\ requests = 0
  BY DEF Init, L!Init
<1>5. Typed
  BY <1>1, <1>4 DEF Typed
<1>6. OneSocketCall
  BY <1>2, <1>3, <1>4 DEF OneSocketCall
<1>7. NoneBefore
  BY <1>2, <1>4, MessageFields DEF NoneBefore
<1> QED
  BY <1>4, <1>5, <1>6, <1>7 DEF AcceptInv, BothListen

LEMMA AcceptNext ==
    ASSUME AcceptInv, P!ListenInv, [Next]_vars
    PROVE  AcceptInv'
<1>1. CASE UNCHANGED vars
  <2>1. UNCHANGED <<up, accepts, requests, answered>> /\ UNCHANGED forwarding /\ chan' = chan
    BY <1>1, ListenerQuiet DEF vars
  <2> QED
    BY <2>1, NothingStep
<1>2. CASE Deliver
  BY <1>2, HandleSocketStep, HandleAcceptStep, HandleCancelStep, HandleAcceptedStep,
     HandleFarCloseStep, HandleCloseListenerStep, SocketCompleteStep, AcceptCompleteStep,
     AcceptFailedStep, HandleNearCloseStep
     DEF Deliver
<1>3. CASE ListenerEvent \/ RemoveListener \/ DataFromNear \/ RemoveForwarder
  BY <1>3, ListenerEventStep, RemoveListenerStep, DataFromNearStep, RemoveForwarderStep
<1>4. CASE \E i \in L!ConnIds : RemoveSocket(i)
  BY <1>4, RemoveSocketStep
<1> QED
  BY <1>1, <1>2, <1>3, <1>4 DEF Next

\* The invariant, next to that of the listening socket.
THEOREM AcceptInvariant == Spec => []AcceptInv
<1>1. AcceptInv /\ P!ListenInv /\ [Next]_vars => AcceptInv'
  BY AcceptNext
<1> QED
  BY <1>1, AcceptInit, ListenerInvariant, PTL DEF Spec

\* While both ends listen, two distinct ACCEPTs are pending and each is in one
\* place: fwd_entry_datagram_forward_remote_accept_complete replaces the one that
\* it takes, so that a packet from a new address never waits for long.
THEOREM TwoAcceptsPending == Spec => []AcceptsPending
<1>1. AcceptInv /\ P!ListenInv => AcceptsPending
  <2> SUFFICES ASSUME AcceptInv, P!ListenInv, forwarder = "listening", up
               PROVE  /\ \A s \in Slots :
                            slots[s] # 0 /\ Cardinality(AcceptPlaces(slots[s])) = 1
                      /\ slots[1] # slots[2]
    BY DEF AcceptsPending
  <2>1. /\ CallsUnderway /\ AnswersUnderway /\ QueueHeld /\ SlotsOK
        /\ requests \in Nat /\ slots \in [Slots -> Nat]
    BY RequestFacts, Parts DEF AcceptInv, BothListen, Typed
  <2>2. \A s \in Slots : slots[s] # 0 /\ slots[s] < nextCall
    BY <2>1 DEF SlotsOK
  <2>3. slots[1] # slots[2]
    BY <2>1 DEF SlotsOK, Slots
  <2>4. ASSUME NEW s \in Slots
        PROVE  Cardinality(AcceptPlaces(slots[s])) = 1
    <3> PICK r : r = slots[s]
      OBVIOUS
    <3>1. r \in Nat /\ r < nextCall
      BY <2>1, <2>2
    <3>2. Underway("far", AcceptCall(r)) <=> requests < r
      BY <2>1, <3>1, UnderwaySent, MessageFields DEF CallsUnderway, Far
    <3>3. (\E k \in DOMAIN accepts : accepts[k] = r) <=> r \in Sent(accepts)
      BY DEF Sent
    <3>4. (\E i \in L!ConnIds : Underway("near", AcceptOk(r, i))) => r \in Sent(answered)
      BY <2>1, UnderwaySent, MessageFields DEF AnswersUnderway, Near
    <3>5. /\ r \in Sent(accepts) => r <= requests /\ ~(r \in Sent(answered))
          /\ r \in Sent(answered) => r <= requests
      BY RequestFacts, Bounds
    <3>6. r <= requests => \/ r \in Sent(accepts)
                           \/ \E i \in L!ConnIds : Underway("near", AcceptOk(r, i))
      BY <2>1, UnderwaySent DEF QueueHeld, Near
    <3>7. PICK p \in {"call", "queue", "answer"} : AcceptPlaces(r) = {p}
      <4>1. CASE requests < r
        <5>1. AcceptPlaces(r) = {"call"}
          BY <2>1, <3>1, <3>2, <3>3, <3>4, <3>5, <4>1 DEF AcceptPlaces
        <5> QED
          BY <5>1
      <4>2. CASE r \in Sent(accepts)
        <5>1. AcceptPlaces(r) = {"queue"}
          BY <2>1, <3>1, <3>2, <3>3, <3>4, <3>5, <4>2 DEF AcceptPlaces
        <5> QED
          BY <5>1
      <4>3. CASE \E i \in L!ConnIds : Underway("near", AcceptOk(r, i))
        <5>1. AcceptPlaces(r) = {"answer"}
          BY <2>1, <3>1, <3>2, <3>3, <3>4, <3>5, <4>3 DEF AcceptPlaces
        <5> QED
          BY <5>1
      <4> QED
        BY <2>1, <3>1, <3>6, <4>1, <4>2, <4>3
    <3> QED
      BY <3>7, FS_Singleton
  <2> QED
    BY <2>2, <2>3, <2>4
<1> QED
  BY <1>1, AcceptInvariant, ListenerInvariant, PTL

LEMMA ListenStepHere == [Next]_vars => [L!Next]_L!vars
<1> SUFFICES ASSUME [Next]_vars
             PROVE  L!Next \/ UNCHANGED L!vars
  OBVIOUS
<1>1. UNCHANGED listening => UNCHANGED L!vars
  BY DEF listening, L!vars, L!history
<1>2. CASE Deliver
  BY <1>1, <1>2 DEF Deliver, HandleSocket, HandleAccept, HandleCancel, HandleAccepted,
     HandleFarClose, HandleCloseListener, SocketComplete, AcceptComplete, AcceptFailed,
     HandleNearClose, L!Next, L!CallIds
<1>3. CASE ListenerEvent \/ RemoveListener \/ DataFromNear \/ RemoveForwarder
  BY <1>1, <1>3 DEF ListenerEvent, RemoveListener, DataFromNear, RemoveForwarder, L!Next
<1>4. CASE (\E i \in L!ConnIds : RemoveSocket(i)) \/ UNCHANGED vars
  BY <1>1, <1>4 DEF RemoveSocket, vars
<1> QED
  BY <1>2, <1>3, <1>4 DEF Next

\* The forwarder, its sockets and the transport use the listening socket as
\* DatagramListen says: the calls, cancellations, ACCEPTED and CLOSE come as it
\* takes them to come.
THEOREM ListenSocketUsed == Spec => L!Spec
<1>1. Init => L!Init
  BY DEF Init
<1> QED
  BY <1>1, ListenStepHere, PTL DEF Spec, L!Spec

\* So the listening socket of a remote forwarder keeps its maps, both ends agree
\* about each connection, and the ACCEPTs of the forwarder are completed in the
\* order of submission.
THEOREM ListenerKeepsPromises ==
    Spec => [](L!MapsAgree /\ L!EndsAgree /\ L!CompletedInOrder)
<1>1. /\ {Timeout, Backlog, ConnLimit, MaxId, MaxAccepts} \subseteq Nat \ {0}
      /\ MaxPackets \in Nat
  BY Bounds, BoundAssumption
<1>2. P!Spec => [](P!MapsAgree)
  BY <1>1, P!MapsAlwaysAgree
<1>3. P!Spec => [](P!EndsAgree)
  BY <1>1, P!EndsAlwaysAgree
<1>4. P!Spec => [](P!CompletedInOrder)
  BY <1>1, P!AnsweredInOrder
<1>5. P!MapsAgree /\ P!EndsAgree /\ P!CompletedInOrder
        => L!MapsAgree /\ L!EndsAgree /\ L!CompletedInOrder
  BY DEF P!MapsAgree, L!MapsAgree, P!EndsAgree, L!EndsAgree, P!ConnIds, L!ConnIds,
         P!CompletedInOrder, L!CompletedInOrder
<1> QED
  BY <1>2, <1>3, <1>4, <1>5, ListenImplemented, PTL

=============================================================================
