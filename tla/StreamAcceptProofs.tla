-------------------------- MODULE StreamAcceptProofs --------------------------
(***************************************************************************)
(* Theorems about StreamAccept, for any number of clients: the listening   *)
(* socket is used as StreamListen allows (and so the theorems about it     *)
(* hold here), two ACCEPTs are kept pending, and each accepted connection  *)
(* is answered.                                                            *)
(*                                                                         *)
(* The invariant follows an ACCEPT on its way: from the call to the queue  *)
(* of the listening socket and from there to the answer, in one of the two *)
(* slots of the forwarder until this is removed.                           *)
(***************************************************************************)
EXTENDS StreamAccept, SequenceTheorems, FiniteSetTheorems, TLAPS

P == INSTANCE StreamListenProofs

\* The messages of a channel.
Sent(q) == {q[i] : i \in DOMAIN q}
Far == chan["far"]
Near == chan["near"]

\* Does the forwarder wait for this call?
Held(r) == \E s \in Slots : slots[s] = r

-----------------------------------------------------------------------------
(* The invariant *)

\* Before the forwarder knows the listening socket, nothing has happened but
\* that the SOCKET call is somewhere.
SetUp ==
    ~rid =>
        /\ nextCall = 1
        /\ forwarder # "listening"
        /\ \A s \in Slots : slots[s] = 0
        /\ accept_reqs = <<>>
        /\ \A r \in L!Requests : calls[r] = "new"
        /\ \A p \in Peers, c \in Clients : sock[p][c] = "new"
        /\ \/ listener = "new" /\ Far = <<Socket>> /\ Near = <<>>
           \/ Far = <<>> /\ \E ok \in BOOLEAN :
                Near = <<SocketDone(ok)>> /\ (ok => listener # "new")
           \/ Far = <<>> /\ Near = <<>>

\* Once it does, that call is over and the socket listens or did.
Known == rid => nextCall >= 3 /\ listener # "new" /\ forwarder # "starting"

\* What is true of a message on its way to the listening socket.  An ACCEPT has
\* not been there before; a cancellation is one by the removal.
FarMessage(m) ==
    /\ m.type = "ACCEPT" =>
        /\ m.call < nextCall
        /\ calls[m.call] = "new"
        /\ forwarder # "gone" => Held(m.call)
    /\ m.type = "cancel" => forwarder = "gone"
    /\ m.type = "SOCKET" => ~rid

\* ACCEPTs are in the order of their numbers, and before the cancellations.
FarOrder ==
    \A i, j \in DOMAIN Far :
        i < j /\ Far[j].type = "ACCEPT" =>
            /\ Far[i].type # "cancel"
            /\ Far[i].type = "ACCEPT" => Far[i].call < Far[j].call

\* What is true of a message on its way to the forwarder.  Of the clients, the
\* ones whose answers are underway are the latest.
NearMessage(m) ==
    /\ m.type = "ACCEPT_ok" =>
        /\ calls[m.call] = "ok"
        /\ sock["far"][m.id] # "new"
        /\ nextCall <= m.id + 2
        /\ forwarder # "gone" => Held(m.call)
    /\ m.type = "ACCEPT_error" =>
        /\ m.call < nextCall
        /\ calls[m.call] \notin {"waiting", "ok"}
        /\ AcceptCall(m.call) \notin Sent(Far)
    /\ m.type = "CLOSE" => sock["far"][m.id] = "gone"
    /\ m.type = "SOCKET_done" => ~rid

\* The answers are for distinct calls, and in the order of the clients.
NearOrder ==
    \A i, j \in DOMAIN Near :
        i < j /\ Near[i].type = "ACCEPT_ok" /\ Near[j].type = "ACCEPT_ok" =>
            Near[i].call # Near[j].call /\ Near[i].id < Near[j].id

Channels ==
    /\ \A m \in Sent(Far) : FarMessage(m)
    /\ \A m \in Sent(Near) : NearMessage(m)
    /\ FarOrder
    /\ NearOrder

\* Where a call is.  A call that the listening socket has not seen is underway
\* to it; one that it has completed is underway back.
CallPlaces ==
    /\ \A r \in L!Requests : r >= nextCall => calls[r] = "new"
    /\ \A r \in L!Requests :
        listener = "open" /\ r < nextCall /\ calls[r] = "new"
            => AcceptCall(r) \in Sent(Far)
    /\ \A r \in L!Requests : calls[r] = "dropped" => listener = "gone"
    /\ \A r \in L!Requests : calls[r] = "waiting" /\ forwarder # "gone" => Held(r)
    /\ \A s \in Slots, r \in L!Requests :
        listener = "open" /\ slots[s] = r /\ calls[r] = "ok"
            => \E c \in Clients : AcceptOk(r, c) \in Sent(Near)

\* After a cancellation there won't be another ACCEPT.
NoneAfterRemoval ==
    /\ \A r \in L!Requests : calls[r] = "cancelled" =>
        forwarder = "gone" /\ \A m \in Sent(Far) : m.type # "ACCEPT"
    /\ forwarder = "gone" => \A s \in Slots : slots[s] = 0
    /\ ~resubmitted

SlotsOK ==
    /\ forwarder = "listening" => \A s \in Slots : slots[s] # 0
    /\ \A s \in Slots : slots[s] < nextCall
    /\ \A s, u \in Slots : slots[s] = slots[u] /\ slots[s] # 0 => s = u

\* The clients come one after the other.
ClientsInOrder ==
    \A c \in Clients : sock["far"][c] = "new" =>
        /\ nextCall <= c + 2
        /\ \A d \in Clients : c < d => sock["far"][d] = "new"

AcceptInv ==
    /\ TypeOK /\ SetUp /\ Known /\ Channels /\ CallPlaces
    /\ NoneAfterRemoval /\ SlotsOK /\ ClientsInOrder /\ AnsweredUnlessRemoved

-----------------------------------------------------------------------------
(* Messages and channels *)

LEMMA MessageFields ==
    /\ Socket.type = "SOCKET" /\ CloseListener.type = "CLOSE_listener"
    /\ \A ok : SocketDone(ok).type = "SOCKET_done" /\ SocketDone(ok).ok = ok
    /\ \A r : AcceptCall(r).type = "ACCEPT" /\ AcceptCall(r).call = r
    /\ \A r, c : /\ AcceptOk(r, c).type = "ACCEPT_ok"
                 /\ AcceptOk(r, c).call = r /\ AcceptOk(r, c).id = c
    /\ \A r : AcceptError(r).type = "ACCEPT_error" /\ AcceptError(r).call = r
    /\ \A r : CancelCall(r).type = "cancel" /\ CancelCall(r).call = r
    /\ \A c : Accepted(c).type = "ACCEPTED" /\ Accepted(c).id = c
    /\ \A c : Close(c).type = "CLOSE" /\ Close(c).id = c
BY DEF Socket, CloseListener, SocketDone, AcceptCall, AcceptOk, AcceptError, CancelCall,
       Accepted, Close

\* A message is told by its type and its fields.
LEMMA MessageShape ==
    ASSUME NEW m \in Messages
    PROVE  /\ m.type = "ACCEPT" => m = AcceptCall(m.call) /\ m.call \in L!Requests
           /\ m.type = "ACCEPT_ok" =>
                m = AcceptOk(m.call, m.id) /\ m.call \in L!Requests /\ m.id \in Clients
           /\ m.type = "ACCEPT_error" => m = AcceptError(m.call) /\ m.call \in L!Requests
           /\ m.type = "cancel" => m = CancelCall(m.call) /\ m.call \in L!Requests
           /\ m.type = "ACCEPTED" => m = Accepted(m.id) /\ m.id \in Clients
           /\ m.type = "CLOSE" => m = Close(m.id) /\ m.id \in Clients
           /\ m.type = "SOCKET" => m = Socket
BY MessageFields DEF Messages, L!Requests

LEMMA MessagesIn ==
    /\ Socket \in Messages /\ CloseListener \in Messages
    /\ \A ok \in BOOLEAN : SocketDone(ok) \in Messages
    /\ \A r \in 1 .. MaxAccepts :
        AcceptCall(r) \in Messages /\ AcceptError(r) \in Messages /\ CancelCall(r) \in Messages
    /\ \A r \in 1 .. MaxAccepts, c \in Clients : AcceptOk(r, c) \in Messages
    /\ \A c \in Clients : Accepted(c) \in Messages /\ Close(c) \in Messages
BY DEF Messages

LEMMA Bounds ==
    /\ Cardinality(Slots) = 2
    /\ MaxClients \in Nat /\ MaxAccepts = 2 + MaxClients /\ MaxAccepts \in Nat
<1>1. IsFiniteSet({1}) /\ Cardinality({1}) = 1
  BY FS_Singleton
<1>2. Slots = {1} \cup {2} /\ 2 \notin {1}
  BY DEF Slots
<1>3. Cardinality({1} \cup {2}) = Cardinality({1}) + 1
  BY <1>1, <1>2, FS_AddElement
<1> QED
  BY <1>1, <1>2, <1>3, MaxClientsAssumption DEF MaxAccepts

LEMMA SentFacts ==
    /\ Sent(<<>>) = {}
    /\ \A a : Sent(<<a>>) = {a}
    /\ \A a, b : Sent(<<a, b>>) = {a, b}
BY DEF Sent

\* The messages of a queue of which the first is taken, and of one to which some
\* are added.
LEMMA SentTail ==
    ASSUME NEW q \in Seq(Messages), q # <<>>
    PROVE  /\ Head(q) \in Sent(q) /\ Tail(q) \in Seq(Messages)
           /\ Sent(Tail(q)) \subseteq Sent(q)
           /\ Sent(q) \subseteq Sent(Tail(q)) \cup {Head(q)}
<1>1. /\ Len(q) \in Nat \ {0} /\ DOMAIN q = 1 .. Len(q) /\ Head(q) = q[1]
      /\ Tail(q) \in Seq(Messages) /\ DOMAIN Tail(q) = 1 .. Len(q) - 1
      /\ \A i \in 1 .. Len(q) - 1 : Tail(q)[i] = q[i + 1]
  OBVIOUS
<1>2. Sent(Tail(q)) \subseteq Sent(q)
  BY <1>1 DEF Sent
<1>3. ASSUME NEW i \in DOMAIN q
      PROVE  i = 1 \/ (i - 1 \in DOMAIN Tail(q) /\ q[i] = Tail(q)[i - 1])
  BY <1>1
<1>4. Sent(q) \subseteq Sent(Tail(q)) \cup {Head(q)}
  BY <1>1, <1>3 DEF Sent
<1>5. Head(q) \in Sent(q)
  BY <1>1 DEF Sent
<1> QED
  BY <1>1, <1>2, <1>4, <1>5

LEMMA SentConcat ==
    ASSUME NEW q \in Seq(Messages), NEW r \in Seq(Messages)
    PROVE  /\ q \o r \in Seq(Messages)
           /\ Sent(q \o r) = Sent(q) \cup Sent(r)
<1>1. /\ q \o r \in Seq(Messages) /\ Len(q \o r) = Len(q) + Len(r)
      /\ \A i \in 1 .. Len(q) + Len(r) :
            (q \o r)[i] = IF i <= Len(q) THEN q[i] ELSE r[i - Len(q)]
  BY ConcatProperties
<1>2. /\ DOMAIN q = 1 .. Len(q) /\ DOMAIN r = 1 .. Len(r)
      /\ Len(q) \in Nat /\ Len(r) \in Nat
      /\ DOMAIN (q \o r) = 1 .. Len(q) + Len(r)
  BY <1>1
<1>3. ASSUME NEW i \in DOMAIN q
      PROVE  i \in DOMAIN (q \o r) /\ (q \o r)[i] = q[i]
  BY <1>1, <1>2
<1>4. ASSUME NEW i \in DOMAIN r
      PROVE  Len(q) + i \in DOMAIN (q \o r) /\ (q \o r)[Len(q) + i] = r[i]
  BY <1>1, <1>2
<1>5. ASSUME NEW i \in DOMAIN (q \o r)
      PROVE  \/ i \in DOMAIN q /\ (q \o r)[i] = q[i]
             \/ i - Len(q) \in DOMAIN r /\ (q \o r)[i] = r[i - Len(q)]
  BY <1>1, <1>2
<1>6. Sent(q \o r) \subseteq Sent(q) \cup Sent(r)
  BY <1>5 DEF Sent
<1>7. Sent(q) \subseteq Sent(q \o r) /\ Sent(r) \subseteq Sent(q \o r)
  BY <1>3, <1>4 DEF Sent
<1> QED
  BY <1>1, <1>6, <1>7

\* What handling and sending do to the two channels.
LEMMA HandledFacts ==
    ASSUME chan \in [Peers -> Seq(Messages)], NEW p \in Peers, NEW msgs \in Seq(Messages),
           NEW m, Receive(p, m), Handled(p, msgs)
    PROVE  /\ chan' \in [Peers -> Seq(Messages)]
           /\ chan[p] # <<>> /\ m = Head(chan[p]) /\ m \in Sent(chan[p]) /\ m \in Messages
           /\ chan'[p] = Tail(chan[p]) /\ chan'[Other(p)] = chan[Other(p)] \o msgs
           /\ Sent(chan'[p]) \subseteq Sent(chan[p])
           /\ Sent(chan[p]) \subseteq Sent(chan'[p]) \cup {m}
           /\ Sent(chan'[Other(p)]) = Sent(chan[Other(p)]) \cup Sent(msgs)
<1>1. /\ Other(p) \in Peers /\ Other(p) # p
      /\ chan[p] \in Seq(Messages) /\ chan[Other(p)] \in Seq(Messages)
  BY DEF Other, Peers
<1>2. chan[p] # <<>> /\ m = Head(chan[p])
  BY DEF Receive
<1>3. Tail(chan[p]) \in Seq(Messages) /\ chan[Other(p)] \o msgs \in Seq(Messages)
  BY <1>1, <1>2, SentTail, SentConcat
<1>4. /\ chan'[p] = Tail(chan[p]) /\ chan'[Other(p)] = chan[Other(p)] \o msgs
      /\ \A q \in Peers : q = p \/ q = Other(p)
      /\ chan' = [chan EXCEPT ![p] = Tail(@), ![Other(p)] = @ \o msgs]
  BY <1>1 DEF Handled, Other, Peers
<1>5. chan' \in [Peers -> Seq(Messages)]
  BY <1>3, <1>4
<1>6. m \in Messages
  BY <1>1, <1>2
<1> QED
  BY <1>1, <1>2, <1>4, <1>5, <1>6, SentTail, SentConcat

LEMMA SendFacts ==
    ASSUME chan \in [Peers -> Seq(Messages)], NEW p \in Peers, NEW msgs \in Seq(Messages),
           Send(p, msgs)
    PROVE  /\ chan' \in [Peers -> Seq(Messages)]
           /\ chan'[p] = chan[p] /\ chan'[Other(p)] = chan[Other(p)] \o msgs
           /\ Sent(chan'[Other(p)]) = Sent(chan[Other(p)]) \cup Sent(msgs)
<1>1. /\ Other(p) \in Peers /\ Other(p) # p
      /\ chan[p] \in Seq(Messages) /\ chan[Other(p)] \in Seq(Messages)
  BY DEF Other, Peers
<1>2. /\ chan[Other(p)] \o msgs \in Seq(Messages)
      /\ Sent(chan[Other(p)] \o msgs) = Sent(chan[Other(p)]) \cup Sent(msgs)
  BY <1>1, SentConcat
<1> QED
  BY <1>1, <1>2 DEF Send

\* The order in the channels remains when the first message is handled.
LEMMA FarOrderTail ==
    ASSUME Far \in Seq(Messages), FarOrder, Far # <<>>, Far' = Tail(Far)
    PROVE  /\ FarOrder'
           /\ \A m \in Sent(Far') : m.type = "ACCEPT" =>
                /\ Head(Far).type # "cancel"
                /\ Head(Far).type = "ACCEPT" => Head(Far).call < m.call
<1>1. /\ Len(Far) \in Nat \ {0} /\ DOMAIN Far = 1 .. Len(Far) /\ Head(Far) = Far[1]
      /\ DOMAIN Far' = 1 .. Len(Far) - 1
      /\ \A i \in 1 .. Len(Far) - 1 : Far'[i] = Far[i + 1]
  OBVIOUS
<1> HIDE DEF Far
<1>2. \A i \in DOMAIN Far' : i + 1 \in DOMAIN Far /\ 1 \in DOMAIN Far /\ 1 < i + 1
  BY <1>1
<1>3. \A i, j \in DOMAIN Far' : i < j => i + 1 < j + 1
  BY <1>1
<1>4. FarOrder'
  BY <1>1, <1>2, <1>3 DEF FarOrder
<1>5. ASSUME NEW i \in DOMAIN Far', Far'[i].type = "ACCEPT"
      PROVE  /\ Head(Far).type # "cancel"
             /\ Head(Far).type = "ACCEPT" => Head(Far).call < Far'[i].call
  BY <1>1, <1>2, <1>5 DEF FarOrder
<1> QED
  BY <1>4, <1>5 DEF Sent

LEMMA NearOrderTail ==
    ASSUME Near \in Seq(Messages), NearOrder, Near # <<>>, Near' = Tail(Near)
    PROVE  /\ NearOrder'
           /\ Head(Near).type = "ACCEPT_ok" =>
                \A m \in Sent(Near') : m.type = "ACCEPT_ok" =>
                    Head(Near).call # m.call /\ Head(Near).id < m.id
<1>1. /\ Len(Near) \in Nat \ {0} /\ DOMAIN Near = 1 .. Len(Near) /\ Head(Near) = Near[1]
      /\ DOMAIN Near' = 1 .. Len(Near) - 1
      /\ \A i \in 1 .. Len(Near) - 1 : Near'[i] = Near[i + 1]
  OBVIOUS
<1> HIDE DEF Near
<1>2. \A i \in DOMAIN Near' : i + 1 \in DOMAIN Near /\ 1 \in DOMAIN Near /\ 1 < i + 1
  BY <1>1
<1>3. \A i, j \in DOMAIN Near' : i < j => i + 1 < j + 1
  BY <1>1
<1>4. NearOrder'
  BY <1>1, <1>2, <1>3 DEF NearOrder
<1>5. ASSUME NEW i \in DOMAIN Near', Near'[i].type = "ACCEPT_ok",
             Head(Near).type = "ACCEPT_ok"
      PROVE  Head(Near).call # Near'[i].call /\ Head(Near).id < Near'[i].id
  BY <1>1, <1>2, <1>5 DEF NearOrder
<1> QED
  BY <1>4, <1>5 DEF Sent

\* It remains when messages are added to which it does not apply, or that come
\* later in it.
LEMMA FarOrderMore ==
    ASSUME Far \in Seq(Messages), NEW msgs \in Seq(Messages), FarOrder, Far' = Far \o msgs,
           \A i, j \in DOMAIN msgs : i < j /\ msgs[j].type = "ACCEPT" =>
                msgs[i].type # "cancel" /\ (msgs[i].type = "ACCEPT" => msgs[i].call < msgs[j].call),
           \A m \in Sent(Far), n \in Sent(msgs) : n.type = "ACCEPT" =>
                m.type # "cancel" /\ (m.type = "ACCEPT" => m.call < n.call)
    PROVE  FarOrder'
<1>1. /\ \A i \in 1 .. Len(Far) + Len(msgs) :
            Far'[i] = IF i <= Len(Far) THEN Far[i] ELSE msgs[i - Len(Far)]
      /\ DOMAIN Far' = 1 .. Len(Far) + Len(msgs)
  BY ConcatProperties
<1>2. /\ Len(Far) \in Nat /\ Len(msgs) \in Nat
      /\ DOMAIN Far = 1 .. Len(Far) /\ DOMAIN msgs = 1 .. Len(msgs)
  OBVIOUS
<1> HIDE DEF Far
<1> SUFFICES ASSUME NEW i \in DOMAIN Far', NEW j \in DOMAIN Far', i < j,
                    Far'[j].type = "ACCEPT"
             PROVE  /\ Far'[i].type # "cancel"
                    /\ Far'[i].type = "ACCEPT" => Far'[i].call < Far'[j].call
  BY DEF FarOrder
<1>3. CASE j <= Len(Far)
  <2>1. i \in DOMAIN Far /\ j \in DOMAIN Far /\ Far'[i] = Far[i] /\ Far'[j] = Far[j]
    BY <1>1, <1>2, <1>3
  <2> QED
    BY <2>1 DEF FarOrder
<1>4. CASE j > Len(Far) /\ i <= Len(Far)
  <2>1. /\ i \in DOMAIN Far /\ j - Len(Far) \in DOMAIN msgs
        /\ Far'[i] = Far[i] /\ Far'[j] = msgs[j - Len(Far)]
    BY <1>1, <1>2, <1>4
  <2>2. Far[i] \in Sent(Far) /\ msgs[j - Len(Far)] \in Sent(msgs)
    BY <2>1 DEF Sent
  <2> QED
    BY <2>1, <2>2
<1>5. CASE i > Len(Far)
  <2>1. /\ i - Len(Far) \in DOMAIN msgs /\ j - Len(Far) \in DOMAIN msgs
        /\ i - Len(Far) < j - Len(Far)
        /\ Far'[i] = msgs[i - Len(Far)] /\ Far'[j] = msgs[j - Len(Far)]
    BY <1>1, <1>2, <1>5
  <2> QED
    BY <2>1
<1> QED
  BY <1>1, <1>2, <1>3, <1>4, <1>5

LEMMA NearOrderMore ==
    ASSUME Near \in Seq(Messages), NEW msgs \in Seq(Messages), NearOrder,
           Near' = Near \o msgs,
           \A i, j \in DOMAIN msgs : i # j =>
                ~(msgs[i].type = "ACCEPT_ok" /\ msgs[j].type = "ACCEPT_ok"),
           \A m \in Sent(Near), n \in Sent(msgs) :
                m.type = "ACCEPT_ok" /\ n.type = "ACCEPT_ok" =>
                    m.call # n.call /\ m.id < n.id
    PROVE  NearOrder'
<1>1. /\ \A i \in 1 .. Len(Near) + Len(msgs) :
            Near'[i] = IF i <= Len(Near) THEN Near[i] ELSE msgs[i - Len(Near)]
      /\ DOMAIN Near' = 1 .. Len(Near) + Len(msgs)
  BY ConcatProperties
<1>2. /\ Len(Near) \in Nat /\ Len(msgs) \in Nat
      /\ DOMAIN Near = 1 .. Len(Near) /\ DOMAIN msgs = 1 .. Len(msgs)
  OBVIOUS
<1> HIDE DEF Near
<1> SUFFICES ASSUME NEW i \in DOMAIN Near', NEW j \in DOMAIN Near', i < j,
                    Near'[i].type = "ACCEPT_ok", Near'[j].type = "ACCEPT_ok"
             PROVE  Near'[i].call # Near'[j].call /\ Near'[i].id < Near'[j].id
  BY DEF NearOrder
<1>3. CASE j <= Len(Near)
  <2>1. i \in DOMAIN Near /\ j \in DOMAIN Near /\ Near'[i] = Near[i] /\ Near'[j] = Near[j]
    BY <1>1, <1>2, <1>3
  <2> QED
    BY <2>1 DEF NearOrder
<1>4. CASE j > Len(Near) /\ i <= Len(Near)
  <2>1. /\ i \in DOMAIN Near /\ j - Len(Near) \in DOMAIN msgs
        /\ Near'[i] = Near[i] /\ Near'[j] = msgs[j - Len(Near)]
    BY <1>1, <1>2, <1>4
  <2>2. Near[i] \in Sent(Near) /\ msgs[j - Len(Near)] \in Sent(msgs)
    BY <2>1 DEF Sent
  <2> QED
    BY <2>1, <2>2
<1>5. CASE i > Len(Near)
  <2>1. /\ i - Len(Near) \in DOMAIN msgs /\ j - Len(Near) \in DOMAIN msgs
        /\ i - Len(Near) # j - Len(Near)
        /\ Near'[i] = msgs[i - Len(Near)] /\ Near'[j] = msgs[j - Len(Near)]
    BY <1>1, <1>2, <1>5
  <2> QED
    BY <2>1
<1> QED
  BY <1>1, <1>2, <1>3, <1>4, <1>5

-----------------------------------------------------------------------------
(* The listening socket *)

\* Each step is one of StreamListen, or is none of the listening socket.
LEMMA ListenStep == [Next]_vars => [P!Next]_P!vars
<1> SUFFICES ASSUME [Next]_vars
             PROVE  P!Next \/ UNCHANGED P!vars
  OBVIOUS
<1> USE DEF P!vars, listening
<1>1. \A r : L!Accept(r) => P!Accept(r)
  BY DEF L!Accept, P!Accept, L!Submits, P!Submits, L!AfterCancellation, P!AfterCancellation,
         L!Started, P!Started, L!Requests, P!Requests
<1>2. \A r : L!RequestCancelled(r) => P!RequestCancelled(r)
  BY DEF L!RequestCancelled, P!RequestCancelled, L!Cancelled, P!Cancelled, L!RemoveAt, P!RemoveAt
<1>3. \A k : L!AcceptSucceeds(k) => P!AcceptSucceeds(k)
  BY DEF L!AcceptSucceeds, P!AcceptSucceeds, L!Continue, P!Continue, L!Complete,
         P!Complete, L!Started, P!Started, L!Dropped, P!Dropped
<1>4. \A k : L!AcceptFails(k) => P!AcceptFails(k)
  BY DEF L!AcceptFails, P!AcceptFails, L!Continue, P!Continue, L!Complete,
         P!Complete, L!Started, P!Started, L!Dropped, P!Dropped
<1>5. L!AcceptCancelled => P!AcceptCancelled
  BY <1>4 DEF L!AcceptCancelled, P!AcceptCancelled
<1>6. L!Dispose => P!Dispose
  BY DEF L!Dispose, P!Dispose, L!Cancelled, P!Cancelled, L!Requests, P!Requests
<1>7. /\ L!Listen => P!Listen
      /\ L!ClientConnects => P!ClientConnects
      /\ L!AcceptKinds = P!AcceptKinds
      /\ 1 .. MaxAccepts = P!Requests
  BY DEF L!Listen, P!Listen, L!ClientConnects, P!ClientConnects, L!AcceptKinds,
         P!AcceptKinds, P!Requests
<1>8. CASE Deliver
  BY <1>8, <1>1, <1>2, <1>6, <1>7
     DEF Deliver, HandleSocket, HandleAccept, HandleCancel, HandleCloseListener,
         HandleAccepted, SocketComplete, AcceptComplete, AcceptFailed, HandleClose, P!Next
<1>9. CASE \E kind \in L!AcceptKinds : AcceptSucceeds(kind)
  BY <1>9, <1>3, <1>7 DEF AcceptSucceeds, P!Next
<1>10. CASE ListenerEvent
  BY <1>10, <1>4, <1>5, <1>7 DEF ListenerEvent, P!Next
<1>11. CASE RemoveListener
  BY <1>11, <1>6 DEF RemoveListener, P!Next
<1>12. CASE RemoveForwarder
  BY <1>12 DEF RemoveForwarder
<1>13. CASE \E c \in Clients :
            \/ \E ok \in BOOLEAN : ConnectComplete(c, ok)
            \/ \E p \in Peers : Remove(p, c)
  BY <1>13 DEF ConnectComplete, Remove
<1>14. CASE UNCHANGED vars
  BY <1>14 DEF vars
<1> QED
  BY <1>8, <1>9, <1>10, <1>11, <1>12, <1>13, <1>14 DEF Next

LEMMA ListenInit == Init => P!Init
BY DEF Init, L!Init, P!Init, L!Requests, P!Requests

LEMMA ListenImplemented == Spec => P!Spec
BY ListenInit, ListenStep, PTL DEF Spec, P!Spec

\* What StreamListenProofs shows of the queue.
LEMMA QueueInvariant == Spec => []P!OrderInv
<1>1. P!Spec => []P!OrderInv
  BY P!OrderInvariant, Bounds
<1> QED
  BY <1>1, ListenImplemented, PTL

-----------------------------------------------------------------------------
(* The steps *)

LEMMA UnderwaySent ==
    /\ \A p, m : Underway(p, m) <=> m \in Sent(chan[p])
    /\ \A p, m : Underway(p, m)' <=> m \in Sent(chan'[p])
BY DEF Underway, Sent

\* Where the answer for a client is.
LEMMA AnsweredSent ==
    /\ \A c : Answered(c) <=>
        \/ \E r \in 1 .. MaxAccepts : AcceptOk(r, c) \in Sent(Near)
        \/ sock["near"][c] = "connecting"
        \/ Accepted(c) \in Sent(Far)
        \/ Close(c) \in Sent(Far)
    /\ \A c : Answered(c)' <=>
        \/ \E r \in 1 .. MaxAccepts : AcceptOk(r, c) \in Sent(Near')
        \/ sock'["near"][c] = "connecting"
        \/ Accepted(c) \in Sent(Far')
        \/ Close(c) \in Sent(Far')
BY UnderwaySent DEF Answered, Near, Far

LEMMA PeerNames ==
    /\ "near" \in Peers /\ "far" \in Peers
    /\ Other("near") = "far" /\ Other("far") = "near"
BY DEF Peers, Other

LEMMA NoMessages ==
    /\ <<>> \in Seq(Messages)
    /\ \A q \in Seq(Messages) : q \o <<>> = q /\ <<>> \o q = q
BY EmptySeq, ConcatEmptySeq

LEMMA FewMessages ==
    /\ \A m \in Messages : <<m>> \in Seq(Messages) /\ Tail(<<m>>) = <<>>
    /\ \A m, n \in Messages : <<m, n>> \in Seq(Messages)
OBVIOUS

\* The queue of the listening socket, as this module needs it.
LEMMA QueueFacts ==
    ASSUME P!OrderInv
    PROVE  /\ accept_reqs \in Seq(1 .. MaxAccepts)
           /\ calls \in [1 .. MaxAccepts -> {"new", "waiting", "ok", "cancelled", "dropped"}]
           /\ listener \in {"new", "open", "gone"}
           /\ \A r \in 1 .. MaxAccepts : r \in Sent(accept_reqs) <=> calls[r] = "waiting"
           /\ accept_reqs # <<>> =>
                /\ Head(accept_reqs) \in 1 .. MaxAccepts
                /\ calls[Head(accept_reqs)] = "waiting"
<1>1. /\ accept_reqs \in Seq(1 .. MaxAccepts)
      /\ calls \in [1 .. MaxAccepts -> {"new", "waiting", "ok", "cancelled", "dropped"}]
      /\ listener \in {"new", "open", "gone"}
  BY DEF P!OrderInv, P!TypeOK, P!Requests
<1>2. \A r \in 1 .. MaxAccepts : r \in Sent(accept_reqs) <=> calls[r] = "waiting"
  BY DEF P!OrderInv, P!QueueMatches, P!Requests, Sent
<1>3. accept_reqs # <<>> =>
        1 \in DOMAIN accept_reqs /\ Head(accept_reqs) = accept_reqs[1]
                                 /\ accept_reqs[1] \in 1 .. MaxAccepts
  <2> SUFFICES ASSUME accept_reqs # <<>>
               PROVE  1 \in DOMAIN accept_reqs /\ Head(accept_reqs) = accept_reqs[1]
                                               /\ accept_reqs[1] \in 1 .. MaxAccepts
    OBVIOUS
  <2>1. 1 \in 1 .. Len(accept_reqs) /\ DOMAIN accept_reqs = 1 .. Len(accept_reqs)
    BY <1>1
  <2>2. Head(accept_reqs) = accept_reqs[1]
    BY <1>1
  <2>3. accept_reqs[1] \in 1 .. MaxAccepts
    BY <1>1, <2>1, ElementOfSeq
  <2> QED
    BY <2>1, <2>2, <2>3
<1> QED
  BY <1>1, <1>2, <1>3 DEF Sent

\* What is told the forwarder when the listening socket is removed.
LEMMA DropFacts ==
    ASSUME P!OrderInv
    PROVE  LET msgs == [i \in DOMAIN accept_reqs |-> AcceptError(accept_reqs[i])] IN
           /\ msgs \in Seq(Messages)
           /\ \A m \in Sent(msgs) : \E r \in 1 .. MaxAccepts :
                m = AcceptError(r) /\ calls[r] = "waiting"
           /\ \A i \in DOMAIN msgs : msgs[i].type = "ACCEPT_error"
           /\ accept_reqs = <<>> => msgs = <<>>
<1> DEFINE msgs == [i \in DOMAIN accept_reqs |-> AcceptError(accept_reqs[i])]
<1>1. /\ accept_reqs \in Seq(1 .. MaxAccepts)
      /\ \A r \in 1 .. MaxAccepts : r \in Sent(accept_reqs) <=> calls[r] = "waiting"
  BY QueueFacts
<1>2. DOMAIN accept_reqs = 1 .. Len(accept_reqs) /\ Len(accept_reqs) \in Nat
  BY <1>1
<1>3. \A i \in DOMAIN accept_reqs :
        accept_reqs[i] \in 1 .. MaxAccepts /\ accept_reqs[i] \in Sent(accept_reqs)
  <2>1. \A i \in DOMAIN accept_reqs : accept_reqs[i] \in 1 .. MaxAccepts
    BY <1>1, <1>2, ElementOfSeq
  <2> QED
    BY <2>1 DEF Sent
<1>4. \A i \in 1 .. Len(accept_reqs) : AcceptError(accept_reqs[i]) \in Messages
  BY <1>2, <1>3, MessagesIn
<1>5. msgs \in [1 .. Len(accept_reqs) -> Messages]
  BY <1>2, <1>4
<1>6. msgs \in Seq(Messages)
  BY <1>2, <1>5, SeqDef
<1>7. \A m \in Sent(msgs) : \E r \in 1 .. MaxAccepts :
        m = AcceptError(r) /\ calls[r] = "waiting"
  BY <1>1, <1>3 DEF Sent
<1>8. \A i \in DOMAIN msgs : msgs[i].type = "ACCEPT_error"
  BY MessageFields
<1>9. accept_reqs = <<>> => msgs = <<>>
  <2> SUFFICES ASSUME accept_reqs = <<>>
               PROVE  msgs = <<>>
    OBVIOUS
  <2>1. Len(accept_reqs) = 0
    OBVIOUS
  <2>2. Len(msgs) = 0
    BY <1>2, <1>5, <2>1, LenProperties, <1>6
  <2> QED
    BY <1>6, <2>2, EmptySeq
<1> HIDE DEF msgs
<1> QED
  BY <1>6, <1>7, <1>8, <1>9 DEF msgs

\* What a step that doesn't touch the entries leaves of the answers.
LEMMA AnswersRemain ==
    ASSUME AnsweredUnlessRemoved, sock' = sock,
           forwarder = "gone" => forwarder' = "gone",
           \A m \in Sent(Near) : m.type = "ACCEPT_ok" => m \in Sent(Near'),
           \A m \in Sent(Far) : m.type \in {"ACCEPTED", "CLOSE"} => m \in Sent(Far')
    PROVE  AnsweredUnlessRemoved'
<1> SUFFICES ASSUME forwarder' # "gone", NEW c \in Clients, sock["far"][c] = "waiting"
             PROVE  Answered(c)'
  BY DEF AnsweredUnlessRemoved, AcceptedOrClosed
<1>1. Answered(c)
  BY DEF AnsweredUnlessRemoved, AcceptedOrClosed
<1> QED
  BY <1>1, AnsweredSent, MessageFields

\* As long as the forwarder doesn't know the listening socket, nothing else is
\* to be shown.
LEMMA SetUpEnough == TypeOK /\ SetUp /\ ~rid /\ ~resubmitted => AcceptInv
<1> SUFFICES ASSUME TypeOK, SetUp, ~rid, ~resubmitted
             PROVE  AcceptInv
  OBVIOUS
<1>1. /\ nextCall = 1 /\ forwarder # "listening" /\ \A s \in Slots : slots[s] = 0
      /\ \A r \in L!Requests : calls[r] = "new"
      /\ \A p \in Peers, c \in Clients : sock[p][c] = "new"
      /\ \/ listener = "new" /\ Far = <<Socket>> /\ Near = <<>>
         \/ Far = <<>> /\ \E ok \in BOOLEAN :
              Near = <<SocketDone(ok)>> /\ (ok => listener # "new")
         \/ Far = <<>> /\ Near = <<>>
  BY DEF SetUp
<1>2. /\ \A m \in Sent(Far) : m = Socket
      /\ \A m \in Sent(Near) : \E ok \in BOOLEAN : m = SocketDone(ok)
  BY <1>1, SentFacts
<1>3. Channels
  <2>1. \A m \in Sent(Far) : FarMessage(m)
    BY <1>2, MessageFields DEF FarMessage
  <2>2. \A m \in Sent(Near) : NearMessage(m)
    BY <1>2, MessageFields DEF NearMessage
  <2>3. FarOrder
    BY <1>2, MessageFields DEF FarOrder, Sent
  <2>4. NearOrder
    BY <1>2, MessageFields DEF NearOrder, Sent
  <2> QED
    BY <2>1, <2>2, <2>3, <2>4 DEF Channels
<1>4. \A r \in L!Requests : r >= 1
  BY DEF L!Requests
<1>5. CallPlaces
  BY <1>1, <1>4 DEF CallPlaces, L!Requests
<1>6. NoneAfterRemoval
  BY <1>1 DEF NoneAfterRemoval
<1>7. SlotsOK
  BY <1>1 DEF SlotsOK
<1>8. ClientsInOrder
  BY <1>1, PeerNames DEF ClientsInOrder, Clients
<1>9. AnsweredUnlessRemoved
  BY <1>1, PeerNames DEF AnsweredUnlessRemoved, AcceptedOrClosed
<1> QED
  BY <1>3, <1>5, <1>6, <1>7, <1>8, <1>9 DEF AcceptInv, Known

\* What becomes of one entry leaves the others as they are.
LEMMA SockUpdate ==
    ASSUME TypeOK, NEW p \in Peers, NEW c \in Clients,
           NEW v \in {"new", "waiting", "connecting", "up", "gone"},
           sock' = [sock EXCEPT ![p][c] = v]
    PROVE  /\ sock' \in [Peers -> [Clients -> {"new", "waiting", "connecting", "up", "gone"}]]
           /\ sock'[p][c] = v
           /\ \A q \in Peers, d \in Clients : q # p \/ d # c => sock'[q][d] = sock[q][d]
BY DEF TypeOK

\* Each step keeps the types.  A call is not submitted beyond the bound, since
\* the client whose answer makes room for it is a later one than those of the
\* calls before.
LEMMA TypeStep ==
    ASSUME AcceptInv, P!OrderInv, [Next]_vars
    PROVE  TypeOK'
<1> USE DEF TypeOK, listening, forwarding
<1>0. TypeOK /\ chan \in [Peers -> Seq(Messages)] /\ (\A m \in Sent(Near) : NearMessage(m))
  BY DEF AcceptInv, Channels
<1>1. ASSUME NEW p \in Peers, NEW m, Receive(p, m), Handled(p, <<>>)
      PROVE  chan' \in [Peers -> Seq(Messages)]
  BY <1>0, <1>1, NoMessages, HandledFacts
<1>2. ASSUME NEW p \in Peers, NEW m, NEW n \in Messages, Receive(p, m), Handled(p, <<n>>)
      PROVE  chan' \in [Peers -> Seq(Messages)]
  <2>1. <<n>> \in Seq(Messages)
    OBVIOUS
  <2> QED
    BY <1>0, <1>2, <2>1, HandledFacts
<1>3. ASSUME NEW p \in Peers, NEW m, NEW n \in Messages, NEW o \in Messages,
             Receive(p, m), Handled(p, <<n, o>>)
      PROVE  chan' \in [Peers -> Seq(Messages)]
  <2>1. <<n, o>> \in Seq(Messages)
    OBVIOUS
  <2> QED
    BY <1>0, <1>3, <2>1, HandledFacts
<1>4. ASSUME NEW p \in Peers, NEW n \in Messages, Send(p, <<n>>) \/ Send(p, <<>>)
      PROVE  chan' \in [Peers -> Seq(Messages)]
  <2>1. <<n>> \in Seq(Messages)
    OBVIOUS
  <2> QED
    BY <1>0, <1>4, <2>1, NoMessages, SendFacts
<1>5. CASE HandleSocket
  BY <1>0, <1>1, <1>2, <1>5, PeerNames, MessagesIn DEF HandleSocket
<1>6. CASE HandleAccept
  BY <1>0, <1>1, <1>2, <1>6, PeerNames, MessagesIn DEF HandleAccept
<1>7. CASE HandleCancel
  BY <1>0, <1>1, <1>7, PeerNames DEF HandleCancel
<1>8. CASE HandleCloseListener
  BY <1>0, <1>1, <1>8, PeerNames DEF HandleCloseListener
<1>9. CASE HandleAccepted
  <2>1. PICK c \in Clients : Receive("far", Accepted(c)) /\ Handled("far", <<>>)
                             /\ \/ /\ sock' = [sock EXCEPT !["far"][c] = "up"]
                                   /\ links' = links \cup {c}
                                \/ UNCHANGED <<sock, links>>
    BY <1>9 DEF HandleAccepted
  <2> QED
    BY <1>0, <1>1, <1>9, <2>1, PeerNames, SockUpdate DEF HandleAccepted
<1>10. CASE SocketComplete
  <2>1. PICK ok \in BOOLEAN : Receive("near", SocketDone(ok))
            /\ (Handled("near", <<>>) \/ Handled("near", <<AcceptCall(1), AcceptCall(2)>>))
    BY <1>10 DEF SocketComplete
  <2>2. AcceptCall(1) \in Messages /\ AcceptCall(2) \in Messages
    BY Bounds, MessagesIn
  <2>3. chan' \in [Peers -> Seq(Messages)]
    BY <1>1, <1>3, <2>1, <2>2, PeerNames
  <2>4. /\ nextCall' \in 1 .. MaxAccepts + 1
        /\ slots' \in [Slots -> 0 .. MaxAccepts]
    BY <1>0, <1>10, Bounds DEF SocketComplete, Slots
  <2> QED
    BY <1>0, <1>10, <2>3, <2>4 DEF SocketComplete
<1>11. CASE AcceptComplete
  <2> PICK r \in 1 .. MaxAccepts, c \in Clients :
            /\ Receive("near", AcceptOk(r, c))
            /\ \/ \E s \in Slots : slots[s] = r /\ Forward(c, s)
               \/ /\ \A s \in Slots : slots[s] # r
                  /\ Handled("near", <<>>)
                  /\ UNCHANGED <<slots, nextCall, sock>>
            /\ UNCHANGED <<listening, forwarder, rid, links>>
    BY <1>11 DEF AcceptComplete
  <2>1. CASE Handled("near", <<>>) /\ UNCHANGED <<slots, nextCall, sock>>
    BY <1>0, <1>1, <2>1, PeerNames
  <2>2. ASSUME NEW s \in Slots, slots[s] = r, Forward(c, s)
        PROVE  TypeOK'
    <3>1. AcceptOk(r, c) \in Sent(Near)
      <4>1. Near \in Seq(Messages) /\ Near # <<>> /\ AcceptOk(r, c) = Head(Near)
        BY <1>0, PeerNames DEF Receive, Near
      <4> QED
        BY <4>1, SentTail
    <3>2. nextCall <= c + 2
      BY <1>0, <3>1, MessageFields DEF NearMessage
    <3>3. nextCall \in 1 .. MaxAccepts
      BY <1>0, <3>2, Bounds DEF Clients
    <3>4. AcceptCall(nextCall) \in Messages /\ Close(c) \in Messages
      BY <3>3, MessagesIn
    <3>5. chan' \in [Peers -> Seq(Messages)]
      BY <1>2, <1>3, <2>2, <3>4, PeerNames DEF Forward
    <3>6. sock' \in [Peers -> [Clients -> {"new", "waiting", "connecting", "up", "gone"}]]
      BY <1>0, <2>2, PeerNames, SockUpdate DEF Forward
    <3>7. slots' \in [Slots -> 0 .. MaxAccepts] /\ nextCall' \in 1 .. MaxAccepts + 1
      BY <1>0, <2>2, <3>3, Bounds DEF Forward
    <3> QED
      BY <1>0, <3>5, <3>6, <3>7
  <2> QED
    BY <2>1, <2>2
<1>12. CASE AcceptFailed
  <2>1. PICK r \in 1 .. MaxAccepts :
            /\ Receive("near", AcceptError(r)) /\ Handled("near", <<>>)
            /\ slots' = [s \in Slots |-> IF slots[s] = r THEN 0 ELSE slots[s]]
    BY <1>12 DEF AcceptFailed
  <2>2. slots' \in [Slots -> 0 .. MaxAccepts]
    BY <1>0, <2>1, Bounds
  <2>3. chan' \in [Peers -> Seq(Messages)]
    BY <1>1, <2>1, PeerNames
  <2> QED
    BY <1>0, <1>12, <2>2, <2>3 DEF AcceptFailed
<1>13. ASSUME NEW p \in Peers, HandleClose(p)
       PROVE  TypeOK'
  BY <1>0, <1>1, <1>13, PeerNames DEF HandleClose
<1>14. ASSUME NEW kind \in L!AcceptKinds, AcceptSucceeds(kind)
       PROVE  TypeOK'
  <2>1. PICK c \in Clients : /\ sock' = [sock EXCEPT !["far"][c] = "waiting"]
                             /\ Send("far", <<AcceptOk(Head(accept_reqs), c)>>)
    BY <1>14 DEF AcceptSucceeds
  <2>2. Head(accept_reqs) \in 1 .. MaxAccepts
    BY <1>14, QueueFacts DEF AcceptSucceeds, L!AcceptSucceeds
  <2>3. AcceptOk(Head(accept_reqs), c) \in Messages
    BY <2>2, MessagesIn
  <2>4. chan' \in [Peers -> Seq(Messages)]
    BY <1>4, <2>1, <2>3, PeerNames
  <2> QED
    BY <1>0, <1>14, <2>1, <2>4, PeerNames DEF AcceptSucceeds
<1>15. CASE ListenerEvent
  BY <1>0, <1>15 DEF ListenerEvent
<1>16. CASE RemoveListener
  <2>1. [i \in DOMAIN accept_reqs |-> AcceptError(accept_reqs[i])] \in Seq(Messages)
    BY DropFacts
  <2>2. PICK answered \in BOOLEAN :
            Send("far", IF answered
                        THEN [i \in DOMAIN accept_reqs |-> AcceptError(accept_reqs[i])]
                        ELSE <<>>)
    BY <1>16 DEF RemoveListener
  <2>3. chan' \in [Peers -> Seq(Messages)]
    BY <1>0, <2>1, <2>2, NoMessages, SendFacts, PeerNames
  <2> QED
    BY <1>0, <1>16, <2>3 DEF RemoveListener
<1>17. CASE RemoveForwarder
  <2>1. \A s \in Slots : Cancels(slots[s]) \in Seq(Messages)
    <3> SUFFICES ASSUME NEW s \in Slots
                 PROVE  Cancels(slots[s]) \in Seq(Messages)
      OBVIOUS
    <3>1. CASE slots[s] = 0
      BY <3>1, NoMessages DEF Cancels
    <3>2. CASE slots[s] # 0
      <4>1. slots[s] \in 1 .. MaxAccepts
        BY <1>0, <3>2, Bounds
      <4>2. CancelCall(slots[s]) \in Messages
        BY <4>1, MessagesIn
      <4> QED
        BY <3>2, <4>2 DEF Cancels
    <3> QED
      BY <3>1, <3>2
  <2>2. (IF rid THEN <<CloseListener>> ELSE <<>>) \in Seq(Messages)
    BY NoMessages, MessagesIn
  <2> DEFINE a == Cancels(slots[1])
             b == Cancels(slots[2])
             d == IF rid THEN <<CloseListener>> ELSE <<>>
  <2>3. a \in Seq(Messages) /\ b \in Seq(Messages) /\ d \in Seq(Messages)
    BY <2>1, <2>2 DEF Slots
  <2>4. Send("near", a \o b \o d)
    BY <1>17 DEF RemoveForwarder
  <2> HIDE DEF a, b, d
  <2>5. a \o b \o d \in Seq(Messages)
    BY <2>3, SentConcat
  <2>6. chan' \in [Peers -> Seq(Messages)]
    BY <1>0, <2>4, <2>5, SendFacts, PeerNames
  <2> QED
    BY <1>0, <1>17, <2>6, Bounds DEF RemoveForwarder
<1>18. ASSUME NEW c \in Clients, NEW ok \in BOOLEAN, ConnectComplete(c, ok)
       PROVE  TypeOK'
  <2>1. (IF ok THEN Accepted(c) ELSE Close(c)) \in Messages
    BY MessagesIn
  <2>2. chan' \in [Peers -> Seq(Messages)]
    BY <1>4, <1>18, <2>1, PeerNames DEF ConnectComplete
  <2> QED
    BY <1>0, <1>18, <2>2, PeerNames DEF ConnectComplete
<1>19. ASSUME NEW c \in Clients, NEW p \in Peers, Remove(p, c)
       PROVE  TypeOK'
  <2>1. Close(c) \in Messages
    BY MessagesIn
  <2>2. chan' \in [Peers -> Seq(Messages)]
    BY <1>4, <1>19, <2>1 DEF Remove
  <2> QED
    BY <1>0, <1>19, <2>2 DEF Remove
<1>20. CASE UNCHANGED vars
  BY <1>0, <1>20 DEF vars
<1> QED
  BY <1>5, <1>6, <1>7, <1>8, <1>9, <1>10, <1>11, <1>12, <1>13, <1>14, <1>15, <1>16,
     <1>17, <1>18, <1>19, <1>20 DEF Next, Deliver

LEMMA SetUpStep ==
    ASSUME AcceptInv, P!OrderInv, TypeOK', [Next]_vars, ~rid
    PROVE  AcceptInv'
<1>0. /\ nextCall = 1 /\ forwarder # "listening" /\ \A s \in Slots : slots[s] = 0
      /\ accept_reqs = <<>>
      /\ \A r \in L!Requests : calls[r] = "new"
      /\ \A p \in Peers, c \in Clients : sock[p][c] = "new"
      /\ \/ listener = "new" /\ Far = <<Socket>> /\ Near = <<>>
         \/ Far = <<>> /\ \E ok \in BOOLEAN :
              Near = <<SocketDone(ok)>> /\ (ok => listener # "new")
         \/ Far = <<>> /\ Near = <<>>
      /\ ~resubmitted /\ TypeOK
      /\ chan \in [Peers -> Seq(Messages)]
  BY DEF AcceptInv, SetUp, NoneAfterRemoval, TypeOK
<1>1. /\ \A m \in Sent(Far) : m = Socket
      /\ \A m \in Sent(Near) : \E ok \in BOOLEAN : m = SocketDone(ok)
  BY <1>0, SentFacts
<1> USE DEF L!Requests, Near, Far, listening, forwarding
<1>2. /\ \A m : Receive("far", m) => m = Socket
      /\ \A m : Receive("near", m) => \E ok \in BOOLEAN : m = SocketDone(ok)
  <2>1. /\ \A m : Receive("far", m) => m \in Sent(Far)
        /\ \A m : Receive("near", m) => m \in Sent(Near)
    BY <1>0, PeerNames, SentTail DEF Receive
  <2> QED
    BY <1>1, <2>1
<1>3. ASSUME SetUp', ~rid', ~resubmitted'
      PROVE  AcceptInv'
  BY <1>3, SetUpEnough, PTL
\* What arrives, other than what belongs to the SOCKET call, and what needs a
\* request or a connection: there is no such thing.
<1>4. ~(HandleAccept \/ HandleCancel \/ HandleCloseListener \/ HandleAccepted)
  BY <1>2, MessageFields
     DEF HandleAccept, HandleCancel, HandleCloseListener, HandleAccepted
<1>5. ~(AcceptComplete \/ AcceptFailed \/ \E p \in Peers : HandleClose(p))
  BY <1>2, MessageFields DEF AcceptComplete, AcceptFailed, HandleClose, Peers
<1>6. ~(\E kind \in L!AcceptKinds : AcceptSucceeds(kind))
  BY <1>0 DEF AcceptSucceeds, L!AcceptSucceeds
<1>7. ~(\E c \in Clients : \/ \E ok \in BOOLEAN : ConnectComplete(c, ok)
                           \/ \E p \in Peers : Remove(p, c))
  BY <1>0, PeerNames DEF ConnectComplete, Remove
<1>8. CASE HandleSocket
  <2>1. Receive("far", Socket)
    BY <1>8 DEF HandleSocket
  <2>2. listener = "new" /\ Far = <<Socket>> /\ Near = <<>>
    BY <1>0, <2>1 DEF Receive
  <2>3. ASSUME NEW msgs \in Seq(Messages), Handled("far", msgs)
        PROVE  Far' = <<>> /\ Near' = msgs
    <3>1. Far' = Tail(Far) /\ Near' = Near \o msgs
      BY <1>0, <2>1, <2>3, PeerNames, HandledFacts
    <3> QED
      BY <2>2, <3>1, NoMessages, FewMessages, MessagesIn
  <2>4. /\ <<SocketDone(TRUE)>> \in Seq(Messages) /\ <<SocketDone(FALSE)>> \in Seq(Messages)
        /\ <<>> \in Seq(Messages)
    BY MessagesIn, NoMessages, FewMessages
  <2>5. /\ nextCall' = 1 /\ forwarder' = forwarder /\ slots' = slots /\ rid' = rid
        /\ sock' = sock /\ accept_reqs' = <<>> /\ calls' = calls /\ resubmitted' = resubmitted
    BY <1>0, <1>8 DEF HandleSocket, L!Listen
  <2>6. Far' = <<>> /\ ((\E ok \in BOOLEAN :
              Near' = <<SocketDone(ok)>> /\ (ok => listener' # "new")) \/ Near' = <<>>)
    <3>1. CASE L!Listen /\ Handled("far", <<SocketDone(TRUE)>>)
      BY <2>3, <2>4, <3>1 DEF L!Listen
    <3>2. CASE Handled("far", <<SocketDone(FALSE)>>)
      BY <2>3, <2>4, <3>2
    <3>3. CASE Handled("far", <<>>)
      BY <2>3, <2>4, <3>3
    <3> QED
      BY <1>8, <3>1, <3>2, <3>3 DEF HandleSocket
  <2>7. SetUp'
    BY <1>0, <2>5, <2>6 DEF SetUp
  <2> QED
    BY <1>0, <1>3, <2>5, <2>7
<1>9. CASE ListenerEvent
  <2>1. /\ nextCall' = 1 /\ forwarder' = forwarder /\ slots' = slots /\ rid' = rid
        /\ sock' = sock /\ accept_reqs' = <<>> /\ calls' = calls /\ resubmitted' = resubmitted
        /\ chan' = chan /\ listener' = listener
    BY <1>0, <1>9 DEF ListenerEvent, L!ClientConnects, L!AcceptFails, L!AcceptCancelled
  <2>2. SetUp'
    BY <1>0, <2>1 DEF SetUp
  <2> QED
    BY <1>0, <1>3, <2>1, <2>2
<1>10. CASE RemoveListener
  <2>1. /\ nextCall' = 1 /\ forwarder' = forwarder /\ slots' = slots /\ rid' = rid
        /\ sock' = sock /\ accept_reqs' = <<>> /\ resubmitted' = resubmitted
        /\ listener = "open" /\ listener' = "gone"
        /\ \A r \in L!Requests : calls'[r] = "new"
    BY <1>0, <1>10 DEF RemoveListener, L!Dispose
  <2>2. Send("far", <<>>)
    <3> DEFINE msgs == [i \in DOMAIN accept_reqs |-> AcceptError(accept_reqs[i])]
    <3>1. \E answered \in BOOLEAN : Send("far", IF answered THEN msgs ELSE <<>>)
      BY <1>10 DEF RemoveListener
    <3>2. msgs = <<>>
      BY <1>0, DropFacts
    <3> HIDE DEF msgs
    <3> QED
      BY <3>1, <3>2
  <2>3. Far' = Far /\ Near' = Near
    <3>1. Far' = Far /\ Near' = Near \o <<>>
      BY <1>0, <2>2, SendFacts, PeerNames, NoMessages
    <3> QED
      BY <1>0, <3>1, NoMessages, PeerNames
  <2>4. SetUp'
    BY <1>0, <2>1, <2>3 DEF SetUp
  <2> QED
    BY <1>0, <1>3, <2>1, <2>4
<1>11. CASE RemoveForwarder
  <2>1. /\ nextCall' = 1 /\ forwarder' = "gone" /\ rid' = rid
        /\ \A s \in Slots : slots'[s] = 0
        /\ UNCHANGED <<sock, accept_reqs, resubmitted, listener, calls>>
    BY <1>0, <1>11 DEF RemoveForwarder
  <2>2. Cancels(slots[1]) = <<>> /\ Cancels(slots[2]) = <<>>
    BY <1>0 DEF Cancels, Slots
  <2>3. Send("near", <<>> \o <<>> \o <<>>)
    BY <1>11, <2>2 DEF RemoveForwarder
  <2>4. Far' = Far /\ Near' = Near
    BY <1>0, <2>3, SendFacts, PeerNames, NoMessages
  <2>5. SetUp'
    BY <1>0, <2>1, <2>4 DEF SetUp
  <2> QED
    BY <1>0, <1>3, <2>1, <2>5
<1>12. CASE UNCHANGED vars
  <2>1. SetUp' /\ ~rid' /\ ~resubmitted'
    BY <1>0, <1>12 DEF vars, SetUp
  <2> QED
    BY <1>3, <2>1
<1>13. CASE SocketComplete
  <2> PICK ok \in BOOLEAN :
        /\ Receive("near", SocketDone(ok))
        /\ \/ /\ forwarder = "gone"
              /\ Handled("near", <<>>)
              /\ UNCHANGED forwarding
           \/ /\ forwarder # "gone" /\ ok
              /\ forwarder' = "listening"
              /\ rid' = TRUE
              /\ slots' = [s \in Slots |-> s]
              /\ nextCall' = Cardinality(Slots) + 1
              /\ Handled("near", <<AcceptCall(1), AcceptCall(2)>>)
           \/ /\ forwarder # "gone" /\ ~ok
              /\ forwarder' = "error"
              /\ Handled("near", <<>>)
              /\ UNCHANGED <<rid, slots, nextCall>>
        /\ UNCHANGED <<listening, sock, links>>
    BY <1>13 DEF SocketComplete
  <2>1. Near = <<SocketDone(ok)>> /\ Far = <<>> /\ (ok => listener # "new")
    BY <1>0, MessageFields DEF Receive
  <2>2. ASSUME NEW msgs \in Seq(Messages), Handled("near", msgs)
        PROVE  Near' = <<>> /\ Far' = msgs
    <3>1. Near' = Tail(Near) /\ Far' = Far \o msgs
      BY <1>0, <2>2, PeerNames, HandledFacts
    <3> QED
      BY <2>1, <3>1, NoMessages, FewMessages, MessagesIn
  <2>3. CASE Handled("near", <<>>) /\ UNCHANGED <<rid, slots, nextCall>>
             /\ forwarder' \in {forwarder, "error"}
    <3>1. Near' = <<>> /\ Far' = <<>>
      BY <2>2, <2>3, NoMessages
    <3>2. SetUp'
      BY <1>0, <2>3, <3>1 DEF SetUp
    <3> QED
      BY <1>0, <1>3, <2>3, <3>2
  <2>4. CASE /\ ok /\ forwarder' = "listening" /\ rid' = TRUE
             /\ slots' = [s \in Slots |-> s] /\ nextCall' = Cardinality(Slots) + 1
             /\ Handled("near", <<AcceptCall(1), AcceptCall(2)>>)
    <3>1. AcceptCall(1) \in Messages /\ AcceptCall(2) \in Messages /\ nextCall' = 3
      BY <2>4, Bounds, MessagesIn
    <3>2. <<AcceptCall(1), AcceptCall(2)>> \in Seq(Messages)
      BY <3>1
    <3>3. Near' = <<>> /\ Far' = <<AcceptCall(1), AcceptCall(2)>>
      BY <2>2, <2>4, <3>2
    <3>4. Sent(Near') = {} /\ Sent(Far') = {AcceptCall(1), AcceptCall(2)}
      BY <3>3, SentFacts
    <3>5. \A r \in L!Requests : calls'[r] = "new"
      BY <1>0
    <3>6. slots'[1] = 1 /\ slots'[2] = 2 /\ Held(1)' /\ Held(2)'
      BY <2>4 DEF Held, Slots
    <3>7. 1 \in L!Requests /\ 2 \in L!Requests
      BY Bounds
    <3>8. \A m \in Sent(Far') : FarMessage(m)'
      BY <2>4, <3>1, <3>4, <3>5, <3>6, <3>7, MessageFields DEF FarMessage
    <3>9. FarOrder'
      <4>1. /\ DOMAIN Far' = {1, 2} /\ Far'[1] = AcceptCall(1) /\ Far'[2] = AcceptCall(2)
        BY <3>3
      <4> HIDE DEF Far
      <4> QED
        BY <4>1, MessageFields DEF FarOrder
    <3>10. NearOrder'
      BY <3>3 DEF NearOrder
    <3>11. Channels'
      BY <3>4, <3>8, <3>9, <3>10 DEF Channels
    <3>12. CallPlaces'
      <4>1. \A r \in L!Requests : r < 3 => r = 1 \/ r = 2
        BY Bounds
      <4> QED
        BY <3>1, <3>4, <3>5, <4>1 DEF CallPlaces
    <3>13. NoneAfterRemoval'
      BY <1>0, <2>4, <3>5 DEF NoneAfterRemoval
    <3>14. SlotsOK'
      BY <2>4, <3>1, <3>6 DEF SlotsOK, Slots
    <3>15. ClientsInOrder'
      BY <1>0, <3>1, PeerNames DEF ClientsInOrder, Clients
    <3>16. AnsweredUnlessRemoved'
      BY <1>0, PeerNames DEF AnsweredUnlessRemoved, AcceptedOrClosed
    <3>17. SetUp' /\ Known'
      BY <2>1, <2>4, <3>1 DEF SetUp, Known
    <3> QED
      BY <3>11, <3>12, <3>13, <3>14, <3>15, <3>16, <3>17 DEF AcceptInv
  <2> QED
    BY <2>3, <2>4
<1> QED
  BY <1>4, <1>5, <1>6, <1>7, <1>8, <1>9, <1>10, <1>11, <1>12, <1>13 DEF Next, Deliver

\* What remains as it is when the step is no completion of the SOCKET call.
LEMMA KnownRemains ==
    ASSUME AcceptInv, rid, rid' = rid, nextCall' = nextCall \/ nextCall' = nextCall + 1,
           listener' = listener \/ listener' = "gone",
           forwarder' \in {forwarder, "error", "gone"}
    PROVE  SetUp' /\ Known'
BY DEF AcceptInv, SetUp, Known, TypeOK

\* The parts of the invariant, for use.
LEMMA Parts ==
    ASSUME AcceptInv
    PROVE  /\ TypeOK /\ CallPlaces /\ NoneAfterRemoval /\ SlotsOK /\ ClientsInOrder
           /\ AnsweredUnlessRemoved /\ FarOrder /\ NearOrder
           /\ \A m \in Sent(Far) : FarMessage(m) /\ m \in Messages
           /\ \A m \in Sent(Near) : NearMessage(m) /\ m \in Messages
           /\ chan \in [Peers -> Seq(Messages)]
           /\ Far \in Seq(Messages) /\ Near \in Seq(Messages)
<1>1. chan \in [Peers -> Seq(Messages)] /\ Far \in Seq(Messages) /\ Near \in Seq(Messages)
  BY PeerNames DEF AcceptInv, TypeOK, Near, Far
<1>2. \A q \in Seq(Messages) : \A m \in Sent(q) : m \in Messages
  BY DEF Sent
<1> QED
  BY <1>1, <1>2 DEF AcceptInv, Channels

\* Where each call is after a step.
LEMMA CallPlacesNext ==
    ASSUME \A q \in 1 .. MaxAccepts :
            /\ q >= nextCall' => calls'[q] = "new"
            /\ listener' = "open" /\ q < nextCall' /\ calls'[q] = "new"
                => AcceptCall(q) \in Sent(Far')
            /\ calls'[q] = "dropped" => listener' = "gone"
            /\ calls'[q] = "waiting" /\ forwarder' # "gone" => \E s \in Slots : slots'[s] = q,
           \A s \in Slots, q \in 1 .. MaxAccepts :
            listener' = "open" /\ slots'[s] = q /\ calls'[q] = "ok"
                => \E c \in Clients : AcceptOk(q, c) \in Sent(Near')
    PROVE  CallPlaces'
BY DEF CallPlaces, Held, L!Requests

LEMMA HandleAcceptStep ==
    ASSUME AcceptInv, P!OrderInv, TypeOK', rid, HandleAccept
    PROVE  AcceptInv'
<1> USE DEF L!Requests
<1>0. PICK r \in 1 .. MaxAccepts :
        /\ Receive("far", AcceptCall(r))
        /\ \/ L!Accept(r) /\ Handled("far", <<>>)
           \/ /\ listener # "open"
              /\ Handled("far", <<AcceptError(r)>>)
              /\ UNCHANGED listening
        /\ UNCHANGED <<forwarding, sock, links>>
  BY DEF HandleAccept
<1>1. /\ forwarder' = forwarder /\ rid' = rid /\ slots' = slots /\ nextCall' = nextCall
      /\ sock' = sock
  BY <1>0 DEF forwarding
<1>2. AcceptCall(r) \in Sent(Far) /\ Far # <<>> /\ Head(Far) = AcceptCall(r)
  BY <1>0, Parts, SentTail DEF Receive, Far
<1>3. /\ r < nextCall /\ calls[r] = "new"
      /\ forwarder # "gone" => Held(r)
  BY <1>2, Parts, MessageFields DEF FarMessage
<1>4. \A q \in 1 .. MaxAccepts : calls[q] # "cancelled"
  BY <1>2, Parts, MessageFields DEF NoneAfterRemoval
<1>5. calls \in [1 .. MaxAccepts -> {"new", "waiting", "ok", "cancelled", "dropped"}]
  BY QueueFacts
<1>6. ASSUME NEW msgs \in Seq(Messages), Handled("far", msgs)
      PROVE  /\ Far' = Tail(Far) /\ Near' = Near \o msgs
             /\ Sent(Far') \subseteq Sent(Far)
             /\ Sent(Far) \subseteq Sent(Far') \cup {AcceptCall(r)}
             /\ Sent(Near') = Sent(Near) \cup Sent(msgs)
             /\ FarOrder'
             /\ \A m \in Sent(Far') : m.type = "ACCEPT" => r < m.call
  <2>1. /\ Far' = Tail(Far) /\ Near' = Near \o msgs
        /\ Sent(Far') \subseteq Sent(Far)
        /\ Sent(Far) \subseteq Sent(Far') \cup {AcceptCall(r)}
        /\ Sent(Near') = Sent(Near) \cup Sent(msgs)
    BY <1>0, <1>6, Parts, HandledFacts, PeerNames DEF Far, Near
  <2>2. FarOrder /\ Far \in Seq(Messages)
    BY Parts
  <2>3. FarOrder' /\ \A m \in Sent(Far') : m.type = "ACCEPT" =>
            (Head(Far).type = "ACCEPT" => Head(Far).call < m.call)
    BY <1>2, <2>1, <2>2, FarOrderTail
  <2>4. Head(Far).type = "ACCEPT" /\ Head(Far).call = r
    BY <1>2, MessageFields
  <2> QED
    BY <2>1, <2>3, <2>4
<1>7. CASE L!Accept(r) /\ Handled("far", <<>>)
  <2>1. /\ Far' = Tail(Far) /\ Near' = Near
        /\ Sent(Far') \subseteq Sent(Far)
        /\ Sent(Far) \subseteq Sent(Far') \cup {AcceptCall(r)}
        /\ FarOrder'
        /\ \A m \in Sent(Far') : m.type = "ACCEPT" => r < m.call
    BY <1>6, <1>7, NoMessages, Parts
  <2>2. /\ calls' = [calls EXCEPT ![r] = "waiting"]
        /\ listener' = listener
        /\ ~resubmitted'
    BY <1>4, <1>7, Parts DEF L!Accept, L!AfterCancellation, NoneAfterRemoval
  <2>3. \A q \in 1 .. MaxAccepts : calls'[q] = IF q = r THEN "waiting" ELSE calls[q]
    BY <1>5, <2>2
  <2>4. \A m \in Sent(Far') : FarMessage(m)'
    <3> SUFFICES ASSUME NEW m \in Sent(Far')
                 PROVE  FarMessage(m)'
      OBVIOUS
    <3>1. FarMessage(m) /\ m \in Messages
      BY <2>1, Parts
    <3>2. m.type = "ACCEPT" => m.call \in 1 .. MaxAccepts /\ m.call # r
      BY <2>1, <3>1, MessageShape
    <3> QED
      BY <1>1, <2>3, <3>1, <3>2 DEF FarMessage, Held
  <2>5. \A m \in Sent(Near') : NearMessage(m)'
    <3> SUFFICES ASSUME NEW m \in Sent(Near')
                 PROVE  NearMessage(m)'
      OBVIOUS
    <3>1. NearMessage(m) /\ m \in Messages
      BY <2>1, Parts
    <3>2. /\ m.type = "ACCEPT_ok" => m.call \in 1 .. MaxAccepts /\ m.call # r
          /\ m.type = "ACCEPT_error" => m.call \in 1 .. MaxAccepts /\ m.call # r
      BY <1>2, <1>3, <3>1, MessageShape DEF NearMessage
    <3> QED
      BY <1>1, <2>1, <2>3, <3>1, <3>2 DEF NearMessage, Held
  <2>6. Channels'
    BY <2>1, <2>4, <2>5, Parts DEF Channels, NearOrder
  <2>7. CallPlaces'
    <3>1. \A q \in 1 .. MaxAccepts : q # r => AcceptCall(q) # AcceptCall(r)
      BY MessageFields
    <3>2. ASSUME NEW q \in 1 .. MaxAccepts
          PROVE  /\ q >= nextCall => calls'[q] = "new"
                 /\ listener = "open" /\ q < nextCall /\ calls'[q] = "new"
                        => AcceptCall(q) \in Sent(Far')
                 /\ calls'[q] = "dropped" => listener = "gone"
                 /\ calls'[q] = "waiting" /\ forwarder # "gone" => Held(q)
      <4>1. /\ q >= nextCall => calls[q] = "new"
            /\ listener = "open" /\ q < nextCall /\ calls[q] = "new"
                    => AcceptCall(q) \in Sent(Far)
            /\ calls[q] = "dropped" => listener = "gone"
            /\ calls[q] = "waiting" /\ forwarder # "gone" => Held(q)
            /\ nextCall \in Int
        BY Parts DEF CallPlaces, TypeOK
      <4>2. CASE q = r
        BY <1>3, <2>3, <4>1, <4>2
      <4>3. CASE q # r
        BY <2>1, <2>3, <3>1, <4>1, <4>3
      <4> QED
        BY <4>2, <4>3
    <3>3. ASSUME NEW s \in Slots, NEW q \in 1 .. MaxAccepts,
                 listener = "open", slots[s] = q, calls'[q] = "ok"
          PROVE  \E c \in Clients : AcceptOk(q, c) \in Sent(Near)
      BY <2>3, <3>3, Parts DEF CallPlaces
    <3> QED
      BY <1>1, <2>1, <2>2, <3>2, <3>3, CallPlacesNext DEF Held
  <2>8. NoneAfterRemoval'
    <3>1. \A q \in 1 .. MaxAccepts : calls'[q] # "cancelled"
      BY <1>4, <2>3
    <3> QED
      BY <1>1, <2>2, <3>1, Parts DEF NoneAfterRemoval
  <2>9. SlotsOK' /\ ClientsInOrder'
    BY <1>1, Parts DEF SlotsOK, ClientsInOrder
  <2>10. AnsweredUnlessRemoved'
    BY <1>1, <2>1, Parts, AnswersRemain, MessageFields
  <2>11. SetUp' /\ Known'
    BY <1>1, <2>2, KnownRemains
  <2> QED
    BY <2>6, <2>7, <2>8, <2>9, <2>10, <2>11 DEF AcceptInv
<1>8. CASE listener # "open" /\ Handled("far", <<AcceptError(r)>>) /\ UNCHANGED listening
  <2>1. /\ Far' = Tail(Far) /\ Near' = Near \o <<AcceptError(r)>>
        /\ Sent(Far') \subseteq Sent(Far)
        /\ Sent(Far) \subseteq Sent(Far') \cup {AcceptCall(r)}
        /\ Sent(Near') = Sent(Near) \cup {AcceptError(r)}
        /\ FarOrder'
        /\ \A m \in Sent(Far') : m.type = "ACCEPT" => r < m.call
    <3>1. <<AcceptError(r)>> \in Seq(Messages)
      BY MessagesIn, FewMessages
    <3> QED
      BY <1>6, <1>8, <3>1, SentFacts
  <2>2. calls' = calls /\ listener' = listener /\ resubmitted' = resubmitted
    BY <1>8 DEF listening
  <2>3. \A m \in Sent(Far') : FarMessage(m)'
    BY <1>1, <2>1, <2>2, Parts DEF FarMessage, Held
  <2>4. \A m \in Sent(Near) : NearMessage(m)'
    BY <1>1, <2>1, <2>2, Parts DEF NearMessage, Held
  <2>5. NearMessage(AcceptError(r))'
    BY <1>1, <1>3, <2>1, <2>2, MessageFields DEF NearMessage
  <2>6. NearOrder'
    <3>1. /\ DOMAIN <<AcceptError(r)>> = {1} /\ <<AcceptError(r)>>[1] = AcceptError(r)
          /\ <<AcceptError(r)>> \in Seq(Messages)
      BY MessagesIn, FewMessages
    <3>2. \A i, j \in DOMAIN <<AcceptError(r)>> : i # j =>
            ~(/\ <<AcceptError(r)>>[i].type = "ACCEPT_ok"
              /\ <<AcceptError(r)>>[j].type = "ACCEPT_ok")
      BY <3>1
    <3>3. \A n \in Sent(<<AcceptError(r)>>) : n.type # "ACCEPT_ok"
      BY SentFacts, MessageFields
    <3> QED
      BY <2>1, <3>1, <3>2, <3>3, Parts, NearOrderMore
  <2>7. Channels'
    BY <2>1, <2>3, <2>4, <2>5, <2>6 DEF Channels
  <2>8. CallPlaces'
    BY <1>1, <1>8, <2>1, <2>2, Parts DEF CallPlaces, Held
  <2>9. NoneAfterRemoval' /\ SlotsOK' /\ ClientsInOrder'
    BY <1>1, <2>1, <2>2, Parts DEF NoneAfterRemoval, SlotsOK, ClientsInOrder
  <2>10. AnsweredUnlessRemoved'
    BY <1>1, <2>1, Parts, AnswersRemain, MessageFields
  <2>11. SetUp' /\ Known'
    BY <1>1, <2>2, KnownRemains
  <2> QED
    BY <2>7, <2>8, <2>9, <2>10, <2>11 DEF AcceptInv
<1> QED
  BY <1>0, <1>7, <1>8

LEMMA HandleCancelStep ==
    ASSUME AcceptInv, P!OrderInv, P!OrderInv', TypeOK', rid, HandleCancel
    PROVE  AcceptInv'
<1> USE DEF L!Requests
<1>0. PICK r \in 1 .. MaxAccepts :
        /\ Receive("far", CancelCall(r))
        /\ \/ L!RequestCancelled(r)
           \/ calls[r] # "waiting" /\ UNCHANGED listening
        /\ Handled("far", <<>>)
        /\ UNCHANGED <<forwarding, sock, links>>
  BY DEF HandleCancel
<1>1. /\ forwarder' = forwarder /\ rid' = rid /\ slots' = slots /\ nextCall' = nextCall
      /\ sock' = sock
  BY <1>0 DEF forwarding
<1>2. CancelCall(r) \in Sent(Far) /\ Far # <<>> /\ Head(Far) = CancelCall(r)
  BY <1>0, Parts, SentTail DEF Receive, Far
<1>3. forwarder = "gone"
  BY <1>2, Parts, MessageFields DEF FarMessage
<1>4. calls \in [1 .. MaxAccepts -> {"new", "waiting", "ok", "cancelled", "dropped"}]
  BY QueueFacts
<1>5. /\ Far' = Tail(Far) /\ Near' = Near
      /\ Sent(Far') \subseteq Sent(Far)
      /\ Sent(Far) \subseteq Sent(Far') \cup {CancelCall(r)}
  <2>1. /\ Far' = Tail(Far) /\ Near' = Near \o <<>>
        /\ Sent(Far') \subseteq Sent(Far)
        /\ Sent(Far) \subseteq Sent(Far') \cup {CancelCall(r)}
    BY <1>0, Parts, HandledFacts, PeerNames, NoMessages DEF Far, Near
  <2> QED
    BY <2>1, Parts, NoMessages
<1>6. FarOrder' /\ \A m \in Sent(Far') : m.type # "ACCEPT"
  <2>1. FarOrder /\ Far \in Seq(Messages)
    BY Parts
  <2>2. Head(Far).type = "cancel"
    BY <1>2, MessageFields
  <2> QED
    BY <1>2, <1>5, <2>1, <2>2, FarOrderTail
<1>7. /\ listener' = listener /\ resubmitted' = resubmitted
      /\ \/ calls' = calls
         \/ calls' = [calls EXCEPT ![r] = "cancelled"] /\ calls[r] = "waiting"
  <2>1. CASE L!RequestCancelled(r)
    <3>1. /\ listener' = listener /\ resubmitted' = resubmitted
          /\ calls' = [calls EXCEPT ![r] = "cancelled"]
          /\ \E i \in DOMAIN accept_reqs : accept_reqs[i] = r
      BY <2>1 DEF L!RequestCancelled
    <3>2. r \in Sent(accept_reqs)
      BY <3>1 DEF Sent
    <3> QED
      BY <3>1, <3>2, QueueFacts
  <2> QED
    BY <1>0, <2>1 DEF listening
<1>8. \A q \in 1 .. MaxAccepts :
        \/ calls'[q] = calls[q]
        \/ calls[q] = "waiting" /\ calls'[q] = "cancelled"
  BY <1>4, <1>7
<1>9. \A m \in Sent(Far') : FarMessage(m)'
  BY <1>1, <1>5, <1>6, Parts DEF FarMessage
<1>10. \A m \in Sent(Near') : NearMessage(m)'
  <2> SUFFICES ASSUME NEW m \in Sent(Near')
               PROVE  NearMessage(m)'
    OBVIOUS
  <2>1. NearMessage(m) /\ m \in Messages
    BY <1>5, Parts
  <2>2. m.type \in {"ACCEPT_ok", "ACCEPT_error"} => m.call \in 1 .. MaxAccepts
    BY <2>1, MessageShape
  <2> QED
    BY <1>1, <1>3, <1>5, <1>8, <2>1, <2>2 DEF NearMessage
<1>11. Channels'
  BY <1>5, <1>6, <1>9, <1>10, Parts DEF Channels, NearOrder
<1>12. CallPlaces'
  <2>1. ASSUME NEW q \in 1 .. MaxAccepts
        PROVE  /\ q >= nextCall => calls'[q] = "new"
               /\ listener = "open" /\ q < nextCall /\ calls'[q] = "new"
                    => AcceptCall(q) \in Sent(Far')
               /\ calls'[q] = "dropped" => listener = "gone"
    <3>1. /\ q >= nextCall => calls[q] = "new"
          /\ listener = "open" /\ q < nextCall /\ calls[q] = "new"
                => AcceptCall(q) \in Sent(Far)
          /\ calls[q] = "dropped" => listener = "gone"
      BY Parts DEF CallPlaces
    <3>2. AcceptCall(q) # CancelCall(r)
      BY MessageFields
    <3> QED
      BY <1>5, <1>8, <3>1, <3>2
  <2>2. \A s \in Slots : slots[s] \notin 1 .. MaxAccepts
    BY <1>3, Parts DEF NoneAfterRemoval
  <2> QED
    BY <1>1, <1>3, <1>7, <2>1, <2>2, CallPlacesNext
<1>13. NoneAfterRemoval' /\ SlotsOK' /\ ClientsInOrder'
  BY <1>1, <1>3, <1>6, <1>7, Parts DEF NoneAfterRemoval, SlotsOK, ClientsInOrder
<1>14. AnsweredUnlessRemoved'
  BY <1>1, <1>3 DEF AnsweredUnlessRemoved
<1>15. SetUp' /\ Known'
  BY <1>1, <1>7, KnownRemains
<1> QED
  BY <1>11, <1>12, <1>13, <1>14, <1>15 DEF AcceptInv

\* The removal of the listening socket, after which nothing is pending.
LEMMA DisposeStep ==
    ASSUME AcceptInv, P!OrderInv, TypeOK', rid, L!Dispose,
           forwarder' = forwarder, rid' = rid, slots' = slots, nextCall' = nextCall,
           sock' = sock, Channels',
           \A m \in Sent(Near) : m \in Sent(Near'),
           Sent(Far') \subseteq Sent(Far),
           \A m \in Sent(Far) : m.type \in {"ACCEPTED", "CLOSE"} => m \in Sent(Far')
    PROVE  AcceptInv'
<1> USE DEF L!Requests
<1>1. /\ listener = "open" /\ listener' = "gone" /\ resubmitted' = resubmitted
      /\ \A q \in 1 .. MaxAccepts :
            calls'[q] = IF calls[q] = "waiting" THEN "dropped" ELSE calls[q]
  BY DEF L!Dispose
<1>2. CallPlaces'
  <2>1. ASSUME NEW q \in 1 .. MaxAccepts
        PROVE  q >= nextCall => calls'[q] = "new"
    BY <1>1, Parts DEF CallPlaces
  <2> QED
    BY <1>1, <2>1, CallPlacesNext
<1>3. NoneAfterRemoval' /\ SlotsOK' /\ ClientsInOrder'
  BY <1>1, Parts DEF NoneAfterRemoval, SlotsOK, ClientsInOrder
<1>4. AnsweredUnlessRemoved'
  BY Parts, AnswersRemain
<1>5. SetUp' /\ Known'
  BY <1>1, KnownRemains
<1> QED
  BY <1>2, <1>3, <1>4, <1>5 DEF AcceptInv

LEMMA HandleCloseListenerStep ==
    ASSUME AcceptInv, P!OrderInv, TypeOK', rid, HandleCloseListener
    PROVE  AcceptInv'
<1> USE DEF L!Requests
<1>1. /\ forwarder' = forwarder /\ rid' = rid /\ slots' = slots /\ nextCall' = nextCall
      /\ sock' = sock
      /\ Receive("far", CloseListener) /\ Handled("far", <<>>)
      /\ L!Dispose \/ UNCHANGED listening
  BY DEF HandleCloseListener, forwarding
<1>2. /\ Far' = Tail(Far) /\ Near' = Near /\ Far # <<>>
      /\ Sent(Far') \subseteq Sent(Far)
      /\ Sent(Far) \subseteq Sent(Far') \cup {CloseListener}
  <2>1. /\ Far' = Tail(Far) /\ Near' = Near \o <<>> /\ Far # <<>>
        /\ Sent(Far') \subseteq Sent(Far)
        /\ Sent(Far) \subseteq Sent(Far') \cup {CloseListener}
    BY <1>1, Parts, HandledFacts, PeerNames, NoMessages DEF Far, Near
  <2> QED
    BY <2>1, Parts, NoMessages
<1>3. FarOrder'
  BY <1>2, Parts, FarOrderTail
<1>4. \/ calls' = calls
      \/ \A q \in 1 .. MaxAccepts :
            calls'[q] = IF calls[q] = "waiting" THEN "dropped" ELSE calls[q]
  BY <1>1 DEF L!Dispose, listening
<1>5. \A m \in Sent(Far') : FarMessage(m)'
  <2> SUFFICES ASSUME NEW m \in Sent(Far')
               PROVE  FarMessage(m)'
    OBVIOUS
  <2>1. FarMessage(m) /\ m \in Messages
    BY <1>2, Parts
  <2>2. m.type = "ACCEPT" => m.call \in 1 .. MaxAccepts
    BY <2>1, MessageShape
  <2> QED
    BY <1>1, <1>4, <2>1, <2>2 DEF FarMessage, Held
<1>6. \A m \in Sent(Near') : NearMessage(m)'
  <2> SUFFICES ASSUME NEW m \in Sent(Near')
               PROVE  NearMessage(m)'
    OBVIOUS
  <2>1. NearMessage(m) /\ m \in Messages
    BY <1>2, Parts
  <2>2. m.type \in {"ACCEPT_ok", "ACCEPT_error"} => m.call \in 1 .. MaxAccepts
    BY <2>1, MessageShape
  <2> QED
    BY <1>1, <1>2, <1>4, <2>1, <2>2 DEF NearMessage, Held
<1>7. Channels'
  BY <1>2, <1>3, <1>5, <1>6, Parts DEF Channels, NearOrder
<1>8. \A m \in Sent(Far) : m.type # "CLOSE_listener" => m \in Sent(Far')
  BY <1>2, MessageFields
<1>9. CASE L!Dispose
  BY <1>1, <1>2, <1>7, <1>8, <1>9, DisposeStep
<1>10. CASE UNCHANGED listening
  <2>1. listener' = listener /\ calls' = calls /\ resubmitted' = resubmitted
    BY <1>10 DEF listening
  <2>2. \A q \in 1 .. MaxAccepts : AcceptCall(q) \in Sent(Far) => AcceptCall(q) \in Sent(Far')
    BY <1>8, MessageFields
  <2>3. CallPlaces'
    BY <1>1, <1>2, <2>1, <2>2, Parts, CallPlacesNext DEF CallPlaces, Held
  <2>4. NoneAfterRemoval' /\ SlotsOK' /\ ClientsInOrder'
    BY <1>1, <1>2, <2>1, Parts DEF NoneAfterRemoval, SlotsOK, ClientsInOrder
  <2>5. AnsweredUnlessRemoved'
    BY <1>1, <1>2, <1>8, Parts, AnswersRemain
  <2>6. SetUp' /\ Known'
    BY <1>1, <2>1, KnownRemains
  <2> QED
    BY <1>7, <2>3, <2>4, <2>5, <2>6 DEF AcceptInv
<1> QED
  BY <1>1, <1>9, <1>10

LEMMA RemoveListenerStep ==
    ASSUME AcceptInv, P!OrderInv, TypeOK', rid, RemoveListener
    PROVE  AcceptInv'
<1> USE DEF L!Requests
<1> DEFINE errors == [i \in DOMAIN accept_reqs |-> AcceptError(accept_reqs[i])]
<1>1. /\ forwarder' = forwarder /\ rid' = rid /\ slots' = slots /\ nextCall' = nextCall
      /\ sock' = sock /\ L!Dispose
  BY DEF RemoveListener, forwarding
<1>2. PICK answered \in BOOLEAN : Send("far", IF answered THEN errors ELSE <<>>)
  BY DEF RemoveListener
<1>3. /\ errors \in Seq(Messages)
      /\ \A m \in Sent(errors) : \E r \in 1 .. MaxAccepts :
            m = AcceptError(r) /\ calls[r] = "waiting"
  BY DropFacts
<1> HIDE DEF errors
<1> DEFINE msgs == IF answered THEN errors ELSE <<>>
<1>4. /\ msgs \in Seq(Messages)
      /\ \A m \in Sent(msgs) : \E r \in 1 .. MaxAccepts :
            m = AcceptError(r) /\ calls[r] = "waiting"
      /\ Send("far", msgs)
  BY <1>2, <1>3, NoMessages, SentFacts
<1> HIDE DEF msgs
<1>5. /\ Far' = Far /\ Near' = Near \o msgs
      /\ Sent(Near') = Sent(Near) \cup Sent(msgs)
  BY <1>4, Parts, SendFacts, PeerNames DEF Far, Near
<1>6. \A q \in 1 .. MaxAccepts :
        calls'[q] = IF calls[q] = "waiting" THEN "dropped" ELSE calls[q]
  BY <1>1 DEF L!Dispose
<1>7. \A m \in Sent(Far') : FarMessage(m)'
  <2> SUFFICES ASSUME NEW m \in Sent(Far')
               PROVE  FarMessage(m)'
    OBVIOUS
  <2>1. FarMessage(m) /\ m \in Messages
    BY <1>5, Parts
  <2>2. m.type = "ACCEPT" => m.call \in 1 .. MaxAccepts
    BY <2>1, MessageShape
  <2> QED
    BY <1>1, <1>6, <2>1, <2>2 DEF FarMessage, Held
<1>8. \A m \in Sent(Near) : NearMessage(m)'
  <2> SUFFICES ASSUME NEW m \in Sent(Near)
               PROVE  NearMessage(m)'
    OBVIOUS
  <2>1. NearMessage(m) /\ m \in Messages
    BY Parts
  <2>2. m.type \in {"ACCEPT_ok", "ACCEPT_error"} => m.call \in 1 .. MaxAccepts
    BY <2>1, MessageShape
  <2> QED
    BY <1>1, <1>5, <1>6, <2>1, <2>2 DEF NearMessage, Held
<1>9. \A m \in Sent(msgs) : NearMessage(m)' /\ m.type = "ACCEPT_error"
  <2> SUFFICES ASSUME NEW r \in 1 .. MaxAccepts, calls[r] = "waiting"
               PROVE  NearMessage(AcceptError(r))'
    BY <1>4, MessageFields
  <2>1. r < nextCall
    <3>1. r >= nextCall => calls[r] = "new"
      BY Parts DEF CallPlaces
    <3>2. nextCall \in Int
      BY Parts, Bounds DEF TypeOK
    <3> QED
      BY <3>1, <3>2
  <2>2. AcceptCall(r) \notin Sent(Far)
    BY Parts, MessageFields DEF FarMessage
  <2> QED
    BY <1>1, <1>5, <1>6, <2>1, <2>2, MessageFields DEF NearMessage
<1>10. NearOrder'
  <2>1. \A i \in DOMAIN msgs : msgs[i].type = "ACCEPT_error"
    BY <1>9 DEF Sent
  <2> QED
    BY <1>4, <1>5, <1>9, <2>1, Parts, NearOrderMore
<1>11. Channels'
  BY <1>5, <1>7, <1>8, <1>9, <1>10, Parts DEF Channels, FarOrder
<1> QED
  BY <1>1, <1>5, <1>11, DisposeStep

LEMMA ListenerEventStep ==
    ASSUME AcceptInv, P!OrderInv, TypeOK', rid, ListenerEvent
    PROVE  AcceptInv'
<1>1. /\ forwarder' = forwarder /\ rid' = rid /\ slots' = slots /\ nextCall' = nextCall
      /\ sock' = sock /\ chan' = chan
      /\ listener' = listener /\ calls' = calls /\ resubmitted' = resubmitted
  BY DEF ListenerEvent, forwarding, L!ClientConnects, L!AcceptFails, L!AcceptCancelled
<1>2. Far' = Far /\ Near' = Near
  BY <1>1 DEF Far, Near
<1>3. Channels'
  BY <1>1, <1>2 DEF AcceptInv, Channels, FarOrder, NearOrder, FarMessage, NearMessage, Held
<1>4. CallPlaces'
  BY <1>1, <1>2, Parts DEF CallPlaces, Held, L!Requests
<1>5. NoneAfterRemoval' /\ SlotsOK' /\ ClientsInOrder'
  BY <1>1, <1>2, Parts DEF NoneAfterRemoval, SlotsOK, ClientsInOrder, L!Requests
<1>6. AnsweredUnlessRemoved'
  BY <1>1, <1>2, Parts, AnswersRemain
<1>7. SetUp' /\ Known'
  BY <1>1, KnownRemains
<1> QED
  BY <1>3, <1>4, <1>5, <1>6, <1>7 DEF AcceptInv

\* An accept succeeds: the first call in the queue is answered for the first
\* client that has not been answered for.
LEMMA AcceptSucceedsStep ==
    ASSUME AcceptInv, P!OrderInv, TypeOK', rid,
           NEW kind \in L!AcceptKinds, AcceptSucceeds(kind)
    PROVE  AcceptInv'
<1> USE DEF L!Requests
<1>0. PICK c \in Clients :
        /\ sock["far"][c] = "new"
        /\ \A d \in Clients : sock["far"][d] = "new" => c <= d
        /\ sock' = [sock EXCEPT !["far"][c] = "waiting"]
        /\ Send("far", <<AcceptOk(Head(accept_reqs), c)>>)
  BY DEF AcceptSucceeds
<1> PICK r : r = Head(accept_reqs)
  OBVIOUS
<1>1. /\ forwarder' = forwarder /\ rid' = rid /\ slots' = slots /\ nextCall' = nextCall
      /\ listener' = listener /\ listener = "open" /\ resubmitted' = resubmitted
      /\ accept_reqs # <<>> /\ calls' = [calls EXCEPT ![r] = "ok"]
  BY DEF AcceptSucceeds, L!AcceptSucceeds, forwarding
<1>2. /\ r \in 1 .. MaxAccepts /\ calls[r] = "waiting"
      /\ calls \in [1 .. MaxAccepts -> {"new", "waiting", "ok", "cancelled", "dropped"}]
  BY <1>1, QueueFacts
<1>3. \A q \in 1 .. MaxAccepts : calls'[q] = IF q = r THEN "ok" ELSE calls[q]
  BY <1>1, <1>2
<1>4. /\ sock'["far"][c] = "waiting"
      /\ \A q \in Peers, d \in Clients : q # "far" \/ d # c => sock'[q][d] = sock[q][d]
  BY <1>0, Parts, PeerNames, SockUpdate
<1>5. /\ Send("far", <<AcceptOk(r, c)>>) /\ AcceptOk(r, c) \in Messages
      /\ <<AcceptOk(r, c)>> \in Seq(Messages)
  BY <1>0, <1>2, MessagesIn, FewMessages
<1>6. /\ Far' = Far /\ Near' = Near \o <<AcceptOk(r, c)>>
      /\ Sent(Near') = Sent(Near) \cup {AcceptOk(r, c)}
  BY <1>5, Parts, SendFacts, PeerNames, SentFacts DEF Far, Near
<1>7. \A m \in Sent(Far') : FarMessage(m)'
  <2> SUFFICES ASSUME NEW m \in Sent(Far')
               PROVE  FarMessage(m)'
    OBVIOUS
  <2>1. FarMessage(m) /\ m \in Messages
    BY <1>6, Parts
  <2>2. m.type = "ACCEPT" => m.call \in 1 .. MaxAccepts
    BY <2>1, MessageShape
  <2> QED
    BY <1>1, <1>2, <1>3, <2>1, <2>2 DEF FarMessage, Held
<1>8. ASSUME NEW m \in Sent(Near)
      PROVE  /\ NearMessage(m)'
             /\ m.type = "ACCEPT_ok" => m.call # r /\ m.id < c
  <2>1. NearMessage(m) /\ m \in Messages
    BY <1>8, Parts
  <2>2. /\ m.type \in {"ACCEPT_ok", "ACCEPT_error"} => m.call \in 1 .. MaxAccepts
        /\ m.type \in {"ACCEPT_ok", "CLOSE"} => m.id \in Clients
    BY <2>1, MessageShape
  <2>3. m.type \in {"ACCEPT_ok", "ACCEPT_error"} => m.call # r
    BY <1>2, <2>1, <2>2 DEF NearMessage
  <2>4. m.type = "ACCEPT_ok" => m.id < c
    <3> SUFFICES ASSUME m.type = "ACCEPT_ok"
                 PROVE  m.id < c
      OBVIOUS
    <3>1. m.id \in Clients /\ sock["far"][m.id] # "new"
      BY <2>1, <2>2 DEF NearMessage
    <3>2. c < m.id => sock["far"][m.id] = "new"
      BY <1>0, <3>1, Parts DEF ClientsInOrder
    <3>3. m.id # c
      BY <1>0, <3>1
    <3> QED
      BY <3>1, <3>2, <3>3 DEF Clients
  <2>5. m.type \in {"ACCEPT_ok", "CLOSE"} =>
            sock'["far"][m.id] = IF m.id = c THEN "waiting" ELSE sock["far"][m.id]
    BY <1>4, <2>2, PeerNames
  <2>6. m.type = "CLOSE" => m.id # c
    BY <1>0, <2>1 DEF NearMessage
  <2> QED
    BY <1>1, <1>3, <1>6, <2>1, <2>2, <2>3, <2>4, <2>5, <2>6 DEF NearMessage, Held
<1>9. NearMessage(AcceptOk(r, c))'
  <2>1. nextCall <= c + 2
    BY <1>0, Parts DEF ClientsInOrder
  <2>2. forwarder # "gone" => Held(r)
    BY <1>2, Parts DEF CallPlaces
  <2>3. calls'[r] = "ok"
    BY <1>2, <1>3
  <2> QED
    <3>1. /\ AcceptOk(r, c).type = "ACCEPT_ok"
          /\ AcceptOk(r, c).call = r /\ AcceptOk(r, c).id = c
      BY MessageFields
    <3>2. forwarder' # "gone" => Held(r)'
      BY <1>1, <2>2 DEF Held
    <3>3. nextCall' <= c + 2 /\ sock'["far"][c] # "new"
      BY <1>1, <1>4, <2>1
    <3> QED
      BY <2>3, <3>1, <3>2, <3>3 DEF NearMessage
<1>10. NearOrder'
  <2>1. DOMAIN <<AcceptOk(r, c)>> = {1}
    OBVIOUS
  <2>2. \A m \in Sent(Near), n \in Sent(<<AcceptOk(r, c)>>) :
            m.type = "ACCEPT_ok" /\ n.type = "ACCEPT_ok" => m.call # n.call /\ m.id < n.id
    BY <1>8, SentFacts, MessageFields
  <2>3. \A i, j \in DOMAIN <<AcceptOk(r, c)>> : i # j =>
            ~(/\ <<AcceptOk(r, c)>>[i].type = "ACCEPT_ok"
              /\ <<AcceptOk(r, c)>>[j].type = "ACCEPT_ok")
    BY <2>1
  <2> QED
    BY <1>5, <1>6, <2>2, <2>3, Parts, NearOrderMore
<1>11. Channels'
  BY <1>6, <1>7, <1>8, <1>9, <1>10, Parts DEF Channels, FarOrder
<1>12. CallPlaces'
  <2>1. ASSUME NEW q \in 1 .. MaxAccepts
        PROVE  /\ q >= nextCall => calls'[q] = "new"
               /\ listener = "open" /\ q < nextCall /\ calls'[q] = "new"
                    => AcceptCall(q) \in Sent(Far)
               /\ calls'[q] = "dropped" => listener = "gone"
               /\ calls'[q] = "waiting" /\ forwarder # "gone"
                    => \E s \in Slots : slots[s] = q
    <3>1. /\ q >= nextCall => calls[q] = "new"
          /\ listener = "open" /\ q < nextCall /\ calls[q] = "new"
                => AcceptCall(q) \in Sent(Far)
          /\ calls[q] = "dropped" => listener = "gone"
          /\ calls[q] = "waiting" /\ forwarder # "gone"
                => \E s \in Slots : slots[s] = q
      BY Parts DEF CallPlaces, Held
    <3> QED
      BY <1>2, <1>3, <3>1
  <2>2. ASSUME NEW s \in Slots, NEW q \in 1 .. MaxAccepts,
               listener = "open", slots[s] = q, calls'[q] = "ok"
        PROVE  \E d \in Clients : AcceptOk(q, d) \in Sent(Near')
    <3>1. CASE q = r
      BY <1>6, <3>1
    <3>2. CASE q # r
      <4>1. calls[q] = "ok"
        BY <1>3, <2>2, <3>2
      <4> QED
        BY <1>6, <2>2, <4>1, Parts DEF CallPlaces
    <3> QED
      BY <3>1, <3>2
  <2> QED
    BY <1>1, <1>6, <2>1, <2>2, CallPlacesNext
<1>13. NoneAfterRemoval'
  <2>1. ASSUME NEW q \in 1 .. MaxAccepts, calls'[q] = "cancelled"
        PROVE  calls[q] = "cancelled"
    BY <1>3, <2>1
  <2> QED
    BY <1>1, <1>6, <2>1, Parts DEF NoneAfterRemoval
<1>14. SlotsOK'
  BY <1>1, Parts DEF SlotsOK
<1>15. ClientsInOrder'
  <2> SUFFICES ASSUME NEW d \in Clients, sock'["far"][d] = "new"
               PROVE  /\ nextCall <= d + 2
                      /\ \A e \in Clients : d < e => sock'["far"][e] = "new"
    BY <1>1 DEF ClientsInOrder
  <2>1. d # c /\ sock["far"][d] = "new"
    BY <1>4, PeerNames
  <2>2. c < d
    BY <1>0, <2>1 DEF Clients
  <2>3. \A e \in Clients : d < e => e # c
    BY <2>2 DEF Clients
  <2> QED
    BY <1>4, <2>1, <2>3, Parts, PeerNames DEF ClientsInOrder
<1>16. AnsweredUnlessRemoved'
  <2> SUFFICES ASSUME forwarder # "gone", NEW d \in Clients, sock'["far"][d] = "waiting"
               PROVE  Answered(d)'
    BY <1>1 DEF AnsweredUnlessRemoved, AcceptedOrClosed
  <2>1. CASE d = c
    BY <1>2, <1>6, <2>1, AnsweredSent
  <2>2. CASE d # c
    <3>1. sock["far"][d] = "waiting" /\ sock'["near"][d] = sock["near"][d]
      BY <1>4, <2>2, PeerNames
    <3>2. Answered(d)
      BY <3>1, Parts DEF AnsweredUnlessRemoved, AcceptedOrClosed
    <3> QED
      BY <1>6, <3>1, <3>2, AnsweredSent
  <2> QED
    BY <2>1, <2>2
<1>17. SetUp' /\ Known'
  BY <1>1, KnownRemains
<1> QED
  BY <1>11, <1>12, <1>13, <1>14, <1>15, <1>16, <1>17 DEF AcceptInv

\* What happens to a connection after it has been accepted concerns neither the
\* calls nor the order of the clients.
LEMMA ConnectionStep ==
    ASSUME AcceptInv, TypeOK', rid, UNCHANGED listening, UNCHANGED forwarding,
           FarOrder', NearOrder', AnsweredUnlessRemoved',
           \A m \in Sent(Far') : m \in Sent(Far) \/ m.type \in {"ACCEPTED", "CLOSE"},
           \A m \in Sent(Far) : m \in Sent(Far') \/ m.type \in {"ACCEPTED", "CLOSE"},
           \A m \in Sent(Near') :
                m \in Sent(Near) \/ (m.type = "CLOSE" /\ sock'["far"][m.id] = "gone"),
           \A m \in Sent(Near) : m \in Sent(Near') \/ m.type = "CLOSE",
           \A c \in Clients :
                /\ sock'["far"][c] = "new" <=> sock["far"][c] = "new"
                /\ sock["far"][c] = "gone" => sock'["far"][c] = "gone"
    PROVE  AcceptInv'
<1>1. /\ forwarder' = forwarder /\ rid' = rid /\ slots' = slots /\ nextCall' = nextCall
      /\ listener' = listener /\ calls' = calls /\ resubmitted' = resubmitted
  BY DEF listening, forwarding
<1>2. \A q : AcceptCall(q) \in Sent(Far) <=> AcceptCall(q) \in Sent(Far')
  BY MessageFields
<1>3. \A m \in Sent(Far') : FarMessage(m)'
  <2> SUFFICES ASSUME NEW m \in Sent(Far')
               PROVE  FarMessage(m)'
    OBVIOUS
  <2>1. CASE m \in Sent(Far)
    BY <1>1, <2>1, Parts DEF FarMessage, Held
  <2>2. CASE m.type \in {"ACCEPTED", "CLOSE"}
    BY <2>2 DEF FarMessage
  <2> QED
    BY <2>1, <2>2
<1>4. \A m \in Sent(Near') : NearMessage(m)'
  <2> SUFFICES ASSUME NEW m \in Sent(Near')
               PROVE  NearMessage(m)'
    OBVIOUS
  <2>1. CASE m \in Sent(Near)
    <3>1. NearMessage(m) /\ m \in Messages
      BY <2>1, Parts
    <3>2. m.type \in {"ACCEPT_ok", "CLOSE"} => m.id \in Clients
      BY <3>1, MessageShape
    <3> QED
      BY <1>1, <1>2, <3>1, <3>2 DEF NearMessage, Held
  <2>2. CASE m.type = "CLOSE" /\ sock'["far"][m.id] = "gone"
    BY <2>2 DEF NearMessage
  <2> QED
    BY <2>1, <2>2
<1>5. Channels'
  BY <1>3, <1>4 DEF Channels
<1>6. CallPlaces'
  <2>1. \A q \in 1 .. MaxAccepts :
            /\ q >= nextCall => calls[q] = "new"
            /\ listener = "open" /\ q < nextCall /\ calls[q] = "new"
                => AcceptCall(q) \in Sent(Far)
            /\ calls[q] = "dropped" => listener = "gone"
            /\ calls[q] = "waiting" /\ forwarder # "gone" => \E s \in Slots : slots[s] = q
    BY Parts DEF CallPlaces, Held, L!Requests
  <2>2. ASSUME NEW s \in Slots, NEW q \in 1 .. MaxAccepts,
               listener = "open", slots[s] = q, calls[q] = "ok"
        PROVE  \E c \in Clients : AcceptOk(q, c) \in Sent(Near')
    <3>1. PICK c \in Clients : AcceptOk(q, c) \in Sent(Near)
      BY <2>2, Parts DEF CallPlaces, L!Requests
    <3> QED
      BY <3>1, MessageFields
  <2> QED
    BY <1>1, <1>2, <2>1, <2>2, CallPlacesNext
<1>7. NoneAfterRemoval'
  BY <1>1, Parts DEF NoneAfterRemoval, L!Requests
<1>8. SlotsOK' /\ ClientsInOrder'
  BY <1>1, Parts DEF SlotsOK, ClientsInOrder
<1>9. SetUp' /\ Known'
  BY <1>1, KnownRemains
<1> QED
  BY <1>5, <1>6, <1>7, <1>8, <1>9 DEF AcceptInv

\* ACCEPTED or CLOSE is sent to the listening side, CLOSE to the other one.
LEMMA FarSendsOrder ==
    ASSUME AcceptInv, NEW n \in Messages, n.type # "ACCEPT",
           Far' = Far \o <<n>>
    PROVE  FarOrder'
<1>1. <<n>> \in Seq(Messages) /\ Sent(<<n>>) = {n} /\ DOMAIN <<n>> = {1} /\ <<n>>[1] = n
  BY FewMessages, SentFacts
<1>2. \A i, j \in DOMAIN <<n>> : i < j /\ <<n>>[j].type = "ACCEPT" =>
        /\ <<n>>[i].type # "cancel"
        /\ (<<n>>[i].type = "ACCEPT" => <<n>>[i].call < <<n>>[j].call)
  BY <1>1
<1>3. \A m \in Sent(Far), o \in Sent(<<n>>) : o.type = "ACCEPT" =>
        m.type # "cancel" /\ (m.type = "ACCEPT" => m.call < o.call)
  BY <1>1
<1> QED
  BY <1>1, <1>2, <1>3, Parts, FarOrderMore

LEMMA NearSendsOrder ==
    ASSUME AcceptInv, NEW n \in Messages, n.type # "ACCEPT_ok",
           Near' = Near \o <<n>>
    PROVE  NearOrder'
<1>1. <<n>> \in Seq(Messages) /\ Sent(<<n>>) = {n} /\ DOMAIN <<n>> = {1} /\ <<n>>[1] = n
  BY FewMessages, SentFacts
<1>2. \A i, j \in DOMAIN <<n>> : i # j =>
        ~(<<n>>[i].type = "ACCEPT_ok" /\ <<n>>[j].type = "ACCEPT_ok")
  BY <1>1
<1>3. \A m \in Sent(Near), o \in Sent(<<n>>) :
        m.type = "ACCEPT_ok" /\ o.type = "ACCEPT_ok" => m.call # o.call /\ m.id < o.id
  BY <1>1
<1> QED
  BY <1>1, <1>2, <1>3, Parts, NearOrderMore

LEMMA HandleAcceptedStep ==
    ASSUME AcceptInv, TypeOK', rid, HandleAccepted
    PROVE  AcceptInv'
<1>0. PICK c \in Clients :
        /\ Receive("far", Accepted(c))
        /\ IF sock["far"][c] = "waiting"
           THEN /\ sock' = [sock EXCEPT !["far"][c] = "up"]
                /\ links' = links \cup {c}
           ELSE UNCHANGED <<sock, links>>
        /\ Handled("far", <<>>)
        /\ UNCHANGED <<listening, forwarding>>
  BY DEF HandleAccepted
<1>1. /\ Far' = Tail(Far) /\ Near' = Near /\ Far # <<>>
      /\ Sent(Far') \subseteq Sent(Far)
      /\ Sent(Far) \subseteq Sent(Far') \cup {Accepted(c)}
  <2>1. /\ Far' = Tail(Far) /\ Near' = Near \o <<>> /\ Far # <<>>
        /\ Sent(Far') \subseteq Sent(Far)
        /\ Sent(Far) \subseteq Sent(Far') \cup {Accepted(c)}
    BY <1>0, Parts, HandledFacts, PeerNames, NoMessages DEF Far, Near
  <2> QED
    BY <2>1, Parts, NoMessages
<1>2. FarOrder' /\ NearOrder'
  BY <1>1, Parts, FarOrderTail DEF NearOrder
<1>3. \A p \in Peers, d \in Clients :
        sock'[p][d] = IF p = "far" /\ d = c /\ sock["far"][c] = "waiting" THEN "up"
                      ELSE sock[p][d]
  <2>1. CASE sock["far"][c] = "waiting"
    BY <1>0, <2>1, Parts, PeerNames, SockUpdate
  <2>2. CASE sock["far"][c] # "waiting"
    BY <1>0, <2>2
  <2> QED
    BY <2>1, <2>2
<1>4. AnsweredUnlessRemoved'
  <2> SUFFICES ASSUME forwarder # "gone", NEW d \in Clients, sock'["far"][d] = "waiting"
               PROVE  Answered(d)'
    BY <1>0 DEF AnsweredUnlessRemoved, AcceptedOrClosed, forwarding
  <2>1. d # c /\ sock["far"][d] = "waiting" /\ sock'["near"][d] = sock["near"][d]
    BY <1>3, PeerNames
  <2>2. Answered(d)
    BY <2>1, Parts DEF AnsweredUnlessRemoved, AcceptedOrClosed
  <2>3. Accepted(d) # Accepted(c) /\ Close(d) # Accepted(c)
    BY <2>1, MessageFields
  <2> QED
    BY <1>1, <2>1, <2>2, <2>3, AnsweredSent
<1> QED
  BY <1>0, <1>1, <1>2, <1>3, <1>4, PeerNames, MessageFields, ConnectionStep

LEMMA HandleCloseStep ==
    ASSUME AcceptInv, TypeOK', rid, NEW p \in Peers, HandleClose(p)
    PROVE  AcceptInv'
<1>0. PICK c \in Clients :
        /\ Receive(p, Close(c))
        /\ sock' = IF sock[p][c] = "new" THEN sock ELSE [sock EXCEPT ![p][c] = "gone"]
        /\ Handled(p, <<>>)
        /\ UNCHANGED <<listening, forwarding, links>>
  BY DEF HandleClose
<1>1. \A q \in Peers, d \in Clients :
        sock'[q][d] = IF q = p /\ d = c /\ sock[p][c] # "new" THEN "gone" ELSE sock[q][d]
  <2>1. CASE sock[p][c] # "new"
    <3>1. sock' = [sock EXCEPT ![p][c] = "gone"]
      BY <1>0, <2>1
    <3>2. /\ sock'[p][c] = "gone"
          /\ \A q \in Peers, d \in Clients : q # p \/ d # c => sock'[q][d] = sock[q][d]
      BY <3>1, Parts DEF TypeOK
    <3> QED
      BY <2>1, <3>2
  <2>2. CASE sock[p][c] = "new"
    BY <1>0, <2>2
  <2> QED
    BY <2>1, <2>2
<1>2. CASE p = "far"
  <2>1. /\ Far' = Tail(Far) /\ Near' = Near /\ Far # <<>>
        /\ Sent(Far') \subseteq Sent(Far)
        /\ Sent(Far) \subseteq Sent(Far') \cup {Close(c)}
    <3>1. /\ Far' = Tail(Far) /\ Near' = Near \o <<>> /\ Far # <<>>
          /\ Sent(Far') \subseteq Sent(Far)
          /\ Sent(Far) \subseteq Sent(Far') \cup {Close(c)}
      BY <1>0, <1>2, Parts, HandledFacts, PeerNames, NoMessages DEF Far, Near
    <3> QED
      BY <3>1, Parts, NoMessages
  <2>2. FarOrder' /\ NearOrder'
    BY <2>1, Parts, FarOrderTail DEF NearOrder
  <2>3. AnsweredUnlessRemoved'
    <3> SUFFICES ASSUME forwarder # "gone", NEW d \in Clients, sock'["far"][d] = "waiting"
                 PROVE  Answered(d)'
      BY <1>0 DEF AnsweredUnlessRemoved, AcceptedOrClosed, forwarding
    <3>1. d # c /\ sock["far"][d] = "waiting" /\ sock'["near"][d] = sock["near"][d]
      BY <1>1, <1>2, PeerNames
    <3>2. Answered(d)
      BY <3>1, Parts DEF AnsweredUnlessRemoved, AcceptedOrClosed
    <3>3. Accepted(d) # Close(c) /\ Close(d) # Close(c)
      BY <3>1, MessageFields
    <3> QED
      BY <2>1, <3>1, <3>2, <3>3, AnsweredSent
  <2> QED
    BY <1>0, <1>1, <1>2, <2>1, <2>2, <2>3, PeerNames, MessageFields, ConnectionStep
<1>3. CASE p = "near"
  <2>1. /\ Near' = Tail(Near) /\ Far' = Far /\ Near # <<>>
        /\ Close(c) \in Sent(Near)
        /\ Sent(Near') \subseteq Sent(Near)
        /\ Sent(Near) \subseteq Sent(Near') \cup {Close(c)}
    <3>1. /\ Near' = Tail(Near) /\ Far' = Far \o <<>> /\ Near # <<>>
          /\ Close(c) \in Sent(Near)
          /\ Sent(Near') \subseteq Sent(Near)
          /\ Sent(Near) \subseteq Sent(Near') \cup {Close(c)}
      BY <1>0, <1>3, Parts, HandledFacts, PeerNames, NoMessages DEF Far, Near
    <3> QED
      BY <3>1, Parts, NoMessages
  <2>2. FarOrder' /\ NearOrder'
    BY <2>1, Parts, NearOrderTail DEF FarOrder
  <2>3. sock["far"][c] = "gone"
    BY <2>1, Parts, MessageFields DEF NearMessage
  <2>4. \A d \in Clients : sock'["far"][d] = sock["far"][d]
    BY <1>1, <1>3, PeerNames
  <2>5. AnsweredUnlessRemoved'
    <3> SUFFICES ASSUME forwarder # "gone", NEW d \in Clients, sock'["far"][d] = "waiting"
                 PROVE  Answered(d)'
      BY <1>0 DEF AnsweredUnlessRemoved, AcceptedOrClosed, forwarding
    <3>1. d # c /\ sock["far"][d] = "waiting" /\ sock'["near"][d] = sock["near"][d]
      BY <1>1, <2>3, <2>4, PeerNames
    <3>2. Answered(d)
      BY <3>1, Parts DEF AnsweredUnlessRemoved, AcceptedOrClosed
    <3>3. \A q : AcceptOk(q, d) # Close(c)
      BY MessageFields
    <3> QED
      BY <2>1, <3>1, <3>2, <3>3, AnsweredSent
  <2> QED
    BY <1>0, <2>1, <2>2, <2>4, <2>5, MessageFields, ConnectionStep
<1> QED
  BY <1>2, <1>3 DEF Peers

LEMMA RemoveStep ==
    ASSUME AcceptInv, TypeOK', rid, NEW p \in Peers, NEW c \in Clients, Remove(p, c)
    PROVE  AcceptInv'
<1>0. /\ sock[p][c] \in {"waiting", "up"}
      /\ sock' = [sock EXCEPT ![p][c] = "gone"]
      /\ Send(p, <<>>) \/ Send(p, <<Close(c)>>)
      /\ UNCHANGED <<listening, forwarding, links>>
  BY DEF Remove
<1>1. \A q \in Peers, d \in Clients :
        sock'[q][d] = IF q = p /\ d = c THEN "gone" ELSE sock[q][d]
  <2>1. sock' = [sock EXCEPT ![p][c] = "gone"]
    BY <1>0
  <2>2. /\ sock'[p][c] = "gone"
        /\ \A q \in Peers, d \in Clients : q # p \/ d # c => sock'[q][d] = sock[q][d]
    BY <2>1, Parts DEF TypeOK
  <2> QED
    BY <2>2
<1>2. Close(c) \in Messages /\ <<Close(c)>> \in Seq(Messages) /\ Close(c).type = "CLOSE"
                           /\ Close(c).id = c
  BY MessagesIn, FewMessages, MessageFields
<1>3. CASE p = "far"
  <2>1. /\ Far' = Far
        /\ \/ Near' = Near
           \/ Near' = Near \o <<Close(c)>> /\ Sent(Near') = Sent(Near) \cup {Close(c)}
    <3>1. CASE Send(p, <<>>)
      <4>1. Far' = Far /\ Near' = Near \o <<>>
        BY <1>3, <3>1, Parts, SendFacts, PeerNames, NoMessages DEF Far, Near
      <4> QED
        BY <4>1, Parts, NoMessages
    <3>2. CASE Send(p, <<Close(c)>>)
      BY <1>2, <1>3, <3>2, Parts, SendFacts, PeerNames, SentFacts DEF Far, Near
    <3> QED
      BY <1>0, <3>1, <3>2
  <2>2. FarOrder'
    BY <2>1, Parts DEF FarOrder
  <2>3. NearOrder'
    <3>1. CASE Near' = Near
      BY <3>1, Parts DEF NearOrder
    <3>2. CASE Near' = Near \o <<Close(c)>>
      BY <1>2, <3>2, NearSendsOrder
    <3> QED
      BY <2>1, <3>1, <3>2
  <2>4. AnsweredUnlessRemoved'
    <3> SUFFICES ASSUME forwarder # "gone", NEW d \in Clients, sock'["far"][d] = "waiting"
                 PROVE  Answered(d)'
      BY <1>0 DEF AnsweredUnlessRemoved, AcceptedOrClosed, forwarding
    <3>1. d # c /\ sock["far"][d] = "waiting" /\ sock'["near"][d] = sock["near"][d]
      BY <1>1, <1>3, PeerNames
    <3>2. Answered(d)
      BY <3>1, Parts DEF AnsweredUnlessRemoved, AcceptedOrClosed
    <3> QED
      BY <2>1, <3>1, <3>2, AnsweredSent
  <2> QED
    BY <1>0, <1>1, <1>2, <1>3, <2>1, <2>2, <2>3, <2>4, PeerNames, ConnectionStep
<1>4. CASE p = "near"
  <2>1. /\ Near' = Near
        /\ \/ Far' = Far
           \/ Far' = Far \o <<Close(c)>> /\ Sent(Far') = Sent(Far) \cup {Close(c)}
    <3>1. CASE Send(p, <<>>)
      <4>1. Near' = Near /\ Far' = Far \o <<>>
        BY <1>4, <3>1, Parts, SendFacts, PeerNames, NoMessages DEF Far, Near
      <4> QED
        BY <4>1, Parts, NoMessages
    <3>2. CASE Send(p, <<Close(c)>>)
      BY <1>2, <1>4, <3>2, Parts, SendFacts, PeerNames, SentFacts DEF Far, Near
    <3> QED
      BY <1>0, <3>1, <3>2
  <2>2. NearOrder'
    BY <2>1, Parts DEF NearOrder
  <2>3. FarOrder'
    <3>1. CASE Far' = Far
      BY <3>1, Parts DEF FarOrder
    <3>2. CASE Far' = Far \o <<Close(c)>>
      BY <1>2, <3>2, FarSendsOrder
    <3> QED
      BY <2>1, <3>1, <3>2
  <2>4. AnsweredUnlessRemoved'
    <3> SUFFICES ASSUME forwarder # "gone", NEW d \in Clients, sock'["far"][d] = "waiting"
                 PROVE  Answered(d)'
      BY <1>0 DEF AnsweredUnlessRemoved, AcceptedOrClosed, forwarding
    <3>1. /\ sock["far"][d] = "waiting"
          /\ sock["near"][d] = "connecting" => sock'["near"][d] = "connecting"
      BY <1>0, <1>1, <1>4, PeerNames
    <3>2. Answered(d)
      BY <3>1, Parts DEF AnsweredUnlessRemoved, AcceptedOrClosed
    <3> QED
      BY <2>1, <3>1, <3>2, AnsweredSent
  <2> QED
    BY <1>0, <1>1, <1>2, <1>4, <2>1, <2>2, <2>3, <2>4, PeerNames, ConnectionStep
<1> QED
  BY <1>3, <1>4 DEF Peers

LEMMA ConnectCompleteStep ==
    ASSUME AcceptInv, TypeOK', rid, NEW c \in Clients, NEW ok \in BOOLEAN,
           ConnectComplete(c, ok)
    PROVE  AcceptInv'
<1> PICK n : n = IF ok THEN Accepted(c) ELSE Close(c)
  OBVIOUS
<1> PICK v : v = IF ok THEN "up" ELSE "gone"
  OBVIOUS
<1>0. /\ sock' = [sock EXCEPT !["near"][c] = v]
      /\ Send("near", <<n>>)
      /\ UNCHANGED <<listening, forwarding, links>>
      /\ n \in Messages /\ n.type \in {"ACCEPTED", "CLOSE"} /\ <<n>> \in Seq(Messages)
      /\ v \in {"new", "waiting", "connecting", "up", "gone"}
  BY MessagesIn, FewMessages, MessageFields DEF ConnectComplete
<1>1. \A q \in Peers, d \in Clients : q # "near" \/ d # c => sock'[q][d] = sock[q][d]
  BY <1>0, Parts, PeerNames, SockUpdate
<1>2. Near' = Near /\ Far' = Far \o <<n>> /\ Sent(Far') = Sent(Far) \cup {n}
  BY <1>0, Parts, SendFacts, PeerNames, SentFacts DEF Far, Near
<1>3. FarOrder' /\ NearOrder'
  BY <1>0, <1>2, FarSendsOrder, Parts DEF NearOrder
<1>4. AnsweredUnlessRemoved'
  <2> SUFFICES ASSUME forwarder # "gone", NEW d \in Clients, sock'["far"][d] = "waiting"
               PROVE  Answered(d)'
    BY <1>0 DEF AnsweredUnlessRemoved, AcceptedOrClosed, forwarding
  <2>1. CASE d = c
    BY <1>2, <2>1, AnsweredSent
  <2>2. CASE d # c
    <3>1. sock["far"][d] = "waiting" /\ sock'["near"][d] = sock["near"][d]
      BY <1>1, <2>2, PeerNames
    <3>2. Answered(d)
      BY <3>1, Parts DEF AnsweredUnlessRemoved, AcceptedOrClosed
    <3> QED
      BY <1>2, <3>1, <3>2, AnsweredSent
  <2> QED
    BY <2>1, <2>2
<1>5. \A d \in Clients : sock'["far"][d] = sock["far"][d]
  BY <1>1, PeerNames
<1> QED
  BY <1>0, <1>2, <1>3, <1>4, <1>5, ConnectionStep

\* The answer to an ACCEPT: in the slot comes the next call, and the client of
\* the answer is the one that makes room for it.
LEMMA ForwardStep ==
    ASSUME AcceptInv, TypeOK', rid, NEW r \in 1 .. MaxAccepts, NEW c \in Clients, NEW s \in Slots,
           Receive("near", AcceptOk(r, c)), slots[s] = r, Forward(c, s),
           UNCHANGED <<listening, forwarder, rid, links>>
    PROVE  AcceptInv'
<1>1. /\ calls[r] = "ok" /\ sock["far"][c] # "new" /\ nextCall <= c + 2
      /\ Near # <<>> /\ Head(Near) = AcceptOk(r, c) /\ AcceptOk(r, c) \in Sent(Near)
  <2>1. Near # <<>> /\ Head(Near) = AcceptOk(r, c) /\ AcceptOk(r, c) \in Sent(Near)
    BY Parts, SentTail DEF Near, Receive
  <2> QED
    BY <2>1, Parts, MessageFields DEF NearMessage
<1>2. forwarder # "gone"
  BY Parts DEF NoneAfterRemoval
<1>3. /\ listener' = listener /\ calls' = calls /\ resubmitted' = resubmitted
      /\ forwarder' = forwarder /\ rid' = rid
      /\ nextCall \in 1 .. MaxAccepts /\ nextCall' = nextCall + 1
  <2>1. nextCall \in 1 .. MaxAccepts
    BY <1>1, Parts, Bounds DEF TypeOK, Clients
  <2> QED
    BY <2>1 DEF listening, Forward
<1>4. /\ slots'[s] = nextCall
      /\ \A u \in Slots : u # s => slots'[u] = slots[u] /\ slots[u] # r
  BY Parts DEF TypeOK, Forward, SlotsOK
<1>5. calls[nextCall] = "new" /\ \A q \in Clients : q \in Int
  BY <1>3, Parts DEF CallPlaces, L!Requests, TypeOK, Clients
<1> PICK msgs \in Seq(Messages) :
        \/ /\ msgs = <<AcceptCall(nextCall)>> /\ Handled("near", msgs)
           /\ sock' = [sock EXCEPT !["near"][c] = "connecting"]
        \/ msgs = <<Close(c), AcceptCall(nextCall)>> /\ Handled("near", msgs)
  <2>1. AcceptCall(nextCall) \in Messages /\ Close(c) \in Messages
    BY <1>3, MessagesIn
  <2>2. /\ <<AcceptCall(nextCall)>> \in Seq(Messages)
        /\ <<Close(c), AcceptCall(nextCall)>> \in Seq(Messages)
    BY <2>1, FewMessages
  <2> QED
    BY <2>2 DEF Forward
<1>6. /\ msgs = <<AcceptCall(nextCall)>> \/ msgs = <<Close(c), AcceptCall(nextCall)>>
      /\ Handled("near", msgs)
      /\ Close(c) \in Sent(msgs) \/ sock'["near"][c] = "connecting"
      /\ Sent(msgs) \subseteq {Close(c), AcceptCall(nextCall)}
      /\ AcceptCall(nextCall) \in Sent(msgs)
  <2>1. CASE msgs = <<AcceptCall(nextCall)>> /\ Handled("near", msgs)
             /\ sock' = [sock EXCEPT !["near"][c] = "connecting"]
    <3>1. sock'["near"][c] = "connecting"
      BY <2>1, Parts, PeerNames DEF TypeOK
    <3>2. Sent(msgs) = {AcceptCall(nextCall)}
      BY <2>1, SentFacts
    <3> QED
      BY <2>1, <3>1, <3>2
  <2>2. CASE msgs = <<Close(c), AcceptCall(nextCall)>> /\ Handled("near", msgs)
    <3>1. Sent(msgs) = {Close(c), AcceptCall(nextCall)}
      BY <2>2, SentFacts
    <3> QED
      BY <2>2, <3>1
  <2> QED
    BY <2>1, <2>2
<1>7. /\ Near' = Tail(Near) /\ Far' = Far \o msgs
      /\ Sent(Near') \subseteq Sent(Near)
      /\ Sent(Near) \subseteq Sent(Near') \cup {AcceptOk(r, c)}
      /\ Sent(Far') = Sent(Far) \cup Sent(msgs)
  BY <1>6, Parts, HandledFacts, PeerNames DEF Near, Far
<1>8. /\ NearOrder'
      /\ \A m \in Sent(Near') : m.type = "ACCEPT_ok" => r # m.call /\ c < m.id
  <2>1. Head(Near).type = "ACCEPT_ok" /\ Head(Near).call = r /\ Head(Near).id = c
    BY <1>1, MessageFields
  <2>2. /\ NearOrder'
        /\ Head(Near).type = "ACCEPT_ok" =>
             \A m \in Sent(Near') : m.type = "ACCEPT_ok" =>
                Head(Near).call # m.call /\ Head(Near).id < m.id
    BY <1>1, <1>7, Parts, NearOrderTail
  <2> QED
    BY <2>1, <2>2
<1>9. /\ sock'["far"] = sock["far"]
      /\ \A d \in Clients : sock["near"][d] = "connecting" => sock'["near"][d] = "connecting"
  BY Parts, PeerNames DEF TypeOK, Forward
<1>10. \A m \in Sent(Far) : /\ m.type = "ACCEPT" =>
                                /\ m.call \in 1 .. MaxAccepts /\ m.call < nextCall
                                /\ calls[m.call] = "new" /\ Held(m.call)
                            /\ m.type # "cancel" /\ m.type # "SOCKET"
  BY <1>2, Parts, MessageShape DEF FarMessage, L!Requests
<1>11. FarOrder'
  <2>1. \A i, j \in DOMAIN msgs : i < j /\ msgs[j].type = "ACCEPT" =>
            msgs[i].type # "cancel" /\ (msgs[i].type = "ACCEPT" => msgs[i].call < msgs[j].call)
    BY <1>6, MessageFields
  <2>2. \A m \in Sent(Far), n \in Sent(msgs) : n.type = "ACCEPT" =>
            m.type # "cancel" /\ (m.type = "ACCEPT" => m.call < n.call)
    BY <1>6, <1>10, MessageFields
  <2> QED
    BY <1>7, <2>1, <2>2, Parts, FarOrderMore
<1>12. \A q : Held(q) /\ q # r => Held(q)'
  BY <1>4 DEF Held
<1>13. \A m \in Sent(Far') : FarMessage(m)'
  <2> SUFFICES ASSUME NEW m \in Sent(Far')
               PROVE  FarMessage(m)'
    OBVIOUS
  <2>1. CASE m \in Sent(Far)
    <3>1. m.type = "ACCEPT" => m.call # r /\ m.call < nextCall'
      BY <1>1, <1>3, <1>10, <2>1
    <3> QED
      BY <1>3, <1>10, <1>12, <2>1, <3>1 DEF FarMessage
  <2>2. CASE m = Close(c)
    BY <2>2, MessageFields DEF FarMessage
  <2>3. CASE m = AcceptCall(nextCall)
    <3>1. m.type = "ACCEPT" /\ m.call = nextCall /\ m.call < nextCall'
      BY <1>3, <2>3, MessageFields
    <3>2. (\E u \in Slots : slots'[u] = m.call)
      BY <1>4, <3>1
    <3> QED
      BY <1>3, <1>5, <3>1, <3>2 DEF FarMessage, Held
  <2> QED
    BY <1>6, <1>7, <2>1, <2>2, <2>3
<1>14. \A m \in Sent(Near') : NearMessage(m)'
  <2> SUFFICES ASSUME NEW m \in Sent(Near')
               PROVE  NearMessage(m)'
    OBVIOUS
  <2>1. NearMessage(m) /\ m \in Messages
    BY <1>7, Parts
  <2>2. CASE m.type = "ACCEPT_ok"
    <3>1. m.id \in Clients /\ m.call # r /\ c < m.id
      BY <1>8, <2>1, <2>2, MessageShape
    <3>2. nextCall' <= m.id + 2
      BY <1>1, <1>3, <1>5, <3>1
    <3> QED
      BY <1>2, <1>3, <1>9, <1>12, <2>1, <2>2, <3>1, <3>2 DEF NearMessage
  <2>3. CASE m.type = "ACCEPT_error"
    <3>1. m.call \in 1 .. MaxAccepts /\ m.call < nextCall
      BY <2>1, <2>3, MessageShape DEF NearMessage, L!Requests
    <3>2. m.call < nextCall' /\ m.call # nextCall
      BY <1>3, <3>1
    <3>3. AcceptCall(m.call) \notin Sent(Far')
      BY <1>6, <1>7, <2>1, <2>3, <3>2, MessageFields DEF NearMessage
    <3> QED
      BY <1>3, <2>1, <2>3, <3>2, <3>3 DEF NearMessage
  <2>4. CASE m.type \notin {"ACCEPT_ok", "ACCEPT_error"}
    BY <1>3, <1>9, <2>1, <2>4 DEF NearMessage
  <2> QED
    BY <2>2, <2>3, <2>4
<1>15. Channels'
  BY <1>8, <1>11, <1>13, <1>14 DEF Channels
<1>16. CallPlaces'
  <2>1. \A q \in 1 .. MaxAccepts :
            /\ q >= nextCall' => calls'[q] = "new"
            /\ listener' = "open" /\ q < nextCall' /\ calls'[q] = "new"
                => AcceptCall(q) \in Sent(Far')
            /\ calls'[q] = "dropped" => listener' = "gone"
            /\ calls'[q] = "waiting" /\ forwarder' # "gone" => \E u \in Slots : slots'[u] = q
    <3> TAKE q \in 1 .. MaxAccepts
    <3>1. q >= nextCall' => calls'[q] = "new"
      BY <1>3, Parts DEF CallPlaces, L!Requests
    <3>2. q < nextCall' => q < nextCall \/ q = nextCall
      BY <1>3
    <3>3. listener' = "open" /\ q < nextCall' /\ calls'[q] = "new"
                => AcceptCall(q) \in Sent(Far')
      BY <1>3, <1>6, <1>7, <3>2, Parts DEF CallPlaces, L!Requests
    <3>4. calls'[q] = "waiting" => \E u \in Slots : slots'[u] = q
      BY <1>1, <1>2, <1>3, <1>12, Parts DEF CallPlaces, L!Requests, Held
    <3> QED
      BY <1>3, <3>1, <3>3, <3>4, Parts DEF CallPlaces, L!Requests
  <2>2. \A u \in Slots, q \in 1 .. MaxAccepts :
            listener' = "open" /\ slots'[u] = q /\ calls'[q] = "ok"
                => \E d \in Clients : AcceptOk(q, d) \in Sent(Near')
    <3> SUFFICES ASSUME NEW u \in Slots, NEW q \in 1 .. MaxAccepts,
                        listener = "open", slots'[u] = q, calls[q] = "ok"
                 PROVE  \E d \in Clients : AcceptOk(q, d) \in Sent(Near')
      BY <1>3
    <3>1. u # s
      BY <1>4, <1>5
    <3>2. slots[u] = q /\ q # r
      BY <1>4, <3>1
    <3>3. PICK d \in Clients : AcceptOk(q, d) \in Sent(Near)
      BY <3>2, Parts DEF CallPlaces, L!Requests
    <3>4. AcceptOk(q, d) # AcceptOk(r, c)
      BY <3>2, MessageFields
    <3> QED
      BY <1>7, <3>3, <3>4
  <2> QED
    BY <2>1, <2>2, CallPlacesNext
<1>17. NoneAfterRemoval'
  BY <1>2, <1>3, Parts DEF NoneAfterRemoval
<1>18. SlotsOK'
  <2>1. \A u \in Slots : slots[u] < nextCall /\ slots[u] \in Int
    BY Parts, Bounds DEF SlotsOK, TypeOK
  <2>2. \A u \in Slots : slots'[u] < nextCall'
    BY <1>3, <1>4, <2>1
  <2>3. \A u \in Slots : u # s => slots'[u] # slots'[s]
    BY <1>3, <1>4, <2>1
  <2>4. \A u, w \in Slots : slots'[u] = slots'[w] /\ slots'[u] # 0 => u = w
    BY <1>4, <2>3, Parts DEF SlotsOK
  <2>5. forwarder' = "listening" => \A u \in Slots : slots'[u] # 0
    <3> SUFFICES ASSUME forwarder = "listening", NEW u \in Slots
                 PROVE  slots'[u] # 0
      BY <1>3
    <3>1. slots[u] # 0 /\ nextCall # 0
      BY <1>3, Parts DEF SlotsOK
    <3> QED
      BY <1>4, <3>1
  <2> QED
    BY <2>2, <2>4, <2>5 DEF SlotsOK
<1>19. ClientsInOrder'
  <2> SUFFICES ASSUME NEW d \in Clients, sock["far"][d] = "new"
               PROVE  nextCall' <= d + 2
    BY <1>9, Parts DEF ClientsInOrder
  <2>1. c < d
    BY <1>1, <1>5, Parts DEF ClientsInOrder
  <2> QED
    BY <1>1, <1>3, <1>5, <2>1
<1>20. AnsweredUnlessRemoved'
  <2> SUFFICES ASSUME NEW d \in Clients, sock'["far"][d] = "waiting"
               PROVE  Answered(d)'
    BY DEF AnsweredUnlessRemoved, AcceptedOrClosed
  <2>1. Answered(d)
    BY <1>2, <1>9, Parts DEF AnsweredUnlessRemoved, AcceptedOrClosed
  <2>2. CASE d = c
    <3>1. Close(c) \in Sent(Far') \/ sock'["near"][c] = "connecting"
      BY <1>6, <1>7
    <3> QED
      BY <2>2, <3>1, AnsweredSent
  <2>3. CASE d # c
    <3>1. \A q : AcceptOk(q, d) # AcceptOk(r, c)
      BY <2>3, MessageFields
    <3> QED
      BY <1>7, <1>9, <2>1, <3>1, AnsweredSent
  <2> QED
    BY <2>2, <2>3
<1>21. SetUp' /\ Known'
  BY <1>3, KnownRemains
<1> QED
  BY <1>15, <1>16, <1>17, <1>18, <1>19, <1>20, <1>21 DEF AcceptInv

LEMMA AcceptCompleteStep ==
    ASSUME AcceptInv, TypeOK', rid, AcceptComplete
    PROVE  AcceptInv'
<1> PICK r \in 1 .. MaxAccepts, c \in Clients :
        /\ Receive("near", AcceptOk(r, c))
        /\ \/ \E s \in Slots : slots[s] = r /\ Forward(c, s)
           \/ /\ \A s \in Slots : slots[s] # r
              /\ Handled("near", <<>>)
              /\ UNCHANGED <<slots, nextCall, sock>>
        /\ UNCHANGED <<listening, forwarder, rid, links>>
  BY DEF AcceptComplete
<1>1. CASE \E s \in Slots : slots[s] = r /\ Forward(c, s)
  BY <1>1, ForwardStep
\* No slot waits for it, since the forwarder was removed.
<1>2. CASE /\ \A s \in Slots : slots[s] # r
           /\ Handled("near", <<>>) /\ UNCHANGED <<slots, nextCall, sock>>
  <2>1. /\ Near' = Tail(Near) /\ Far' = Far /\ Near # <<>>
        /\ Head(Near) = AcceptOk(r, c) /\ AcceptOk(r, c) \in Sent(Near)
        /\ Sent(Near') \subseteq Sent(Near)
        /\ Sent(Near) \subseteq Sent(Near') \cup {AcceptOk(r, c)}
    <3>1. /\ Near' = Tail(Near) /\ Far' = Far \o <<>> /\ Near # <<>>
          /\ Head(Near) = AcceptOk(r, c) /\ AcceptOk(r, c) \in Sent(Near)
          /\ Sent(Near') \subseteq Sent(Near)
          /\ Sent(Near) \subseteq Sent(Near') \cup {AcceptOk(r, c)}
      BY <1>2, Parts, HandledFacts, PeerNames, NoMessages DEF Far, Near
    <3> QED
      BY <3>1, Parts, NoMessages
  <2>2. /\ listener' = listener /\ calls' = calls /\ resubmitted' = resubmitted
        /\ forwarder' = forwarder /\ rid' = rid /\ slots' = slots /\ nextCall' = nextCall
        /\ sock' = sock
    BY <1>2 DEF listening
  <2>3. forwarder = "gone"
    BY <1>2, <2>1, Parts, MessageFields DEF NearMessage, Held
  <2>4. Channels'
    <3>1. \A m \in Sent(Far') : FarMessage(m)'
      BY <2>1, <2>2, Parts DEF FarMessage, Held
    <3>2. \A m \in Sent(Near') : NearMessage(m)'
      BY <2>1, <2>2, Parts DEF NearMessage, Held
    <3>3. FarOrder'
      BY <2>1, Parts DEF FarOrder
    <3>4. NearOrder'
      BY <2>1, Parts, NearOrderTail
    <3> QED
      BY <3>1, <3>2, <3>3, <3>4 DEF Channels
  <2>5. CallPlaces'
    <3>1. \A s \in Slots, q \in 1 .. MaxAccepts : slots'[s] # q
      BY <2>2, <2>3, Parts DEF NoneAfterRemoval
    <3>2. \A q \in 1 .. MaxAccepts :
            /\ q >= nextCall' => calls'[q] = "new"
            /\ listener' = "open" /\ q < nextCall' /\ calls'[q] = "new"
                => AcceptCall(q) \in Sent(Far')
            /\ calls'[q] = "dropped" => listener' = "gone"
            /\ calls'[q] = "waiting" /\ forwarder' # "gone" => \E s \in Slots : slots'[s] = q
      BY <2>1, <2>2, <2>3, Parts DEF CallPlaces, L!Requests
    <3> QED
      BY <3>1, <3>2, CallPlacesNext
  <2>6. NoneAfterRemoval' /\ SlotsOK' /\ ClientsInOrder'
    BY <2>1, <2>2, Parts DEF NoneAfterRemoval, SlotsOK, ClientsInOrder
  <2>7. AnsweredUnlessRemoved'
    BY <2>2, <2>3 DEF AnsweredUnlessRemoved
  <2>8. SetUp' /\ Known'
    BY <2>2, KnownRemains
  <2> QED
    BY <2>4, <2>5, <2>6, <2>7, <2>8 DEF AcceptInv
<1> QED
  BY <1>1, <1>2

\* An error gives the slot up.
LEMMA AcceptFailedStep ==
    ASSUME AcceptInv, TypeOK', rid, AcceptFailed
    PROVE  AcceptInv'
<1> PICK r \in 1 .. MaxAccepts :
        /\ Receive("near", AcceptError(r))
        /\ slots' = [s \in Slots |-> IF slots[s] = r THEN 0 ELSE slots[s]]
        /\ forwarder' = IF slots' = slots THEN forwarder ELSE "error"
        /\ Handled("near", <<>>)
        /\ UNCHANGED <<listening, rid, nextCall, sock, links>>
  BY DEF AcceptFailed
<1>1. /\ Near' = Tail(Near) /\ Far' = Far /\ Near # <<>>
      /\ Head(Near) = AcceptError(r) /\ AcceptError(r) \in Sent(Near)
      /\ Sent(Near') \subseteq Sent(Near)
      /\ Sent(Near) \subseteq Sent(Near') \cup {AcceptError(r)}
  <2>1. /\ Near' = Tail(Near) /\ Far' = Far \o <<>> /\ Near # <<>>
        /\ Head(Near) = AcceptError(r) /\ AcceptError(r) \in Sent(Near)
        /\ Sent(Near') \subseteq Sent(Near)
        /\ Sent(Near) \subseteq Sent(Near') \cup {AcceptError(r)}
    BY Parts, HandledFacts, PeerNames, NoMessages DEF Far, Near
  <2> QED
    BY <2>1, Parts, NoMessages
<1>2. /\ listener' = listener /\ calls' = calls /\ resubmitted' = resubmitted
      /\ rid' = rid /\ nextCall' = nextCall /\ sock' = sock
  BY DEF listening
<1>3. /\ calls[r] \notin {"waiting", "ok"} /\ AcceptCall(r) \notin Sent(Far) /\ r # 0
      /\ r < nextCall
  BY <1>1, Parts, MessageFields DEF NearMessage
<1>4. \A s \in Slots : slots'[s] = IF slots[s] = r THEN 0 ELSE slots[s]
  OBVIOUS
<1>5. /\ forwarder' \in {forwarder, "error"}
      /\ forwarder' # "error" => slots' = slots
      /\ forwarder' = "gone" <=> forwarder = "gone"
      /\ forwarder' = "listening" => forwarder = "listening" /\ slots' = slots
  <2>1. forwarder = "gone" => slots' = slots
    <3> SUFFICES ASSUME forwarder = "gone"
                 PROVE  slots' = slots
      OBVIOUS
    <3>1. \A s \in Slots : slots[s] = 0
      BY Parts DEF NoneAfterRemoval
    <3>2. \A s \in Slots : slots'[s] = slots[s]
      BY <1>4, <3>1
    <3> QED
      BY <3>2, Parts DEF TypeOK
  <2>2. CASE slots' = slots
    BY <2>1, <2>2
  <2>3. CASE slots' # slots
    BY <2>1, <2>3
  <2> QED
    BY <2>2, <2>3
<1>6. \A q : q # r /\ Held(q) => Held(q)'
  BY <1>4 DEF Held
<1>7. Channels'
  <2>1. ASSUME NEW m \in Sent(Far')
        PROVE  FarMessage(m)'
    <3>1. m \in Sent(Far) /\ FarMessage(m) /\ m \in Messages
      BY <1>1, <2>1, Parts
    <3>2. m.type = "ACCEPT" => m.call # r
      BY <1>3, <3>1, MessageShape
    <3> QED
      BY <1>2, <1>5, <1>6, <3>1, <3>2 DEF FarMessage
  <2>2. ASSUME NEW m \in Sent(Near')
        PROVE  NearMessage(m)'
    <3>1. m \in Sent(Near) /\ NearMessage(m)
      BY <1>1, <2>2, Parts
    <3>2. m.type = "ACCEPT_ok" => m.call # r
      BY <1>3, <3>1 DEF NearMessage
    <3> QED
      BY <1>1, <1>2, <1>5, <1>6, <3>1, <3>2 DEF NearMessage
  <2>3. FarOrder'
    BY <1>1, Parts DEF FarOrder
  <2>4. NearOrder'
    BY <1>1, Parts, NearOrderTail
  <2> QED
    BY <2>1, <2>2, <2>3, <2>4 DEF Channels
<1>8. CallPlaces'
  <2>1. \A q \in 1 .. MaxAccepts :
            /\ q >= nextCall' => calls'[q] = "new"
            /\ listener' = "open" /\ q < nextCall' /\ calls'[q] = "new"
                => AcceptCall(q) \in Sent(Far')
            /\ calls'[q] = "dropped" => listener' = "gone"
    BY <1>1, <1>2, Parts DEF CallPlaces, L!Requests
  <2>2. \A q \in 1 .. MaxAccepts :
            calls'[q] = "waiting" /\ forwarder' # "gone" => \E s \in Slots : slots'[s] = q
    BY <1>2, <1>3, <1>5, <1>6, Parts DEF CallPlaces, L!Requests, Held
  <2>3. \A s \in Slots, q \in 1 .. MaxAccepts :
            listener' = "open" /\ slots'[s] = q /\ calls'[q] = "ok"
                => \E c \in Clients : AcceptOk(q, c) \in Sent(Near')
    <3> SUFFICES ASSUME NEW s \in Slots, NEW q \in 1 .. MaxAccepts,
                        listener = "open", slots'[s] = q, calls[q] = "ok"
                 PROVE  \E c \in Clients : AcceptOk(q, c) \in Sent(Near')
      BY <1>2
    <3>1. slots[s] = q
      BY <1>4
    <3>2. PICK c \in Clients : AcceptOk(q, c) \in Sent(Near)
      BY <3>1, Parts DEF CallPlaces, L!Requests
    <3> QED
      BY <1>1, <3>2, MessageFields
  <2> QED
    BY <2>1, <2>2, <2>3, CallPlacesNext
<1>9. NoneAfterRemoval'
  BY <1>1, <1>2, <1>4, <1>5, Parts DEF NoneAfterRemoval
<1>10. SlotsOK'
  <2>1. \A s \in Slots : slots'[s] < nextCall'
    BY <1>2, <1>3, <1>4, Parts, Bounds DEF SlotsOK, TypeOK
  <2> QED
    BY <1>4, <1>5, <2>1, Parts DEF SlotsOK
<1>11. ClientsInOrder'
  BY <1>2, Parts DEF ClientsInOrder
<1>12. AnsweredUnlessRemoved'
  <2> SUFFICES ASSUME forwarder # "gone", NEW c \in Clients, sock["far"][c] = "waiting"
               PROVE  Answered(c)'
    BY <1>2, <1>5 DEF AnsweredUnlessRemoved, AcceptedOrClosed
  <2>1. Answered(c)
    BY Parts DEF AnsweredUnlessRemoved, AcceptedOrClosed
  <2>2. \A q : AcceptOk(q, c) # AcceptError(r)
    BY MessageFields
  <2> QED
    BY <1>1, <1>2, <2>1, <2>2, AnsweredSent
<1>13. SetUp' /\ Known'
  BY <1>2, <1>5, KnownRemains
<1> QED
  BY <1>7, <1>8, <1>9, <1>10, <1>11, <1>12, <1>13 DEF AcceptInv

\* The calls in the slots are cancelled, and the listening socket is closed.
LEMMA RemoveForwarderStep ==
    ASSUME AcceptInv, TypeOK', rid, RemoveForwarder
    PROVE  AcceptInv'
<1> PICK a : a = Cancels(slots[1])
  OBVIOUS
<1> PICK b : b = Cancels(slots[2])
  OBVIOUS
<1> PICK d : d = IF rid THEN <<CloseListener>> ELSE <<>>
  OBVIOUS
<1>1. /\ forwarder # "gone" /\ forwarder' = "gone"
      /\ \A s \in Slots : slots'[s] = 0
      /\ Send("near", a \o b \o d)
      /\ listener' = listener /\ calls' = calls /\ resubmitted' = resubmitted
      /\ rid' = rid /\ nextCall' = nextCall /\ sock' = sock
  BY DEF RemoveForwarder, listening
<1>2. \A s \in Slots :
        /\ Cancels(slots[s]) \in Seq(Messages)
        /\ \A m \in Sent(Cancels(slots[s])) : m.type = "cancel"
  <2> SUFFICES ASSUME NEW s \in Slots
               PROVE  /\ Cancels(slots[s]) \in Seq(Messages)
                      /\ \A m \in Sent(Cancels(slots[s])) : m.type = "cancel"
    OBVIOUS
  <2>1. CASE slots[s] = 0
    <3>1. Cancels(slots[s]) = <<>>
      BY <2>1 DEF Cancels
    <3> QED
      BY <3>1, NoMessages, SentFacts
  <2>2. CASE slots[s] # 0
    <3>1. slots[s] \in 1 .. MaxAccepts
      BY <2>2, Parts, Bounds DEF TypeOK
    <3>2. CancelCall(slots[s]) \in Messages /\ Cancels(slots[s]) = <<CancelCall(slots[s])>>
      BY <2>2, <3>1, MessagesIn DEF Cancels
    <3>3. Sent(<<CancelCall(slots[s])>>) = {CancelCall(slots[s])}
      BY SentFacts
    <3> QED
      BY <3>2, <3>3, FewMessages, MessageFields
  <2> QED
    BY <2>1, <2>2
<1>3. /\ a \in Seq(Messages) /\ b \in Seq(Messages)
      /\ \A m \in Sent(a) \cup Sent(b) : m.type = "cancel"
  BY <1>2 DEF Slots
<1>4. d \in Seq(Messages) /\ \A m \in Sent(d) : m.type = "CLOSE_listener"
  BY MessagesIn, NoMessages, FewMessages, SentFacts, MessageFields
<1>5. PICK msgs \in Seq(Messages) :
        /\ Send("near", msgs)
        /\ \A m \in Sent(msgs) : m.type \in {"cancel", "CLOSE_listener"}
  <2>1. a \o b \in Seq(Messages) /\ Sent(a \o b) = Sent(a) \cup Sent(b)
    BY <1>3, SentConcat
  <2>2. /\ a \o b \o d \in Seq(Messages)
        /\ Sent(a \o b \o d) = Sent(a \o b) \cup Sent(d)
    BY <1>4, <2>1, SentConcat
  <2>3. \A m \in Sent(a \o b \o d) : m.type \in {"cancel", "CLOSE_listener"}
    BY <1>3, <1>4, <2>1, <2>2
  <2> QED
    BY <1>1, <2>2, <2>3
<1>6. Near' = Near /\ Far' = Far \o msgs /\ Sent(Far') = Sent(Far) \cup Sent(msgs)
  BY <1>5, Parts, SendFacts, PeerNames DEF Near, Far
<1>7. \A q : AcceptCall(q) \in Sent(Far') <=> AcceptCall(q) \in Sent(Far)
  BY <1>5, <1>6, MessageFields
<1>8. FarOrder'
  <2>1. \A i \in DOMAIN msgs : msgs[i] \in Sent(msgs)
    BY DEF Sent
  <2>2. \A i, j \in DOMAIN msgs : i < j /\ msgs[j].type = "ACCEPT" =>
            msgs[i].type # "cancel" /\ (msgs[i].type = "ACCEPT" => msgs[i].call < msgs[j].call)
    BY <1>5, <2>1
  <2>3. \A m \in Sent(Far), n \in Sent(msgs) : n.type = "ACCEPT" =>
            m.type # "cancel" /\ (m.type = "ACCEPT" => m.call < n.call)
    BY <1>5
  <2> QED
    BY <1>5, <1>6, <2>2, <2>3, Parts, FarOrderMore
<1>9. Channels'
  <2>1. \A m \in Sent(Far') : FarMessage(m)'
    BY <1>1, <1>5, <1>6, Parts DEF FarMessage
  <2>2. \A m \in Sent(Near') : NearMessage(m)'
    BY <1>1, <1>6, <1>7, Parts DEF NearMessage
  <2>3. NearOrder'
    BY <1>6, Parts DEF NearOrder
  <2> QED
    BY <1>8, <2>1, <2>2, <2>3 DEF Channels
<1>10. CallPlaces'
  <2>1. \A q \in 1 .. MaxAccepts :
            /\ q >= nextCall' => calls'[q] = "new"
            /\ listener' = "open" /\ q < nextCall' /\ calls'[q] = "new"
                => AcceptCall(q) \in Sent(Far')
            /\ calls'[q] = "dropped" => listener' = "gone"
            /\ calls'[q] = "waiting" /\ forwarder' # "gone" => \E s \in Slots : slots'[s] = q
    BY <1>1, <1>7, Parts DEF CallPlaces, L!Requests
  <2>2. \A s \in Slots, q \in 1 .. MaxAccepts : slots'[s] # q
    BY <1>1
  <2> QED
    BY <2>1, <2>2, CallPlacesNext
<1>11. NoneAfterRemoval'
  BY <1>1, Parts DEF NoneAfterRemoval
<1>12. SlotsOK'
  <2>1. nextCall > 0
    BY Parts, Bounds DEF TypeOK
  <2> QED
    BY <1>1, <2>1 DEF SlotsOK
<1>13. ClientsInOrder' /\ AnsweredUnlessRemoved'
  BY <1>1, Parts DEF ClientsInOrder, AnsweredUnlessRemoved
<1>14. SetUp' /\ Known'
  BY <1>1, KnownRemains
<1> QED
  BY <1>9, <1>10, <1>11, <1>12, <1>13, <1>14 DEF AcceptInv

LEMMA StutterStep ==
    ASSUME AcceptInv, UNCHANGED vars
    PROVE  AcceptInv'
BY DEF vars, listening, forwarding, AcceptInv, TypeOK, SetUp, Known, Channels, CallPlaces,
       NoneAfterRemoval, SlotsOK, ClientsInOrder, AnsweredUnlessRemoved, AcceptedOrClosed,
       Answered, FarMessage, NearMessage, FarOrder, NearOrder, Far, Near, Held, Underway

LEMMA AcceptStep == AcceptInv /\ P!OrderInv /\ P!OrderInv' /\ [Next]_vars => AcceptInv'
<1> SUFFICES ASSUME AcceptInv, P!OrderInv, P!OrderInv', [Next]_vars
             PROVE  AcceptInv'
  OBVIOUS
<1>1. TypeOK'
  BY TypeStep
<1>2. CASE ~rid
  BY <1>1, <1>2, SetUpStep
<1>3. CASE rid
  <2>1. ASSUME HandleSocket \/ SocketComplete
        PROVE  FALSE
    <3>1. CASE HandleSocket
      <4>1. Socket \in Sent(Far)
        BY <3>1, Parts, SentTail DEF HandleSocket, Receive, Far
      <4> QED
        BY <1>3, <4>1, Parts, MessageFields DEF FarMessage
    <3>2. CASE SocketComplete
      <4>1. PICK ok \in BOOLEAN : Receive("near", SocketDone(ok))
        BY <3>2 DEF SocketComplete
      <4>2. SocketDone(ok) \in Sent(Near)
        BY <4>1, Parts, SentTail DEF Receive, Near
      <4> QED
        BY <1>3, <4>2, Parts, MessageFields DEF NearMessage
    <3> QED
      BY <2>1, <3>1, <3>2
  <2>2. CASE HandleAccept \/ HandleCancel \/ HandleCloseListener \/ HandleAccepted
    BY <1>1, <1>3, <2>2, HandleAcceptStep, HandleCancelStep, HandleCloseListenerStep,
       HandleAcceptedStep
  <2>3. CASE AcceptComplete \/ AcceptFailed \/ \E p \in Peers : HandleClose(p)
    BY <1>1, <1>3, <2>3, AcceptCompleteStep, AcceptFailedStep, HandleCloseStep
  <2>4. CASE \E kind \in L!AcceptKinds : AcceptSucceeds(kind)
    BY <1>1, <1>3, <2>4, AcceptSucceedsStep
  <2>5. CASE ListenerEvent \/ RemoveListener \/ RemoveForwarder
    BY <1>1, <1>3, <2>5, ListenerEventStep, RemoveListenerStep, RemoveForwarderStep
  <2>6. CASE \E c \in Clients : \/ \E ok \in BOOLEAN : ConnectComplete(c, ok)
                                \/ \E p \in Peers : Remove(p, c)
    BY <1>1, <1>3, <2>6, ConnectCompleteStep, RemoveStep
  <2>7. CASE UNCHANGED vars
    BY <2>7, StutterStep
  <2> QED
    BY <2>1, <2>2, <2>3, <2>4, <2>5, <2>6, <2>7 DEF Next, Deliver
<1> QED
  BY <1>2, <1>3

LEMMA AcceptStart == Init => AcceptInv
<1> SUFFICES ASSUME Init
             PROVE  AcceptInv
  OBVIOUS
<1>1. TypeOK
  <2>1. <<>> \in Seq(Messages) /\ <<Socket>> \in Seq(Messages)
    BY NoMessages, MessagesIn, FewMessages
  <2>2. chan["near"] = <<>> /\ chan["far"] = <<Socket>> /\ chan = [p \in Peers |-> chan[p]]
    BY DEF Init, Peers
  <2>3. chan \in [Peers -> Seq(Messages)]
    BY <2>1, <2>2 DEF Peers
  <2>4. slots \in [Slots -> 0 .. MaxAccepts] /\ nextCall \in 1 .. MaxAccepts + 1
    BY Bounds DEF Init
  <2>5. sock \in [Peers -> [Clients -> {"new", "waiting", "connecting", "up", "gone"}]]
    BY DEF Init
  <2> QED
    BY <2>3, <2>4, <2>5 DEF Init, TypeOK
<1>2. SetUp
  BY DEF Init, L!Init, SetUp, Far, Near, L!Requests
<1> QED
  BY <1>1, <1>2, SetUpEnough DEF Init, L!Init

-----------------------------------------------------------------------------
(* Theorems *)

\* What is on its way, what the slots have and what the listening socket has
\* done fit together, for any number of clients.
THEOREM AcceptInvariant == Spec => []AcceptInv
BY AcceptStart, AcceptStep, QueueInvariant, PTL DEF Spec

\* The state has the types that it is declared with; the numbers of calls that
\* are allotted for the clients are enough.
THEOREM TypeCorrect == Spec => []TypeOK
<1>1. AcceptInv => TypeOK
  BY DEF AcceptInv
<1> QED
  BY <1>1, AcceptInvariant, PTL

\* While both ends listen, two distinct ACCEPTs are pending and each is in one
\* place: fwd_entry_stream_forward_remote_accept_complete replaces the one that
\* it takes, so that a client never finds the listening socket without one.
THEOREM TwoAcceptsPending == Spec => []AcceptsPending
<1>1. AcceptInv /\ P!OrderInv => AcceptsPending
  <2> SUFFICES ASSUME AcceptInv, P!OrderInv, forwarder = "listening", listener = "open"
               PROVE  /\ \A s \in Slots :
                            slots[s] # 0 /\ Cardinality(AcceptPlaces(slots[s])) = 1
                      /\ slots[1] # slots[2]
    BY DEF AcceptsPending
  <2>1. \A s \in Slots : slots[s] # 0
    BY Parts DEF SlotsOK
  <2>2. slots[1] # slots[2]
    BY <2>1, Parts DEF SlotsOK, Slots
  <2>3. ASSUME NEW s \in Slots
        PROVE  Cardinality(AcceptPlaces(slots[s])) = 1
    <3> PICK r : r = slots[s]
      OBVIOUS
    <3>1. r \in L!Requests /\ r < nextCall
      BY <2>1, Parts, Bounds DEF SlotsOK, TypeOK, L!Requests
    <3>2. calls[r] \notin {"cancelled", "dropped"}
      BY <3>1, Parts DEF NoneAfterRemoval, CallPlaces
    <3>3. /\ Underway("far", AcceptCall(r)) => calls[r] = "new"
          /\ \A c \in Clients : Underway("near", AcceptOk(r, c)) => calls[r] = "ok"
      BY Parts, UnderwaySent, MessageFields DEF FarMessage, NearMessage, Far, Near
    <3>4. /\ calls[r] = "new" => Underway("far", AcceptCall(r))
          /\ calls[r] = "ok" => \E c \in Clients : Underway("near", AcceptOk(r, c))
      BY <3>1, Parts, UnderwaySent DEF CallPlaces, Far, Near
    <3>5. PICK p \in {"call", "queue", "answer"} : AcceptPlaces(r) = {p}
      <4>1. calls[r] \in {"new", "waiting", "ok"}
        BY <3>1, <3>2, QueueFacts DEF L!Requests
      <4>2. CASE calls[r] = "new"
        <5>1. AcceptPlaces(r) = {"call"}
          BY <3>3, <3>4, <4>2 DEF AcceptPlaces
        <5> QED
          BY <5>1
      <4>3. CASE calls[r] = "waiting"
        <5>1. AcceptPlaces(r) = {"queue"}
          BY <3>3, <4>3 DEF AcceptPlaces
        <5> QED
          BY <5>1
      <4>4. CASE calls[r] = "ok"
        <5>1. AcceptPlaces(r) = {"answer"}
          BY <3>3, <3>4, <4>4 DEF AcceptPlaces
        <5> QED
          BY <5>1
      <4> QED
        BY <4>1, <4>2, <4>3, <4>4
    <3> QED
      BY <3>5, FS_Singleton
  <2> QED
    BY <2>1, <2>2, <2>3
<1> QED
  BY <1>1, AcceptInvariant, QueueInvariant, PTL

\* The caller of ACCEPT answers each accepted connection with ACCEPTED or with
\* CLOSE, or is about to, as long as the forwarder is there.
THEOREM ConnectionsAnswered == Spec => []AnsweredUnlessRemoved
<1>1. AcceptInv => AnsweredUnlessRemoved
  BY DEF AcceptInv
<1> QED
  BY <1>1, AcceptInvariant, PTL

LEMMA ListenStepHere == [Next]_vars => [L!Next]_L!vars
<1> SUFFICES ASSUME [Next]_vars
             PROVE  L!Next \/ UNCHANGED L!vars
  OBVIOUS
<1> USE DEF L!vars, listening
<1>1. CASE Deliver
  BY <1>1 DEF Deliver, HandleSocket, HandleAccept, HandleCancel, HandleCloseListener,
              HandleAccepted, SocketComplete, AcceptComplete, AcceptFailed, HandleClose,
              L!Next, L!Requests
<1>2. CASE \E kind \in L!AcceptKinds : AcceptSucceeds(kind)
  BY <1>2 DEF AcceptSucceeds, L!Next
<1>3. CASE ListenerEvent \/ RemoveListener \/ RemoveForwarder
  BY <1>3 DEF ListenerEvent, RemoveListener, RemoveForwarder, L!Next
<1>4. CASE \E c \in Clients : \/ \E ok \in BOOLEAN : ConnectComplete(c, ok)
                              \/ \E p \in Peers : Remove(p, c)
  BY <1>4 DEF ConnectComplete, Remove
<1>5. CASE UNCHANGED vars
  BY <1>5 DEF vars
<1> QED
  BY <1>1, <1>2, <1>3, <1>4, <1>5 DEF Next

\* The forwarder uses the listening socket as StreamListen says, and never
\* submits an ACCEPT after having cancelled one.
THEOREM ListenSocketUsed == Spec => ListenSpec
<1>1. Init => L!Init
  BY DEF Init
<1>2. AcceptInv => ~resubmitted
  BY DEF AcceptInv, NoneAfterRemoval
<1> QED
  BY <1>1, <1>2, ListenStepHere, AcceptInvariant, PTL DEF Spec, L!Spec, ListenSpec

\* So "something must be there in the accept queue", as
\* fwd_entry_stream_listen_accept_complete says, for the requests of a remote
\* forwarder; and its GCancellable tells whether an accept is pending.
THEOREM SomethingAlwaysThere == Spec => [](L!SomethingThere /\ L!FlagAgrees)
<1>1. P!Spec => [](~resubmitted => P!SomethingThere)
  BY P!QueueNeverEmpty, Bounds
<1>2. P!Spec => []P!FlagAgrees
  BY P!FlagCorrect, Bounds
<1>3. (~resubmitted => P!SomethingThere) /\ P!FlagAgrees /\ ~resubmitted
        => L!SomethingThere /\ L!FlagAgrees
  BY DEF P!SomethingThere, L!SomethingThere, P!FlagAgrees, L!FlagAgrees,
         P!AcceptKinds, L!AcceptKinds
<1>4. AcceptInv => ~resubmitted
  BY DEF AcceptInv, NoneAfterRemoval
<1> QED
  BY <1>1, <1>2, <1>3, <1>4, AcceptInvariant, ListenImplemented, PTL

=============================================================================
