------------------------- MODULE StreamForwardProofs --------------------------
(***************************************************************************)
(* Theorems about StreamForward, for any number of connections and of      *)
(* bytes, and any initial values of the id counters: type correctness, the *)
(* two safety invariants, and that it implements StreamPipe.               *)
(*                                                                         *)
(* None of the invariants is inductive. SetupInv is: it follows each local *)
(* id through the set up of its connection, from the SOCKET request on the *)
(* way to the remote peer to the answer on the way back, and says where it *)
(* can be at the same time: an id is in one SOCKET request, or in one      *)
(* answer to it, or linked, and what the entries at both ends may do       *)
(* depends on which one.                                                   *)
(*                                                                         *)
(* A step of the code is a step of the pipe or leaves it alone, provided   *)
(* that the bytes which the socket accepts are the ones that come next.    *)
(* That is what StreamsOK is for, the invariant about data that goes with  *)
(* SetupInv, the one about ids: what has been given to an application, the *)
(* write queue of its socket and the DATA calls on their way to it join    *)
(* without gaps into what has been taken from the application at the other *)
(* end.                                                                    *)
(***************************************************************************)
EXTENDS StreamForward, TLAPS

Lo(i) == <<"local", i>>
Re(r) == <<"remote", r>>

\* The messages on their way to p.
Msgs(p) == {chan[p][k] : k \in DOMAIN chan[p]}

\* Ids are given in order, at the remote peer for some of the local entries.
IdsInOrder ==
    /\ \A p \in Peers : nextId[p] \in FirstId[p] .. FirstId[p] + MaxConn
    /\ nextId["remote"] - FirstId["remote"] <= nextId["local"] - FirstId["local"]
    /\ \A e \in End : entry[e].phase = "new" <=> e[2] >= nextId[e[1]]

\* Entries that are not in a table have nothing.
NothingLeft ==
    \A e \in End : ~Up(e) => entry[e] = [Blank EXCEPT !.phase = entry[e].phase]

\* What waits to be written is a part of what the application could have sent.
BuffersOK ==
    /\ \A e \in End : \A k \in DOMAIN entry[e].wq :
        LET b == entry[e].wq[k] IN
        1 <= b.lo /\ b.lo + b.sent <= b.hi /\ b.hi <= MaxBytes
    /\ \A p \in Peers : \A m \in Msgs(p) : m.type = "DATA" => m.lo <= m.hi

\* SOCKET was called once for each local id, in order.
SocketsInOrder ==
    /\ \A j, k \in DOMAIN chan["remote"] :
        /\ j < k
        /\ chan["remote"][j].type = "SOCKET" /\ chan["remote"][k].type = "SOCKET"
        => chan["remote"][j].id < chan["remote"][k].id
    /\ \A j, k \in DOMAIN chan["local"] :
        /\ j # k
        /\ chan["local"][j].type = "SOCKET_done" /\ chan["local"][k].type = "SOCKET_done"
        => chan["local"][j].id # chan["local"][k].id

\* r was made for i.
Pair(i, r) ==
    \/ <<i, r>> \in links
    \/ Up(Re(r)) /\ entry[Re(r)].rid = i
    \/ SocketDone(i, r) \in Msgs("local")

PairsMatch ==
    /\ \A i \in Ids("local"), r \in Ids("remote") :
        Pair(i, r) => i < nextId["local"] /\ r < nextId["remote"]
    /\ \A i, j \in Ids("local"), r, s \in Ids("remote") :
        Pair(i, r) /\ Pair(j, s) => (i = j <=> r = s)

LocalEntryOK(i) ==
    /\ entry[Lo(i)].io /\ entry[Lo(i)].pending # "connect"
    /\ entry[Lo(i)].pending = "SOCKET" =>
        /\ entry[Lo(i)].rid = 0 /\ ~entry[Lo(i)].reading /\ entry[Lo(i)].wq = <<>>
        /\ \A r \in Ids("remote") : <<i, r>> \notin links
    /\ entry[Lo(i)].pending # "SOCKET" => <<i, entry[Lo(i)].rid>> \in links
    /\ entry[Lo(i)].reading =>
        \A r \in Ids("remote") : <<i, r>> \in links /\ Up(Re(r)) => entry[Re(r)].io

LocalOK == \A i \in Ids("local") : Up(Lo(i)) => LocalEntryOK(i)

RemoteOK ==
    \A r \in Ids("remote") : Up(Re(r)) =>
        /\ entry[Re(r)].rid \in Ids("local")
        /\ entry[Re(r)].pending # "SOCKET"
        /\ entry[Re(r)].reading => entry[Re(r)].io
        /\ entry[Re(r)].reading \/ entry[Re(r)].pending = "connect"
            => <<entry[Re(r)].rid, r>> \in links

SocketOK ==
    \A i \in Ids("local") : Socket(i) \in Msgs("remote") =>
        /\ i < nextId["local"]
        /\ i - FirstId["local"] >= nextId["remote"] - FirstId["remote"]
        /\ \A r \in Ids("remote") : ~Pair(i, r)
        /\ \A r \in Ids("remote") \cup {0} : SocketDone(i, r) \notin Msgs("local")
        /\ Up(Lo(i)) => entry[Lo(i)].pending = "SOCKET"

SocketDoneOK ==
    \A i \in Ids("local"), r \in Ids("remote") \cup {0} :
        SocketDone(i, r) \in Msgs("local") =>
            /\ i < nextId["local"]
            /\ Up(Lo(i)) => entry[Lo(i)].pending = "SOCKET"

ConnectOK ==
    /\ \A i \in Ids("local"), r \in Ids("remote") :
        Connect(r, i) \in Msgs("remote") => <<i, r>> \in links
    /\ \A i \in Ids("local"), ok \in BOOLEAN :
        ConnectDone(i, ok) \in Msgs("local") =>
            \E r \in Ids("remote") :
                <<i, r>> \in links /\ (ok /\ Up(Re(r)) => entry[Re(r)].io)

DataOK ==
    /\ \A r \in Ids("remote"), lo, hi \in 1 .. MaxBytes :
        Data(r, lo, hi) \in Msgs("remote") =>
            /\ Up(Re(r)) => entry[Re(r)].io
            /\ \E i \in Ids("local") : <<i, r>> \in links
    /\ \A i \in Ids("local"), lo, hi \in 1 .. MaxBytes :
        Data(i, lo, hi) \in Msgs("local") =>
            \E r \in Ids("remote") : <<i, r>> \in links

SetupInv ==
    /\ TypeOK /\ IdsInOrder /\ NothingLeft /\ BuffersOK /\ SocketsInOrder
    /\ PairsMatch /\ LocalOK /\ RemoteOK
    /\ SocketOK /\ SocketDoneOK /\ ConnectOK /\ DataOK

-----------------------------------------------------------------------------
(* Ends, messages and channels *)

LEMMA Ends ==
    /\ \A e \in End : e[1] \in Peers /\ e[2] \in Ids(e[1]) /\ e = <<e[1], e[2]>>
    /\ \A p \in Peers : \A i \in Ids(p) : <<p, i>> \in End
    /\ \A i \in Ids("local") : Lo(i) \in End
    /\ \A r \in Ids("remote") : Re(r) \in End
  BY DEF End, Peers, Lo, Re

LEMMA IdsType ==
    /\ \A p \in Peers : FirstId[p] \in Nat \ {0}
    /\ \A p \in Peers : \A i \in Ids(p) :
        i \in Nat \ {0} /\ i >= FirstId[p] /\ i <= FirstId[p] + MaxConn - 1
    /\ \A p \in Peers : \A i \in Int :
        i >= FirstId[p] /\ i < FirstId[p] + MaxConn => i \in Ids(p)
  BY ParametersAssumption DEF Ids

LEMMA MessagesType ==
    /\ \A p \in Peers : \A i \in Ids(p) : Close(i) \in Messages /\ DataError(i) \in Messages
    /\ \A i \in Ids("local") : Socket(i) \in Messages
    /\ \A i \in Ids("local"), r \in Ids("remote") \cup {0} : SocketDone(i, r) \in Messages
    /\ \A i \in Ids("local"), r \in Ids("remote") : Connect(r, i) \in Messages
    /\ \A i \in Ids("local"), ok \in BOOLEAN : ConnectDone(i, ok) \in Messages
    /\ \A p \in Peers : \A i \in Ids(p) : \A lo, hi \in 1 .. MaxBytes : Data(i, lo, hi) \in Messages
  BY DEF Messages, Peers

\* The messages of a sequence.
Of(msgs) == {msgs[k] : k \in DOMAIN msgs}

LEMMA Nothing ==
    <<>> \in Seq(Messages) /\ DOMAIN <<>> = {} /\ Of(<<>>) = {}
<1>1. <<>> \in Seq(Messages)
  OBVIOUS
<1>2. DOMAIN <<>> = {}
  OBVIOUS
<1>3. Of(<<>>) = {}
  BY <1>2 DEF Of
<1> QED
  BY <1>1, <1>2, <1>3

LEMMA Appended ==
    ASSUME NEW s \in Seq(Messages), NEW t \in Seq(Messages)
    PROVE  /\ s \o t \in Seq(Messages)
           /\ Of(s \o t) = Of(s) \cup Of(t)
           /\ Len(s \o t) = Len(s) + Len(t)
           /\ \A k \in 1 .. Len(s) : (s \o t)[k] = s[k]
           /\ \A k \in 1 .. Len(t) : (s \o t)[Len(s) + k] = t[k]
<1>1. /\ s \o t \in Seq(Messages)
      /\ Len(s \o t) = Len(s) + Len(t)
      /\ \A k \in 1 .. Len(s) : (s \o t)[k] = s[k]
      /\ \A k \in 1 .. Len(t) : (s \o t)[Len(s) + k] = t[k]
  OBVIOUS
<1>2. Of(s \o t) \subseteq Of(s) \cup Of(t)
  BY DEF Of
<1>3. ASSUME NEW k \in DOMAIN s PROVE s[k] \in Of(s \o t)
  BY <1>1 DEF Of
<1>4. ASSUME NEW k \in DOMAIN t PROVE t[k] \in Of(s \o t)
  <2>1. Len(s) + k \in DOMAIN (s \o t) /\ (s \o t)[Len(s) + k] = t[k]
    BY <1>1
  <2> QED BY <2>1 DEF Of
<1> QED
  BY <1>1, <1>2, <1>3, <1>4 DEF Of

LEMMA SendStep ==
    ASSUME chan \in [Peers -> Seq(Messages)], NEW p \in Peers, NEW msgs \in Seq(Messages),
           Send(p, msgs)
    PROVE  /\ chan' \in [Peers -> Seq(Messages)]
           /\ chan'[p] = chan[p] /\ chan'[Other(p)] = chan[Other(p)] \o msgs
           /\ Msgs(p)' = Msgs(p) /\ Msgs(Other(p))' = Msgs(Other(p)) \cup Of(msgs)
<1>1. Other(p) \in Peers /\ Other(p) # p
  BY DEF Other, Peers
<1>2. chan'[p] = chan[p] /\ chan'[Other(p)] = chan[Other(p)] \o msgs
  BY <1>1 DEF Send
<1>3. chan[Other(p)] \o msgs \in Seq(Messages)
  BY <1>1
<1>4. chan' \in [Peers -> Seq(Messages)]
  BY <1>1, <1>3 DEF Send
<1>5. Of(chan[Other(p)] \o msgs) = Of(chan[Other(p)]) \cup Of(msgs)
  BY <1>1, Appended
<1> QED
  BY <1>2, <1>4, <1>5 DEF Msgs, Of

LEMMA HandledStep ==
    ASSUME chan \in [Peers -> Seq(Messages)], NEW p \in Peers, NEW msgs \in Seq(Messages),
           NEW m, Receive(p, m), Handled(p, msgs)
    PROVE  /\ chan' \in [Peers -> Seq(Messages)]
           /\ chan'[p] = Tail(chan[p]) /\ chan'[Other(p)] = chan[Other(p)] \o msgs
           /\ m \in Msgs(p) /\ m = chan[p][1]
           /\ Msgs(p)' \subseteq Msgs(p)
           /\ Msgs(Other(p))' = Msgs(Other(p)) \cup Of(msgs)
<1>1. Other(p) \in Peers /\ Other(p) # p
  BY DEF Other, Peers
<1>2. chan'[p] = Tail(chan[p]) /\ chan'[Other(p)] = chan[Other(p)] \o msgs
  BY <1>1 DEF Handled
<1>3. chan[Other(p)] \o msgs \in Seq(Messages) /\ Tail(chan[p]) \in Seq(Messages)
  BY <1>1 DEF Receive
<1>4. chan' \in [Peers -> Seq(Messages)]
  BY <1>1, <1>3 DEF Handled
<1>5. Of(chan[Other(p)] \o msgs) = Of(chan[Other(p)]) \cup Of(msgs)
  BY <1>1, Appended
<1>6. m \in Msgs(p) /\ m = chan[p][1]
  BY DEF Receive, Msgs
<1>7. Of(Tail(chan[p])) \subseteq Of(chan[p])
  BY DEF Receive, Of
<1> QED
  BY <1>2, <1>4, <1>5, <1>6, <1>7 DEF Msgs, Of

-----------------------------------------------------------------------------
(* Types *)

LEMMA EntryType ==
    /\ Blank \in Entry /\ Gone \in Entry
    /\ Gone = [Blank EXCEPT !.phase = "gone"] /\ Gone.phase = "gone" /\ Blank.phase = "new"
    /\ Gone.wq = <<>> /\ Blank.wq = <<>>
    /\ ~Gone.io /\ ~Gone.reading /\ Gone.pending = "none" /\ Gone.rid = 0
<1>1. <<>> \in Seq(Buffer)
  OBVIOUS
<1> QED
  BY <1>1 DEF Blank, Gone, Entry

LEMMA DisposeStep ==
    ASSUME TypeOK, NEW e \in End, NEW why \in {"error", "eof", "api", "peer"}, Dispose(e, why)
    PROVE  /\ entry' \in [End -> Entry] /\ cause' \in [End -> {"none", "eof", "error", "api", "peer"}]
           /\ \A f \in End : entry'[f] = IF f = e THEN Gone ELSE entry[f]
  BY EntryType DEF TypeOK, Dispose

LEMMA ClosingType ==
    ASSUME TypeOK, NEW e \in End, entry[e].rid # 0 => entry[e].rid \in Ids(Other(e[1]))
    PROVE  /\ Closing(e) \in Seq(Messages)
           /\ \A m \in Of(Closing(e)) : m.type = "CLOSE"
<1>1. Other(e[1]) \in Peers
  BY Ends DEF Other, Peers
<1>2. CASE entry[e].rid = 0
  BY <1>2 DEF Closing, Of
<1>3. CASE entry[e].rid # 0
  <2>1. Close(entry[e].rid) \in Messages
    BY <1>1, <1>3, MessagesType
  <2> QED
    BY <1>3, <2>1 DEF Closing, Of, Close
<1> QED
  BY <1>2, <1>3

\* The counterpart that an entry knows is one.
LEMMA RidType ==
    ASSUME SetupInv, NEW e \in End, Up(e), entry[e].rid # 0
    PROVE  entry[e].rid \in Ids(Other(e[1]))
<1>1. CASE e[1] = "local"
  <2>1. PICK i \in Ids("local") : e = Lo(i)
    BY <1>1, Ends DEF Lo
  <2>2. <<i, entry[e].rid>> \in links
    BY <2>1 DEF SetupInv, LocalOK, LocalEntryOK
  <2> QED
    BY <1>1, <2>2 DEF SetupInv, TypeOK, Other
<1>2. CASE e[1] = "remote"
  <2>1. PICK r \in Ids("remote") : e = Re(r)
    BY <1>2, Ends DEF Re
  <2> QED
    BY <1>2, <2>1 DEF SetupInv, RemoteOK, Other
<1> QED
  BY <1>1, <1>2, Ends DEF Peers

-----------------------------------------------------------------------------
(* The order of SOCKET calls *)

Plain(m) == m.type # "SOCKET" /\ m.type # "SOCKET_done"

LEMMA OrderSent ==
    ASSUME TypeOK, SocketsInOrder, NEW p \in Peers, NEW msgs \in Seq(Messages),
           \A m \in Of(msgs) : Plain(m), Send(p, msgs)
    PROVE  SocketsInOrder'
<1> DEFINE q == Other(p)
<1>1. /\ chan \in [Peers -> Seq(Messages)] /\ q \in Peers /\ Peers = {p, q}
      /\ chan'[p] = chan[p] /\ chan'[q] = chan[q] \o msgs
  BY SendStep DEF TypeOK, Other, Peers
<1>2. /\ Len(chan'[q]) = Len(chan[q]) + Len(msgs)
      /\ \A k \in 1 .. Len(chan[q]) : chan'[q][k] = chan[q][k]
      /\ \A k \in 1 .. Len(msgs) : chan'[q][Len(chan[q]) + k] = msgs[k]
  BY <1>1, Appended
<1>3. \A k \in DOMAIN chan'[q] :
        (k \in DOMAIN chan[q] /\ chan'[q][k] = chan[q][k]) \/ Plain(chan'[q][k])
  <2> SUFFICES ASSUME NEW k \in DOMAIN chan'[q], k \notin DOMAIN chan[q]
               PROVE  Plain(chan'[q][k])
    BY <1>1, <1>2
  <2>1. k - Len(chan[q]) \in 1 .. Len(msgs)
    BY <1>1, <1>2
  <2>2. chan'[q][k] = msgs[k - Len(chan[q])]
    BY <1>1, <1>2, <2>1
  <2> QED
    BY <2>1, <2>2 DEF Of
<1>4. \A x \in Peers : \A k \in DOMAIN chan'[x] :
        (k \in DOMAIN chan[x] /\ chan'[x][k] = chan[x][k]) \/ Plain(chan'[x][k])
  BY <1>1, <1>3
<1> QED
  BY <1>4 DEF SocketsInOrder, Plain, Peers

LEMMA OrderHandled ==
    ASSUME TypeOK, SocketsInOrder, NEW p \in Peers, NEW msgs \in Seq(Messages),
           \A m \in Of(msgs) : Plain(m), NEW x, Receive(p, x), Handled(p, msgs)
    PROVE  SocketsInOrder'
<1> DEFINE q == Other(p)
<1>1. /\ chan \in [Peers -> Seq(Messages)] /\ q \in Peers /\ Peers = {p, q} /\ p # q
      /\ chan'[p] = Tail(chan[p]) /\ chan'[q] = chan[q] \o msgs /\ chan[p] # <<>>
  BY HandledStep DEF TypeOK, Other, Peers, Receive
<1>2. /\ Len(chan'[q]) = Len(chan[q]) + Len(msgs)
      /\ \A k \in 1 .. Len(chan[q]) : chan'[q][k] = chan[q][k]
      /\ \A k \in 1 .. Len(msgs) : chan'[q][Len(chan[q]) + k] = msgs[k]
  BY <1>1, Appended
<1>3. \A k \in DOMAIN chan'[q] :
        (k \in DOMAIN chan[q] /\ chan'[q][k] = chan[q][k]) \/ Plain(chan'[q][k])
  <2> SUFFICES ASSUME NEW k \in DOMAIN chan'[q], k \notin DOMAIN chan[q]
               PROVE  Plain(chan'[q][k])
    BY <1>1, <1>2
  <2>1. k - Len(chan[q]) \in 1 .. Len(msgs)
    BY <1>1, <1>2
  <2>2. chan'[q][k] = msgs[k - Len(chan[q])]
    BY <1>1, <1>2, <2>1
  <2> QED
    BY <2>1, <2>2 DEF Of
<1>4. \A k \in DOMAIN chan'[p] :
        k \in Nat /\ k + 1 \in DOMAIN chan[p] /\ chan'[p][k] = chan[p][k + 1]
  BY <1>1
<1> HIDE DEF q
<1>5. ASSUME NEW j \in DOMAIN chan'["remote"], NEW k \in DOMAIN chan'["remote"], j < k,
             chan'["remote"][j].type = "SOCKET", chan'["remote"][k].type = "SOCKET"
      PROVE  chan'["remote"][j].id < chan'["remote"][k].id
  <2>1. CASE p = "remote"
    <3>1. j + 1 < k + 1
      BY <1>4, <1>5, <2>1
    <3> QED
      BY <1>4, <1>5, <2>1, <3>1 DEF SocketsInOrder
  <2>2. CASE q = "remote"
    BY <1>3, <1>5, <2>2 DEF SocketsInOrder, Plain
  <2> QED
    BY <1>1, <2>1, <2>2 DEF Peers
<1>6. ASSUME NEW j \in DOMAIN chan'["local"], NEW k \in DOMAIN chan'["local"], j # k,
             chan'["local"][j].type = "SOCKET_done", chan'["local"][k].type = "SOCKET_done"
      PROVE  chan'["local"][j].id # chan'["local"][k].id
  <2>1. CASE p = "local"
    <3>1. j \in Nat /\ k \in Nat
      BY <1>4, <2>1
    <3>2. j + 1 # k + 1
      <4>1. \A a, b \in Nat : a + 1 = b + 1 => a = b
        OBVIOUS
      <4> QED
        BY <1>6, <3>1, <4>1, Zenon
    <3>3. /\ j + 1 \in DOMAIN chan["local"] /\ chan'["local"][j] = chan["local"][j + 1]
          /\ k + 1 \in DOMAIN chan["local"] /\ chan'["local"][k] = chan["local"][k + 1]
      BY <1>4, <2>1
    <3> QED
      BY <1>6, <3>2, <3>3 DEF SocketsInOrder
  <2>2. CASE q = "local"
    BY <1>3, <1>6, <2>2 DEF SocketsInOrder, Plain
  <2> QED
    BY <1>1, <2>1, <2>2 DEF Peers
<1> QED
  BY <1>5, <1>6 DEF SocketsInOrder

-----------------------------------------------------------------------------
(* What keeps the set up as it is, or ends an entry *)

LEMMA FrameStep ==
    ASSUME SetupInv, TypeOK', BuffersOK', SocketsInOrder', UNCHANGED <<nextId, links>>,
           \A p \in Peers : \A m \in Msgs(p)' :
                m \in Msgs(p) \/ m.type \in {"CLOSE", "DATA_error"},
           \A e \in End :
                \/ Up(e) /\ entry'[e] = Gone
                \/ /\ Up(e) /\ entry[e].pending # "SOCKET"
                   /\ \E w \in Seq(Buffer) : entry'[e] = [entry[e] EXCEPT !.wq = w]
                \/ entry'[e] = entry[e]
    PROVE  SetupInv'
<1>1. \A e \in End :
        /\ Up(e)' => /\ Up(e)
                     /\ entry'[e].rid = entry[e].rid /\ entry'[e].io = entry[e].io
                     /\ entry'[e].reading = entry[e].reading
                     /\ entry'[e].pending = entry[e].pending
                     /\ entry[e].pending = "SOCKET" => entry'[e].wq = entry[e].wq
        /\ entry'[e].phase = "new" <=> entry[e].phase = "new"
        /\ ~Up(e)' => entry'[e] = Gone \/ entry'[e] = entry[e]
  <2> SUFFICES ASSUME NEW e \in End
               PROVE  /\ Up(e)' => /\ Up(e)
                                   /\ entry'[e].rid = entry[e].rid
                                   /\ entry'[e].io = entry[e].io
                                   /\ entry'[e].reading = entry[e].reading
                                   /\ entry'[e].pending = entry[e].pending
                                   /\ entry[e].pending = "SOCKET" => entry'[e].wq = entry[e].wq
                      /\ entry'[e].phase = "new" <=> entry[e].phase = "new"
                      /\ ~Up(e)' => entry'[e] = Gone \/ entry'[e] = entry[e]
    OBVIOUS
  <2>1. CASE Up(e) /\ entry'[e] = Gone
    BY <2>1, EntryType DEF Up
  <2>2. ASSUME Up(e), entry[e].pending # "SOCKET", NEW w \in Seq(Buffer), entry'[e] = [entry[e] EXCEPT !.wq = w]
        PROVE  /\ Up(e)' /\ Up(e)
               /\ entry'[e].phase = entry[e].phase
               /\ entry'[e].rid = entry[e].rid /\ entry'[e].io = entry[e].io
               /\ entry'[e].reading = entry[e].reading
               /\ entry'[e].pending = entry[e].pending
    <3>1. entry[e] \in Entry
      BY DEF SetupInv, TypeOK
    <3> DEFINE y == [entry[e] EXCEPT !.wq = w]
    <3>2. /\ y.phase = entry[e].phase /\ y.rid = entry[e].rid /\ y.io = entry[e].io
          /\ y.reading = entry[e].reading /\ y.pending = entry[e].pending
      BY <3>1 DEF Entry
    <3>3. entry'[e] = y
      BY <2>2
    <3> HIDE DEF y
    <3> QED
      BY <2>2, <3>2, <3>3 DEF Up
  <2>3. CASE entry'[e] = entry[e]
    BY <2>3 DEF Up
  <2> QED
    BY <2>1, <2>2, <2>3
<1>2. IdsInOrder'
  BY <1>1 DEF SetupInv, IdsInOrder
<1>3. NothingLeft'
  BY <1>1, EntryType DEF SetupInv, NothingLeft, Up
<1>4. /\ \A i \in Ids("local") : Socket(i) \in Msgs("remote")' => Socket(i) \in Msgs("remote")
      /\ \A i \in Ids("local"), r \in Ids("remote") \cup {0} :
            SocketDone(i, r) \in Msgs("local")' => SocketDone(i, r) \in Msgs("local")
      /\ \A i \in Ids("local"), r \in Ids("remote") :
            Connect(r, i) \in Msgs("remote")' => Connect(r, i) \in Msgs("remote")
      /\ \A i \in Ids("local"), ok \in BOOLEAN :
            ConnectDone(i, ok) \in Msgs("local")' => ConnectDone(i, ok) \in Msgs("local")
      /\ \A p \in Peers : \A i \in Ids(p) : \A lo, hi \in 1 .. MaxBytes :
            Data(i, lo, hi) \in Msgs(p)' => Data(i, lo, hi) \in Msgs(p)
  BY DEF Peers, Socket, SocketDone, Connect, ConnectDone, Data
<1>5. \A i \in Ids("local"), r \in Ids("remote") : Pair(i, r)' => Pair(i, r)
  BY <1>1, <1>4, Ends DEF Pair
<1>6. PairsMatch'
  BY <1>5 DEF SetupInv, PairsMatch
<1>7. LocalOK'
  BY <1>1, Ends DEF SetupInv, LocalOK, LocalEntryOK
<1>8. RemoteOK'
  BY <1>1, Ends DEF SetupInv, RemoteOK
<1>9. SocketOK'
  BY <1>1, <1>4, <1>5, Ends DEF SetupInv, SocketOK
<1>10. SocketDoneOK'
  BY <1>1, <1>4, Ends DEF SetupInv, SocketDoneOK
<1>11. ConnectOK'
  BY <1>1, <1>4, Ends DEF SetupInv, ConnectOK
<1>12. DataOK'
  BY <1>1, <1>4, Ends DEF SetupInv, DataOK, Peers
<1> QED
  BY <1>2, <1>3, <1>6, <1>7, <1>8, <1>9, <1>10, <1>11, <1>12 DEF SetupInv

LEMMA DisposedStep ==
    ASSUME SetupInv, NEW e \in End, Up(e), NEW why \in {"error", "eof", "api", "peer"},
           Dispose(e, why), UNCHANGED <<listener, nextId, data, links>>,
           chan' \in [Peers -> Seq(Messages)], SocketsInOrder',
           \A p \in Peers : \A m \in Msgs(p)' :
                m \in Msgs(p) \/ m.type \in {"CLOSE", "DATA_error"}
    PROVE  SetupInv'
<1>1. /\ entry' \in [End -> Entry] /\ cause' \in [End -> {"none", "eof", "error", "api", "peer"}]
      /\ \A f \in End : entry'[f] = IF f = e THEN Gone ELSE entry[f]
  BY DisposeStep DEF SetupInv
<1>2. TypeOK'
  BY <1>1 DEF SetupInv, TypeOK, data
<1>3. BuffersOK'
  <2>1. \A p \in Peers : \A m \in Msgs(p)' : m.type = "DATA" => m.lo <= m.hi
    BY DEF SetupInv, BuffersOK
  <2>2. \A f \in End : entry'[f].wq = <<>> \/ entry'[f] = entry[f]
    BY <1>1, EntryType
  <2>3. ASSUME NEW f \in End, NEW k \in DOMAIN entry'[f].wq
        PROVE  /\ 1 <= entry'[f].wq[k].lo
               /\ entry'[f].wq[k].lo + entry'[f].wq[k].sent <= entry'[f].wq[k].hi
               /\ entry'[f].wq[k].hi <= MaxBytes
    <3>1. entry'[f] = entry[f]
      BY <2>2, Nothing
    <3> QED
      BY <3>1 DEF SetupInv, BuffersOK
  <2> QED
    BY <2>1, <2>3 DEF BuffersOK
<1> QED
  BY <1>1, <1>2, <1>3, FrameStep

LEMMA QuietStep ==
    ASSUME SetupInv, listener' \in {"accepting", "stalled", "gone"},
           UNCHANGED <<entry, nextId, data, links, cause>>,
           chan' \in [Peers -> Seq(Messages)], SocketsInOrder',
           \A p \in Peers : \A m \in Msgs(p)' :
                m \in Msgs(p) \/ m.type \in {"CLOSE", "DATA_error"}
    PROVE  SetupInv'
<1>1. TypeOK'
  BY DEF SetupInv, TypeOK, data
<1>2. BuffersOK'
  BY DEF SetupInv, BuffersOK
<1> QED
  BY <1>1, <1>2, FrameStep

\* What goes to the counterpart when an entry ends.
Ending(m) == m.type \in {"CLOSE", "DATA_error"}

LEMMA EndingSent ==
    ASSUME SetupInv, NEW p \in Peers, NEW msgs \in Seq(Messages),
           \A m \in Of(msgs) : Ending(m), Send(p, msgs)
    PROVE  /\ chan' \in [Peers -> Seq(Messages)] /\ SocketsInOrder'
           /\ \A q \in Peers : \A m \in Msgs(q)' : m \in Msgs(q) \/ Ending(m)
<1>1. \A m \in Of(msgs) : Plain(m)
  BY DEF Ending, Plain
<1>2. SocketsInOrder'
  BY <1>1, OrderSent DEF SetupInv
<1>3. /\ chan' \in [Peers -> Seq(Messages)]
      /\ Msgs(p)' = Msgs(p) /\ Msgs(Other(p))' = Msgs(Other(p)) \cup Of(msgs)
  BY SendStep DEF SetupInv, TypeOK
<1> QED
  BY <1>2, <1>3 DEF Peers, Other

LEMMA EndingHandled ==
    ASSUME SetupInv, NEW p \in Peers, NEW msgs \in Seq(Messages),
           \A m \in Of(msgs) : Ending(m), NEW x, Receive(p, x), Handled(p, msgs)
    PROVE  /\ chan' \in [Peers -> Seq(Messages)] /\ SocketsInOrder'
           /\ \A q \in Peers : \A m \in Msgs(q)' : m \in Msgs(q) \/ Ending(m)
<1>1. \A m \in Of(msgs) : Plain(m)
  BY DEF Ending, Plain
<1>2. SocketsInOrder'
  BY <1>1, OrderHandled DEF SetupInv
<1>3. /\ chan' \in [Peers -> Seq(Messages)]
      /\ Msgs(p)' \subseteq Msgs(p) /\ Msgs(Other(p))' = Msgs(Other(p)) \cup Of(msgs)
  BY HandledStep DEF SetupInv, TypeOK
<1> QED
  BY <1>2, <1>3 DEF Peers, Other

LEMMA ClosingEnds ==
    ASSUME SetupInv, NEW e \in End, Up(e)
    PROVE  /\ Closing(e) \in Seq(Messages) /\ \A m \in Of(Closing(e)) : Ending(m)
           /\ <<>> \in Seq(Messages) /\ \A m \in Of(<<>>) : Ending(m)
<1>2. TypeOK /\ (entry[e].rid # 0 => entry[e].rid \in Ids(Other(e[1])))
  BY RidType DEF SetupInv
<1>3. Closing(e) \in Seq(Messages) /\ \A m \in Of(Closing(e)) : m.type = "CLOSE"
  BY <1>2, ClosingType
<1> QED
  BY <1>3, Nothing, Zenon DEF Ending

LEMMA RemoveStep ==
    ASSUME SetupInv, NEW e \in End, NEW why \in {"error", "eof", "api"}, Remove(e, why)
    PROVE  SetupInv'
<1>1. Up(e) /\ Dispose(e, why) /\ Send(e[1], Closing(e)) /\ UNCHANGED <<listener, nextId, data, links>>
  BY DEF Remove
<1> QED
  BY <1>1, Ends, ClosingEnds, EndingSent, DisposedStep DEF Ending

LEMMA ErrorMessages ==
    ASSUME SetupInv, NEW e \in End, WriteError(e)
    PROVE  /\ <<DataError(entry[e].rid)>> \o Closing(e) \in Seq(Messages)
           /\ \A m \in Of(<<DataError(entry[e].rid)>> \o Closing(e)) : Ending(m)
<1> DEFINE msgs == <<DataError(entry[e].rid)>> \o Closing(e)
<1>1. Up(e) /\ entry[e].wq # <<>>
  BY DEF WriteError
<1>2. DataError(entry[e].rid) \in Messages
  <2>1. entry[e].rid # 0
    <3>1. CASE e[1] = "local"
      <4>1. PICK i \in Ids("local") : e = Lo(i)
        BY <3>1, Ends DEF Lo
      <4>2. <<i, entry[e].rid>> \in links
        BY <1>1, <4>1 DEF SetupInv, LocalOK, LocalEntryOK
      <4> QED
        BY <4>2, IdsType DEF SetupInv, TypeOK, Peers
    <3>2. CASE e[1] = "remote"
      <4>1. PICK r \in Ids("remote") : e = Re(r)
        BY <3>2, Ends DEF Re
      <4> QED
        BY <1>1, <4>1, IdsType DEF SetupInv, RemoteOK, Peers
    <3> QED
      BY <3>1, <3>2, Ends DEF Peers
  <2> QED
    BY <1>1, <2>1, Ends, RidType, MessagesType DEF Peers, Other
<1>3. msgs \in Seq(Messages) /\ \A m \in Of(msgs) : Ending(m)
  <2>1. Of(<<DataError(entry[e].rid)>>) = {DataError(entry[e].rid)}
    BY DEF Of
  <2> QED
    <3>1. <<DataError(entry[e].rid)>> \in Seq(Messages)
      BY <1>2
    <3>2. /\ Closing(e) \in Seq(Messages) /\ \A m \in Of(Closing(e)) : Ending(m)
      BY <1>1, ClosingEnds
    <3>3. msgs \in Seq(Messages) /\ Of(msgs) = {DataError(entry[e].rid)} \cup Of(Closing(e))
      BY <3>1, <3>2, <2>1, Appended
    <3>4. Ending(DataError(entry[e].rid))
      BY DEF Ending, DataError
    <3> QED
      BY <3>2, <3>3, <3>4, Zenon
<1> QED
  BY <1>3

LEMMA WriteErrorStep ==
    ASSUME SetupInv, NEW e \in End, WriteError(e)
    PROVE  SetupInv'
<1> DEFINE msgs == <<DataError(entry[e].rid)>> \o Closing(e)
<1>1. /\ Up(e) /\ entry[e].wq # <<>> /\ Dispose(e, "error") /\ Send(e[1], msgs)
      /\ UNCHANGED <<listener, nextId, data, links>>
  BY DEF WriteError
<1>2. msgs \in Seq(Messages) /\ \A m \in Of(msgs) : Ending(m)
  BY ErrorMessages
<1> HIDE DEF msgs
<1> QED
  BY <1>1, <1>2, Ends, EndingSent, DisposedStep DEF Ending

LEMMA HandleCloseStep ==
    ASSUME SetupInv, NEW p \in Peers, HandleClose(p)
    PROVE  SetupInv'
<1>1. PICK i \in Ids(p) :
        /\ Receive(p, Close(i)) /\ Handled(p, <<>>)
        /\ (Up(<<p, i>>) /\ Dispose(<<p, i>>, "peer")) \/ (~Up(<<p, i>>) /\ UNCHANGED <<entry, cause>>)
        /\ UNCHANGED <<listener, nextId, data, links>>
  BY DEF HandleClose
<1>2. <<p, i>> \in End /\ <<>> \in Seq(Messages) /\ \A m \in Of(<<>>) : Ending(m)
  BY Ends DEF Of
<1>3. /\ chan' \in [Peers -> Seq(Messages)] /\ SocketsInOrder'
      /\ \A q \in Peers : \A m \in Msgs(q)' : m \in Msgs(q) \/ Ending(m)
  BY <1>1, <1>2, EndingHandled
<1>4. CASE Up(<<p, i>>) /\ Dispose(<<p, i>>, "peer")
  BY <1>1, <1>2, <1>3, <1>4, DisposedStep DEF Ending
<1>5. CASE UNCHANGED <<entry, cause>>
  BY <1>1, <1>3, <1>5, QuietStep DEF Ending, SetupInv, TypeOK
<1> QED
  BY <1>1, <1>4, <1>5

LEMMA DataFailedStep ==
    ASSUME SetupInv, NEW p \in Peers, DataFailed(p)
    PROVE  SetupInv'
<1>1. PICK i \in Ids(p) :
        /\ Receive(p, DataError(i))
        /\ \/ Up(<<p, i>>) /\ Dispose(<<p, i>>, "error") /\ Handled(p, Closing(<<p, i>>))
           \/ Handled(p, <<>>) /\ UNCHANGED <<entry, cause>>
        /\ UNCHANGED <<listener, nextId, data, links>>
  BY DEF DataFailed
<1>2. <<p, i>> \in End /\ <<>> \in Seq(Messages) /\ \A m \in Of(<<>>) : Ending(m)
  BY Ends DEF Of
<1>3. CASE Up(<<p, i>>) /\ Dispose(<<p, i>>, "error") /\ Handled(p, Closing(<<p, i>>))
  BY <1>1, <1>2, <1>3, ClosingEnds, EndingHandled, DisposedStep DEF Ending
<1>4. CASE Handled(p, <<>>) /\ UNCHANGED <<entry, cause>>
  <2>1. /\ chan' \in [Peers -> Seq(Messages)] /\ SocketsInOrder'
        /\ \A q \in Peers : \A m \in Msgs(q)' : m \in Msgs(q) \/ Ending(m)
    BY <1>1, <1>2, <1>4, EndingHandled
  <2> QED
    BY <1>1, <1>4, <2>1, QuietStep DEF Ending, SetupInv, TypeOK
<1> QED
  BY <1>1, <1>3, <1>4

LEMMA ListenerStep ==
    ASSUME SetupInv, AcceptError \/ RemoveListener
    PROVE  SetupInv'
<1>1. /\ listener' \in {"accepting", "stalled", "gone"}
      /\ UNCHANGED <<entry, nextId, chan, data, links, cause>>
  BY DEF AcceptError, RemoveListener
<1>2. chan' \in [Peers -> Seq(Messages)] /\ SocketsInOrder'
      /\ \A p \in Peers : \A m \in Msgs(p)' : m \in Msgs(p)
  BY <1>1 DEF SetupInv, TypeOK, SocketsInOrder, Msgs
<1> QED
  BY <1>1, <1>2, QuietStep

\* The queue of e changes.
LEMMA QueueStep ==
    ASSUME SetupInv, NEW e \in End, Up(e), entry[e].pending # "SOCKET",
           NEW w \in Seq(Buffer), entry' = [entry EXCEPT ![e].wq = w],
           \A k \in DOMAIN w :
                1 <= w[k].lo /\ w[k].lo + w[k].sent <= w[k].hi /\ w[k].hi <= MaxBytes,
           given' \in [End -> Seq(1 .. MaxBytes)],
           UNCHANGED <<listener, nextId, taken, links, cause>>,
           chan' \in [Peers -> Seq(Messages)], SocketsInOrder',
           \A p \in Peers : \A m \in Msgs(p)' : m \in Msgs(p)
    PROVE  SetupInv'
<1>1. entry \in [End -> Entry]
  BY DEF SetupInv, TypeOK
<1>2. [entry[e] EXCEPT !.wq = w] \in Entry /\ [entry[e] EXCEPT !.wq = w].wq = w
  <2>1. entry[e] \in Entry
    BY <1>1
  <2> QED
    BY <2>1 DEF Entry
<1>3. \A f \in End : entry'[f] = IF f = e THEN [entry[e] EXCEPT !.wq = w] ELSE entry[f]
  BY <1>1
<1>4. entry' \in [End -> Entry]
  BY <1>1, <1>2
<1>5. TypeOK'
  BY <1>4 DEF SetupInv, TypeOK
<1>6. BuffersOK'
  <2>1. \A p \in Peers : \A m \in Msgs(p)' : m.type = "DATA" => m.lo <= m.hi
    BY DEF SetupInv, BuffersOK
  <2>2. ASSUME NEW f \in End, NEW k \in DOMAIN entry'[f].wq
        PROVE  /\ 1 <= entry'[f].wq[k].lo
               /\ entry'[f].wq[k].lo + entry'[f].wq[k].sent <= entry'[f].wq[k].hi
               /\ entry'[f].wq[k].hi <= MaxBytes
    <3>1. CASE f = e
      <4>1. entry'[f].wq = w
        BY <1>2, <1>3, <3>1
      <4> QED
        BY <4>1
    <3>2. CASE f # e
      <4>1. entry'[f] = entry[f]
        BY <1>3, <3>2
      <4> QED
        BY <4>1 DEF SetupInv, BuffersOK
    <3> QED
      BY <3>1, <3>2
  <2> QED
    BY <2>1, <2>2 DEF BuffersOK
<1> QED
  BY <1>3, <1>5, <1>6, FrameStep

LEMMA Concatenated ==
    ASSUME NEW S, NEW s \in Seq(S), NEW t \in Seq(S)
    PROVE  /\ s \o t \in Seq(S) /\ Len(s \o t) = Len(s) + Len(t)
           /\ \A k \in 1 .. Len(s) : (s \o t)[k] = s[k]
           /\ \A k \in 1 .. Len(t) : (s \o t)[Len(s) + k] = t[k]
  OBVIOUS

LEMMA Replaced ==
    ASSUME NEW t \in Seq(Buffer), NEW c \in Buffer
    PROVE  /\ <<c>> \o t \in Seq(Buffer) /\ Len(<<c>> \o t) = Len(t) + 1
           /\ (<<c>> \o t)[1] = c
           /\ \A k \in DOMAIN (<<c>> \o t) :
                k = 1 \/ (k - 1 \in DOMAIN t /\ (<<c>> \o t)[k] = t[k - 1])
<1>1. <<c>> \in Seq(Buffer) /\ Len(<<c>>) = 1 /\ <<c>>[1] = c
  OBVIOUS
<1> DEFINE d == <<c>>
<1>2. d \in Seq(Buffer) /\ Len(d) = 1 /\ d[1] = c
  BY <1>1
<1> HIDE DEF d
<1>3. /\ d \o t \in Seq(Buffer) /\ Len(d \o t) = Len(d) + Len(t)
      /\ \A k \in 1 .. Len(d) : (d \o t)[k] = d[k]
      /\ \A k \in 1 .. Len(t) : (d \o t)[Len(d) + k] = t[k]
  BY <1>2, Concatenated
<1>4. ASSUME NEW k \in DOMAIN (d \o t)
      PROVE  k = 1 \/ (k - 1 \in DOMAIN t /\ (d \o t)[k] = t[k - 1])
  <2>1. k \in 1 .. (1 + Len(t)) /\ Len(t) \in Nat
    BY <1>2, <1>3
  <2>2. CASE k # 1
    <3>1. k - 1 \in 1 .. Len(t) /\ 1 + (k - 1) = k
      BY <2>1, <2>2
    <3>2. (d \o t)[Len(d) + (k - 1)] = t[k - 1]
      BY <1>3, <3>1
    <3>3. k - 1 \in DOMAIN t
      BY <3>1
    <3>4. Len(d) + (k - 1) = k
      BY <1>2, <3>1
    <3> QED
      BY <3>2, <3>3, <3>4
  <2> QED
    BY <2>2
<1> QED
  BY <1>2, <1>3, <1>4 DEF d

LEMMA WriteStep ==
    ASSUME SetupInv, NEW e \in End, NEW n \in 1 .. MaxBytes, Write(e, n)
    PROVE  SetupInv'
<1> DEFINE q == entry[e].wq
           b == Head(q)
           w == IF b.lo + b.sent + n - 1 = b.hi THEN Tail(q)
                ELSE <<[b EXCEPT !.sent = @ + n]>> \o Tail(q)
           new == [k \in 1 .. n |-> b.lo + b.sent + k - 1]
<1>1. /\ Up(e) /\ q # <<>> /\ b.lo + b.sent + n - 1 <= b.hi
      /\ given' = [given EXCEPT ![e] = @ \o new]
      /\ entry' = [entry EXCEPT ![e].wq = w]
      /\ UNCHANGED <<listener, nextId, chan, taken, links, cause>>
  BY DEF Write
<1>2. q \in Seq(Buffer) /\ b \in Buffer /\ b = q[1] /\ 1 \in DOMAIN q
  <2>1. entry[e] \in Entry
    BY DEF SetupInv, TypeOK
  <2>2. q \in Seq(Buffer)
    BY <2>1 DEF Entry
  <2> HIDE DEF q
  <2> QED
    BY <1>1, <2>2
<1>3. 1 <= b.lo /\ b.lo + b.sent <= b.hi /\ b.hi <= MaxBytes
  BY <1>2 DEF SetupInv, BuffersOK
<1>4. b.lo \in Nat /\ b.hi \in Nat /\ b.sent \in Nat /\ MaxBytes \in Nat /\ n \in Nat /\ n >= 1
  BY <1>2, ParametersAssumption DEF Buffer
<1>5. entry[e].pending # "SOCKET"
  <2>1. CASE e[1] = "local"
    <3>1. PICK i \in Ids("local") : e = Lo(i)
      BY <2>1, Ends DEF Lo
    <3> QED
      BY <1>1, <3>1 DEF SetupInv, LocalOK, LocalEntryOK
  <2>2. CASE e[1] = "remote"
    <3>1. PICK r \in Ids("remote") : e = Re(r)
      BY <2>2, Ends DEF Re
    <3> QED
      BY <1>1, <3>1 DEF SetupInv, RemoteOK
  <2> QED
    BY <2>1, <2>2, Ends DEF Peers
<1>6. given' \in [End -> Seq(1 .. MaxBytes)]
  <2> HIDE DEF b
  <2>1. \A k \in 1 .. n : b.lo + b.sent + k - 1 \in 1 .. MaxBytes
    BY <1>1, <1>3, <1>4
  <2>2. new \in Seq(1 .. MaxBytes)
    BY <2>1, <1>4
  <2> HIDE DEF new
  <2>3. given \in [End -> Seq(1 .. MaxBytes)]
    BY DEF SetupInv, TypeOK
  <2>4. given[e] \o new \in Seq(1 .. MaxBytes)
    BY <2>2, <2>3
  <2> QED
    BY <1>1, <2>3, <2>4
<1>7. Tail(q) \in Seq(Buffer) /\ \A k \in DOMAIN Tail(q) : Tail(q)[k] = q[k + 1] /\ k + 1 \in DOMAIN q
  <2> HIDE DEF q
  <2> QED
    BY <1>1, <1>2
<1>8. /\ w \in Seq(Buffer)
      /\ \A k \in DOMAIN w :
            1 <= w[k].lo /\ w[k].lo + w[k].sent <= w[k].hi /\ w[k].hi <= MaxBytes
  <2>1. \A k \in DOMAIN Tail(q) :
            1 <= Tail(q)[k].lo /\ Tail(q)[k].lo + Tail(q)[k].sent <= Tail(q)[k].hi
            /\ Tail(q)[k].hi <= MaxBytes
    BY <1>7 DEF SetupInv, BuffersOK
  <2>2. CASE b.lo + b.sent + n - 1 = b.hi
    <3>1. w = Tail(q)
      BY <2>2
    <3> QED
      BY <1>7, <2>1, <3>1
  <2>3. CASE b.lo + b.sent + n - 1 # b.hi
    <3> DEFINE c == [b EXCEPT !.sent = @ + n]
               t == Tail(q)
    <3>1. c \in Buffer /\ c.lo = b.lo /\ c.hi = b.hi /\ c.sent = b.sent + n
      <4>1. b \in Buffer /\ b.sent + n \in Nat
        BY <1>2, <1>4
      <4> HIDE DEF b
      <4> QED
        BY <4>1 DEF Buffer
    <3>2. c.lo + c.sent <= c.hi
      <4> HIDE DEF c, b
      <4>1. b.lo + b.sent + n - 1 < b.hi
        BY <1>1, <1>4, <2>3
      <4> QED
        BY <1>4, <3>1, <4>1
    <3>3. w = <<c>> \o t
      BY <2>3
    <3>5. t \in Seq(Buffer)
      BY <1>7
    <3> HIDE DEF c, t, w, b, q
    <3>4. /\ <<c>> \o t \in Seq(Buffer)
          /\ \A k \in DOMAIN (<<c>> \o t) :
                \/ k = 1 /\ (<<c>> \o t)[k] = c
                \/ k - 1 \in DOMAIN t /\ (<<c>> \o t)[k] = t[k - 1]
      BY <3>1, <3>5, Replaced
    <3> QED
      BY <1>3, <2>1, <3>1, <3>2, <3>3, <3>4 DEF t
  <2> QED
    BY <2>2, <2>3
<1>9. /\ chan' \in [Peers -> Seq(Messages)] /\ SocketsInOrder'
      /\ \A p \in Peers : \A m \in Msgs(p)' : m \in Msgs(p)
  BY <1>1 DEF SetupInv, TypeOK, SocketsInOrder, Msgs
<1> HIDE DEF w, q, b, new
<1> QED
  BY <1>1, <1>5, <1>6, <1>8, <1>9, QueueStep

LEMMA HandleDataStep ==
    ASSUME SetupInv, NEW p \in Peers, HandleData(p)
    PROVE  SetupInv'
<1>1. PICK i \in Ids(p), lo \in 1 .. MaxBytes, hi \in 1 .. MaxBytes :
        /\ Receive(p, Data(i, lo, hi))
        /\ entry' = IF Up(<<p, i>>) /\ entry[<<p, i>>].io
                    THEN [entry EXCEPT ![<<p, i>>].wq =
                            Append(@, [lo |-> lo, hi |-> hi, sent |-> 0])]
                    ELSE entry
        /\ Handled(p, <<>>)
        /\ UNCHANGED <<listener, nextId, data, links, cause>>
  BY DEF HandleData
<1> DEFINE e == <<p, i>>
           x == [lo |-> lo, hi |-> hi, sent |-> 0]
           w == Append(entry[e].wq, x)
<1>2. e \in End
  BY Ends
<1>3. /\ chan' \in [Peers -> Seq(Messages)] /\ SocketsInOrder'
      /\ \A q \in Peers : \A m \in Msgs(q)' : m \in Msgs(q)
  <2>1. /\ chan' \in [Peers -> Seq(Messages)] /\ Msgs(p)' \subseteq Msgs(p)
        /\ Msgs(Other(p))' = Msgs(Other(p)) \cup Of(<<>>)
    BY <1>1, Nothing, HandledStep DEF SetupInv, TypeOK
  <2>2. SocketsInOrder'
    BY <1>1, Nothing, OrderHandled DEF SetupInv
  <2> QED
    BY <2>1, <2>2, Nothing DEF Peers, Other
<1>4. CASE ~(Up(e) /\ entry[e].io)
  <2>1. entry' = entry
    BY <1>1, <1>4
  <2> QED
    BY <1>1, <1>3, <2>1, QuietStep DEF SetupInv, TypeOK
<1>5. CASE Up(e) /\ entry[e].io
  <2>1. Data(i, lo, hi) \in Msgs(p) /\ lo <= hi
    <3>1. Data(i, lo, hi) \in Msgs(p)
      BY <1>1 DEF Receive, Msgs, SetupInv, TypeOK
    <3> QED
      BY <3>1 DEF SetupInv, BuffersOK, Data
  <2>2. entry[e].pending # "SOCKET"
    <3>1. CASE p = "local"
      <4>1. \E r \in Ids("remote") : <<i, r>> \in links
        BY <2>1, <3>1 DEF SetupInv, DataOK
      <4> QED
        BY <1>5, <3>1, <4>1 DEF SetupInv, LocalOK, LocalEntryOK, Lo
    <3>2. CASE p = "remote"
      BY <1>5, <3>2 DEF SetupInv, RemoteOK, Re
    <3> QED
      BY <3>1, <3>2 DEF Peers
  <2>3. entry[e].wq \in Seq(Buffer)
    BY <1>2 DEF SetupInv, TypeOK, Entry
  <2>4. x \in Buffer /\ x.lo = lo /\ x.hi = hi /\ x.sent = 0
    BY DEF Buffer
  <2> HIDE DEF x
  <2>5. /\ w \in Seq(Buffer)
        /\ \A k \in DOMAIN w : w[k] = x \/ (k \in DOMAIN entry[e].wq /\ w[k] = entry[e].wq[k])
    BY <2>3, <2>4
  <2>6. \A k \in DOMAIN w :
            1 <= w[k].lo /\ w[k].lo + w[k].sent <= w[k].hi /\ w[k].hi <= MaxBytes
    <3>1. 1 <= x.lo /\ x.lo + x.sent <= x.hi /\ x.hi <= MaxBytes
      BY <2>1, <2>4, ParametersAssumption
    <3>2. \A k \in DOMAIN entry[e].wq :
            /\ 1 <= entry[e].wq[k].lo
            /\ entry[e].wq[k].lo + entry[e].wq[k].sent <= entry[e].wq[k].hi
            /\ entry[e].wq[k].hi <= MaxBytes
      BY <1>2 DEF SetupInv, BuffersOK
    <3> QED
      BY <2>5, <3>1, <3>2
  <2>7. entry' = [entry EXCEPT ![e].wq = w]
    BY <1>1, <1>5 DEF x
  <2>8. given' \in [End -> Seq(1 .. MaxBytes)] /\ taken' = taken
    BY <1>1 DEF SetupInv, TypeOK, data
  <2> HIDE DEF w, e
  <2> QED
    BY <1>1, <1>2, <1>3, <1>5, <2>2, <2>5, <2>6, <2>7, <2>8, QueueStep
<1> QED
  BY <1>4, <1>5

-----------------------------------------------------------------------------
(* Setting a connection up *)

LEMMA MessageForm ==
    /\ \A m \in Messages : m.type = "SOCKET" => \E i \in Ids("local") : m = Socket(i)
    /\ \A m \in Messages : m.type = "SOCKET_done" =>
            \E i \in Ids("local"), r \in Ids("remote") \cup {0} : m = SocketDone(i, r)
    /\ \A m \in Messages : m.type = "DATA" =>
            \E lo, hi \in 1 .. MaxBytes : m = Data(m.id, lo, hi) /\ m.lo = lo /\ m.hi = hi
<1> SUFFICES ASSUME NEW m \in Messages
             PROVE  /\ m.type = "SOCKET" => \E i \in Ids("local") : m = Socket(i)
                    /\ m.type = "SOCKET_done" =>
                        \E i \in Ids("local"), r \in Ids("remote") \cup {0} : m = SocketDone(i, r)
                    /\ m.type = "DATA" =>
                        \E lo, hi \in 1 .. MaxBytes :
                            m = Data(m.id, lo, hi) /\ m.lo = lo /\ m.hi = hi
  OBVIOUS
<1>1. \/ \E i \in Ids("local") : m = Socket(i)
      \/ \E i : m = Close(i) \/ m = DataError(i)
      \/ \E i \in Ids("local"), r \in Ids("remote") \cup {0} : m = SocketDone(i, r)
      \/ \E i, r : m = Connect(r, i)
      \/ \E i, ok : m = ConnectDone(i, ok)
      \/ \E i : \E lo, hi \in 1 .. MaxBytes : m = Data(i, lo, hi)
  BY DEF Messages
<1>2. /\ \A i : Socket(i).type = "SOCKET" /\ Close(i).type = "CLOSE"
                /\ DataError(i).type = "DATA_error"
      /\ \A i, r : SocketDone(i, r).type = "SOCKET_done" /\ Connect(r, i).type = "CONNECT"
                    /\ ConnectDone(i, r).type = "CONNECT_done"
      /\ \A i, lo, hi : /\ Data(i, lo, hi).type = "DATA" /\ Data(i, lo, hi).id = i
                         /\ Data(i, lo, hi).lo = lo /\ Data(i, lo, hi).hi = hi
  BY DEF Socket, SocketDone, Connect, ConnectDone, Data, DataError, Close
<1> QED
  BY <1>1, <1>2

LEMMA One ==
    ASSUME NEW m \in Messages
    PROVE  <<m>> \in Seq(Messages) /\ Of(<<m>>) = {m} /\ Len(<<m>>) = 1 /\ <<m>>[1] = m
  BY DEF Of

LEMMA BuffersKept ==
    ASSUME BuffersOK,
           \A e \in End : entry'[e].wq = entry[e].wq \/ entry'[e].wq = <<>>,
           \A p \in Peers : \A m \in Msgs(p)' : m \in Msgs(p) \/ m.type # "DATA"
    PROVE  BuffersOK'
<1>1. \A p \in Peers : \A m \in Msgs(p)' : m.type = "DATA" => m.lo <= m.hi
  BY DEF BuffersOK
<1>2. ASSUME NEW f \in End, NEW k \in DOMAIN entry'[f].wq
      PROVE  /\ 1 <= entry'[f].wq[k].lo
             /\ entry'[f].wq[k].lo + entry'[f].wq[k].sent <= entry'[f].wq[k].hi
             /\ entry'[f].wq[k].hi <= MaxBytes
  <2>1. entry'[f].wq = entry[f].wq
    BY <1>2, Nothing
  <2> QED
    BY <2>1 DEF BuffersOK
<1> QED
  BY <1>1, <1>2 DEF BuffersOK

\* Only one SOCKET call is made for an id, and it is answered once.
LEMMA HandledSocket ==
    ASSUME SetupInv, NEW i \in Ids("local"), Receive("remote", Socket(i)),
           chan'["remote"] = Tail(chan["remote"])
    PROVE  \A j \in Ids("local") : Socket(j) \in Msgs("remote")' => j > i
<1>1. chan["remote"] \in Seq(Messages) /\ chan["remote"] # <<>> /\ chan["remote"][1] = Socket(i)
  BY DEF SetupInv, TypeOK, Receive, Peers
<1> SUFFICES ASSUME NEW j \in Ids("local"), Socket(j) \in Msgs("remote")'
             PROVE  j > i
  OBVIOUS
<1>2. PICK k \in DOMAIN chan'["remote"] : chan'["remote"][k] = Socket(j)
  BY DEF Msgs
<1>3. k + 1 \in DOMAIN chan["remote"] /\ chan["remote"][k + 1] = Socket(j) /\ 1 < k + 1
  BY <1>1, <1>2
<1>4. 1 \in DOMAIN chan["remote"]
  BY <1>1
<1>5. \A x \in Ids("local") : Socket(x).type = "SOCKET" /\ Socket(x).id = x
  BY DEF Socket
<1>6. chan["remote"][1].id < chan["remote"][k + 1].id
  <2>1. chan["remote"][1].type = "SOCKET" /\ chan["remote"][k + 1].type = "SOCKET"
    BY <1>1, <1>3, <1>5
  <2> QED
    BY <1>3, <1>4, <2>1, Zenon DEF SetupInv, SocketsInOrder
<1>7. i < j
  BY <1>1, <1>3, <1>5, <1>6
<1> QED
  BY <1>7, IdsType DEF Peers

LEMMA HandledSocketDone ==
    ASSUME SetupInv, NEW i \in Ids("local"), NEW rid \in Ids("remote") \cup {0},
           Receive("local", SocketDone(i, rid)), chan'["local"] = Tail(chan["local"])
    PROVE  \A r \in Ids("remote") \cup {0} : SocketDone(i, r) \notin Msgs("local")'
<1>1. chan["local"] \in Seq(Messages) /\ chan["local"] # <<>> /\ chan["local"][1] = SocketDone(i, rid)
  BY DEF SetupInv, TypeOK, Receive, Peers
<1> SUFFICES ASSUME NEW r \in Ids("remote") \cup {0}, SocketDone(i, r) \in Msgs("local")'
             PROVE  FALSE
  OBVIOUS
<1>2. PICK k \in DOMAIN chan'["local"] : chan'["local"][k] = SocketDone(i, r)
  BY DEF Msgs
<1>3. k + 1 \in DOMAIN chan["local"] /\ chan["local"][k + 1] = SocketDone(i, r) /\ 1 # k + 1
  BY <1>1, <1>2
<1>4. 1 \in DOMAIN chan["local"]
  BY <1>1
<1>5. \A x : SocketDone(i, x).type = "SOCKET_done" /\ SocketDone(i, x).id = i
  BY DEF SocketDone
<1> QED
  BY <1>1, <1>3, <1>4, <1>5 DEF SetupInv, SocketsInOrder

LEMMA ConnectionAcceptedStep ==
    ASSUME SetupInv, ConnectionAccepted
    PROVE  SetupInv'
<1> DEFINE id == nextId["local"]
           e == Lo(id)
           new == [Blank EXCEPT !.phase = "up", !.io = TRUE, !.pending = "SOCKET"]
<1>1. /\ id \in Ids("local") /\ entry' = [entry EXCEPT ![e] = new]
      /\ nextId' = [nextId EXCEPT !["local"] = id + 1] /\ Send("local", <<Socket(id)>>)
      /\ UNCHANGED <<listener, data, links, cause>>
  BY DEF ConnectionAccepted, ConnectRemoteStart, Lo
<1>2. /\ new \in Entry /\ new.phase = "up" /\ new.io /\ new.pending = "SOCKET" /\ new.rid = 0
      /\ ~new.reading /\ new.wq = <<>>
  BY EntryType DEF Blank, Entry
<1> HIDE DEF new
<1>3. e \in End /\ \A i \in Ids("local") : Lo(i) = e <=> i = id
  BY <1>1, Ends DEF Lo
<1>4. \A f \in End : entry'[f] = IF f = e THEN new ELSE entry[f]
  BY <1>1 DEF SetupInv, TypeOK
<1>5. \A r \in Ids("remote") : Re(r) # e /\ entry'[Re(r)] = entry[Re(r)] /\ Up(Re(r))' = Up(Re(r))
  BY <1>4, Ends DEF Re, Lo, Up
<1>6. ~Up(e) /\ entry[e].phase = "new" /\ id \in Nat
  <2>1. e[1] = "local" /\ e[2] = id
    BY DEF Lo
  <2>2. id >= nextId["local"] /\ id \in Nat
    BY <1>1, IdsType DEF Peers
  <2> QED
    BY <1>3, <2>1, <2>2 DEF SetupInv, IdsInOrder, Up
<1>7. /\ chan' \in [Peers -> Seq(Messages)] /\ Msgs("local")' = Msgs("local")
      /\ Msgs("remote")' = Msgs("remote") \cup {Socket(id)}
      /\ chan'["local"] = chan["local"] /\ chan'["remote"] = chan["remote"] \o <<Socket(id)>>
  <2>1. Socket(id) \in Messages /\ Other("local") = "remote" /\ "local" \in Peers
    BY <1>1, MessagesType DEF Other, Peers
  <2>2. <<Socket(id)>> \in Seq(Messages) /\ Of(<<Socket(id)>>) = {Socket(id)}
    BY <2>1, One
  <2>3. chan \in [Peers -> Seq(Messages)] /\ Send("local", <<Socket(id)>>)
    BY <1>1 DEF SetupInv, TypeOK
  <2> QED
    BY <2>1, <2>2, <2>3, SendStep, Zenon
<1>8. nextId' \in [Peers -> Nat] /\ nextId'["local"] = id + 1 /\ nextId'["remote"] = nextId["remote"]
  BY <1>1, <1>6 DEF SetupInv, TypeOK, Peers
<1>9. entry' \in [End -> Entry]
  BY <1>1, <1>2, <1>3 DEF SetupInv, TypeOK
<1>10. TypeOK'
  BY <1>1, <1>7, <1>8, <1>9 DEF SetupInv, TypeOK, data
<1>11. IdsInOrder'
  <2>1. /\ \A p \in Peers : nextId'[p] \in FirstId[p] .. FirstId[p] + MaxConn
        /\ nextId'["remote"] - FirstId["remote"] <= nextId'["local"] - FirstId["local"]
    BY <1>1, <1>8, IdsType, ParametersAssumption DEF SetupInv, IdsInOrder, Peers
  <2>2. ASSUME NEW f \in End PROVE entry'[f].phase = "new" <=> f[2] >= nextId'[f[1]]
    <3>1. f[1] \in Peers /\ f[2] \in Nat /\ f = <<f[1], f[2]>>
      BY Ends, IdsType
    <3>2. CASE f = e
      BY <1>2, <1>4, <1>6, <1>8, <3>2 DEF Lo
    <3>3. CASE f # e
      <4>1. entry[f].phase = "new" <=> f[2] >= nextId[f[1]]
        BY DEF SetupInv, IdsInOrder
      <4>2. f[1] = "remote" \/ (f[1] = "local" /\ f[2] # id)
        BY <3>1, <3>3 DEF Peers, Lo
      <4> QED
        BY <1>4, <1>6, <1>8, <3>1, <3>3, <4>1, <4>2
    <3> QED
      BY <3>2, <3>3
  <2> QED
    BY <2>1, <2>2 DEF IdsInOrder
<1>12. NothingLeft'
  BY <1>2, <1>4 DEF SetupInv, NothingLeft, Up
<1>13. BuffersOK'
  <2>1. \A f \in End : entry'[f].wq = entry[f].wq \/ entry'[f].wq = <<>>
    BY <1>2, <1>4
  <2>2. \A p \in Peers : \A m \in Msgs(p)' : m \in Msgs(p) \/ m.type # "DATA"
    BY <1>7 DEF Peers, Socket
  <2> QED
    BY <2>1, <2>2, BuffersKept DEF SetupInv
<1>14. SocketsInOrder'
  <2> DEFINE s == chan["remote"]
             m == Socket(id)
  <2>1. s \in Seq(Messages) /\ m \in Messages /\ m.id = id
    BY <1>1, MessagesType DEF SetupInv, TypeOK, Peers, Socket
  <2>2. \A k \in DOMAIN s : s[k].type = "SOCKET" => s[k].id < id
    <3> SUFFICES ASSUME NEW k \in DOMAIN s, s[k].type = "SOCKET" PROVE s[k].id < id
      OBVIOUS
    <3>1. s[k] \in Messages /\ s[k] \in Msgs("remote")
      BY <2>1 DEF Msgs
    <3>2. PICK i \in Ids("local") : s[k] = Socket(i)
      BY <3>1, MessageForm
    <3> QED
      BY <3>1, <3>2 DEF SetupInv, SocketOK, Socket
  <2>3. ASSUME NEW j \in DOMAIN chan'["remote"], NEW k \in DOMAIN chan'["remote"], j < k,
               chan'["remote"][j].type = "SOCKET", chan'["remote"][k].type = "SOCKET"
        PROVE  chan'["remote"][j].id < chan'["remote"][k].id
    <3> HIDE DEF s, m
    <3>1. /\ Len(s \o <<m>>) = Len(s) + 1 /\ DOMAIN (s \o <<m>>) = 1 .. Len(s) + 1
          /\ \A x \in 1 .. Len(s) : (s \o <<m>>)[x] = s[x]
          /\ (s \o <<m>>)[Len(s) + 1] = m
      BY <2>1
    <3>2. chan'["remote"] = s \o <<m>>
      BY <1>7 DEF s, m
    <3>3. j \in DOMAIN s /\ Len(s) \in Nat /\ chan'["remote"][j] = s[j]
      BY <2>1, <2>3, <3>1, <3>2
    <3>4. CASE k \in DOMAIN s
      <4>1. chan'["remote"][k] = s[k]
        BY <2>1, <3>1, <3>2, <3>4
      <4> QED
        BY <2>3, <3>3, <3>4, <4>1 DEF SetupInv, SocketsInOrder, s
    <3>5. CASE k \notin DOMAIN s
      <4>1. k = Len(s) + 1
        BY <2>1, <3>1, <3>2, <3>5
      <4>2. chan'["remote"][k].id = id
        BY <2>1, <3>1, <3>2, <4>1
      <4> QED
        BY <2>2, <2>3, <3>3, <4>2
    <3> QED
      BY <3>4, <3>5
  <2> QED
    BY <1>7, <2>3 DEF SetupInv, SocketsInOrder
<1>15. \A i \in Ids("local"), r \in Ids("remote") : Pair(i, r)' = Pair(i, r)
  BY <1>1, <1>5, <1>7 DEF Pair
<1>16. PairsMatch'
  <2>1. \A i \in Ids("local") : i < nextId["local"] => i < id + 1
    BY <1>6, IdsType DEF Peers
  <2> QED
    BY <1>8, <1>15, <2>1 DEF SetupInv, PairsMatch
<1>17. \A r \in Ids("remote") : ~Pair(id, r)
  BY <1>1, <1>6 DEF SetupInv, PairsMatch
<1>18. \A i \in Ids("local") : IF i = id THEN entry'[Lo(i)] = new
                                ELSE entry'[Lo(i)] = entry[Lo(i)] /\ Up(Lo(i))' = Up(Lo(i))
  BY <1>3, <1>4, Ends DEF Up
<1>19. LocalOK'
  <2> SUFFICES ASSUME NEW i \in Ids("local"), Up(Lo(i))'
               PROVE  LocalEntryOK(i)'
    BY DEF LocalOK
  <2> QED
    BY <1>1, <1>2, <1>5, <1>17, <1>18 DEF SetupInv, LocalOK, LocalEntryOK, Pair
<1>20. RemoteOK'
  BY <1>1, <1>5 DEF SetupInv, RemoteOK
<1>21. SocketOK'
  <2> SUFFICES ASSUME NEW i \in Ids("local"), Socket(i) \in Msgs("remote")'
               PROVE  /\ i < nextId'["local"]
                      /\ i - FirstId["local"] >= nextId'["remote"] - FirstId["remote"]
                      /\ \A r \in Ids("remote") : ~Pair(i, r)'
                      /\ \A r \in Ids("remote") \cup {0} : SocketDone(i, r) \notin Msgs("local")'
                      /\ Up(Lo(i))' => entry'[Lo(i)].pending = "SOCKET"
    BY DEF SocketOK
  <2>1. CASE i = id
    <3>1. i < nextId'["local"] /\ i - FirstId["local"] >= nextId'["remote"] - FirstId["remote"]
      BY <1>6, <1>8, <2>1 DEF SetupInv, IdsInOrder
    <3>2. \A r \in Ids("remote") \cup {0} : SocketDone(i, r) \notin Msgs("local")
      BY <1>6, <2>1 DEF SetupInv, SocketDoneOK
    <3> QED
      BY <1>2, <1>7, <1>15, <1>17, <1>18, <2>1, <3>1, <3>2
  <2>2. CASE i # id
    <3>1. Socket(i) \in Msgs("remote")
      BY <1>7, <2>2 DEF Socket
    <3>2. i \in Nat
      BY IdsType DEF Peers
    <3>3. i < nextId'["local"]
      BY <1>6, <1>8, <3>1, <3>2 DEF SetupInv, SocketOK
    <3> QED
      BY <1>7, <1>8, <1>15, <1>18, <2>2, <3>1, <3>3 DEF SetupInv, SocketOK
  <2> QED
    BY <2>1, <2>2
<1>22. SocketDoneOK'
  <2> SUFFICES ASSUME NEW i \in Ids("local"), NEW r \in Ids("remote") \cup {0},
                      SocketDone(i, r) \in Msgs("local")'
               PROVE  i < nextId'["local"] /\ (Up(Lo(i))' => entry'[Lo(i)].pending = "SOCKET")
    BY DEF SocketDoneOK
  <2>1. i < nextId["local"] /\ i \in Nat /\ i # id
    BY <1>6, <1>7, IdsType DEF SetupInv, SocketDoneOK, Peers
  <2>2. i < id + 1
    BY <1>6, <2>1
  <2> QED
    BY <1>7, <1>8, <1>18, <2>1, <2>2 DEF SetupInv, SocketDoneOK
<1>23. ConnectOK'
  BY <1>1, <1>5, <1>7 DEF SetupInv, ConnectOK, Connect, Socket
<1>24. DataOK'
  BY <1>1, <1>5, <1>7 DEF SetupInv, DataOK, Data, Socket
<1> QED
  BY <1>10, <1>11, <1>12, <1>13, <1>14, <1>16, <1>19, <1>20, <1>21, <1>22, <1>23, <1>24 DEF SetupInv

\* One message is handled and another one goes back.
LEMMA Answered ==
    ASSUME SetupInv, NEW p \in Peers, NEW x, NEW m \in Messages,
           Receive(p, x), Handled(p, <<m>>)
    PROVE  /\ chan' \in [Peers -> Seq(Messages)] /\ chan'[p] = Tail(chan[p])
           /\ x \in Msgs(p) /\ Msgs(p)' \subseteq Msgs(p)
           /\ Msgs(Other(p))' = Msgs(Other(p)) \cup {m}
           /\ Plain(m) => SocketsInOrder'
<1>1. <<m>> \in Seq(Messages) /\ Of(<<m>>) = {m} /\ chan \in [Peers -> Seq(Messages)]
  BY One DEF SetupInv, TypeOK
<1>2. /\ chan' \in [Peers -> Seq(Messages)] /\ chan'[p] = Tail(chan[p])
      /\ x \in Msgs(p) /\ Msgs(p)' \subseteq Msgs(p)
      /\ Msgs(Other(p))' = Msgs(Other(p)) \cup Of(<<m>>)
  BY <1>1, HandledStep, Zenon
<1>3. ASSUME Plain(m) PROVE SocketsInOrder'
  BY <1>1, <1>3, OrderHandled DEF SetupInv
<1> QED
  BY <1>1, <1>2, <1>3

LEMMA Swallowed ==
    ASSUME SetupInv, NEW p \in Peers, NEW x, Receive(p, x), Handled(p, <<>>)
    PROVE  /\ chan' \in [Peers -> Seq(Messages)] /\ chan'[p] = Tail(chan[p])
           /\ x \in Msgs(p) /\ SocketsInOrder'
           /\ \A q \in Peers : Msgs(q)' \subseteq Msgs(q)
<1>1. /\ chan' \in [Peers -> Seq(Messages)] /\ chan'[p] = Tail(chan[p])
      /\ x \in Msgs(p) /\ Msgs(p)' \subseteq Msgs(p)
      /\ Msgs(Other(p))' = Msgs(Other(p)) \cup Of(<<>>)
  BY Nothing, HandledStep DEF SetupInv, TypeOK
<1>2. SocketsInOrder'
  BY Nothing, OrderHandled DEF SetupInv
<1> QED
  BY <1>1, <1>2, Nothing DEF Peers, Other

LEMMA Shifted ==
    ASSUME NEW s \in Seq(Messages), s # <<>>
    PROVE  \A k \in DOMAIN Tail(s) :
                k \in Nat /\ k + 1 \in DOMAIN s /\ Tail(s)[k] = s[k + 1]
  OBVIOUS

\* t is s with m at the end.
Extends(t, s, m) ==
    \A k \in DOMAIN t :
        (k \in DOMAIN s /\ t[k] = s[k]) \/ (k = Len(s) + 1 /\ t[k] = m)

LEMMA Extended ==
    ASSUME NEW s \in Seq(Messages), NEW m \in Messages
    PROVE  Extends(s \o <<m>>, s, m)
  BY DEF Extends

\* The answer to SOCKET goes back: it is the only one for its id.
LEMMA SocketAnswered ==
    ASSUME SetupInv, NEW i \in Ids("local"), NEW rid \in Ids("remote") \cup {0},
           Receive("remote", Socket(i)),
           Extends(chan'["local"], chan["local"], SocketDone(i, rid)),
           chan'["remote"] = Tail(chan["remote"])
    PROVE  SocketsInOrder'
<1> DEFINE s == chan["local"]
           m == SocketDone(i, rid)
<1>1. s \in Seq(Messages) /\ chan["remote"] \in Seq(Messages)
  BY DEF SetupInv, TypeOK, Peers
<1>5. m.id = i /\ m.type = "SOCKET_done"
  BY DEF SocketDone
<1>2. \A k \in DOMAIN s : s[k].type = "SOCKET_done" => s[k].id # i
  <2> SUFFICES ASSUME NEW k \in DOMAIN s, s[k].type = "SOCKET_done" PROVE s[k].id # i
    OBVIOUS
  <2>1. s[k] \in Messages /\ s[k] \in Msgs("local")
    BY <1>1 DEF Msgs
  <2>2. PICK j \in Ids("local"), r \in Ids("remote") \cup {0} : s[k] = SocketDone(j, r)
    BY <2>1, MessageForm
  <2>3. Socket(i) \in Msgs("remote")
    BY <1>1 DEF Receive, Msgs
  <2> QED
    BY <2>1, <2>2, <2>3 DEF SetupInv, SocketOK, SocketDone
<1>3. ASSUME NEW j \in DOMAIN chan'["local"], NEW k \in DOMAIN chan'["local"], j # k,
             chan'["local"][j].type = "SOCKET_done", chan'["local"][k].type = "SOCKET_done"
      PROVE  chan'["local"][j].id # chan'["local"][k].id
  <2>1. \A x \in DOMAIN chan'["local"] :
            \/ x \in DOMAIN s /\ chan'["local"][x] = s[x]
            \/ x = Len(s) + 1 /\ chan'["local"][x] = m
    BY DEF Extends
  <2> HIDE DEF s, m
  <2>2. \A x, y \in DOMAIN s :
            x # y /\ s[x].type = "SOCKET_done" /\ s[y].type = "SOCKET_done" => s[x].id # s[y].id
    BY DEF SetupInv, SocketsInOrder, s
  <2> QED
    BY <1>5, <1>2, <1>3, <2>1, <2>2
<1>4. ASSUME NEW j \in DOMAIN chan'["remote"], NEW k \in DOMAIN chan'["remote"], j < k,
             chan'["remote"][j].type = "SOCKET", chan'["remote"][k].type = "SOCKET"
      PROVE  chan'["remote"][j].id < chan'["remote"][k].id
  <2>1. chan["remote"] # <<>>
    BY DEF Receive
  <2>2. /\ j \in Nat /\ j + 1 \in DOMAIN chan["remote"] /\ chan'["remote"][j] = chan["remote"][j + 1]
        /\ k \in Nat /\ k + 1 \in DOMAIN chan["remote"] /\ chan'["remote"][k] = chan["remote"][k + 1]
    BY <1>1, <1>4, <2>1, Shifted
  <2>3. j + 1 < k + 1
    BY <1>4, <2>2
  <2> QED
    BY <1>4, <2>2, <2>3, Zenon DEF SetupInv, SocketsInOrder
<1> QED
  BY <1>3, <1>4 DEF SocketsInOrder

LEMMA HandleSocketStep ==
    ASSUME SetupInv, HandleSocket
    PROVE  SetupInv'
<1>1. PICK i \in Ids("local"), ok \in BOOLEAN :
        /\ Receive("remote", Socket(i))
        /\ \/ /\ ok
              /\ entry' = [entry EXCEPT ![Re(nextId["remote"])] =
                                [Blank EXCEPT !.phase = "up", !.rid = i]]
              /\ nextId' = [nextId EXCEPT !["remote"] = nextId["remote"] + 1]
              /\ Handled("remote", <<SocketDone(i, nextId["remote"])>>)
           \/ /\ ~ok /\ Handled("remote", <<SocketDone(i, 0)>>)
              /\ UNCHANGED <<entry, nextId>>
        /\ UNCHANGED <<listener, data, links, cause>>
  BY DEF HandleSocket, Re
<1> DEFINE id == nextId["remote"]
           rid == IF ok THEN id ELSE 0
           e == Re(id)
           new == [Blank EXCEPT !.phase = "up", !.rid = i]
<1>2. new \in Entry /\ new.phase = "up" /\ new.rid = i /\ ~new.io /\ ~new.reading
      /\ new.pending = "none" /\ new.wq = <<>>
  <2>1. i \in Nat
    BY IdsType DEF Peers
  <2> QED
    BY <2>1, EntryType DEF Blank, Entry
<1> HIDE DEF new
<1>3. Socket(i) \in Msgs("remote")
  BY <1>1 DEF Receive, Msgs, SetupInv, TypeOK, Peers
<1>4. /\ i < nextId["local"]
      /\ i - FirstId["local"] >= nextId["remote"] - FirstId["remote"]
      /\ \A r \in Ids("remote") : ~Pair(i, r)
      /\ \A r \in Ids("remote") \cup {0} : SocketDone(i, r) \notin Msgs("local")
      /\ Up(Lo(i)) => entry[Lo(i)].pending = "SOCKET"
  BY <1>3 DEF SetupInv, SocketOK
<1>5. id \in Ids("remote") /\ id \in Nat /\ rid \in Ids("remote") \cup {0} /\ i \in Nat
  BY <1>4, IdsType, ParametersAssumption DEF SetupInv, TypeOK, IdsInOrder, Peers
<1>6. Handled("remote", <<SocketDone(i, rid)>>)
  BY <1>1
<1>7. /\ chan' \in [Peers -> Seq(Messages)] /\ chan'["remote"] = Tail(chan["remote"])
      /\ Msgs("remote")' \subseteq Msgs("remote")
      /\ Msgs("local")' = Msgs("local") \cup {SocketDone(i, rid)}
  <2>1. SocketDone(i, rid) \in Messages /\ "remote" \in Peers /\ Other("remote") = "local"
    BY <1>5, MessagesType DEF Peers, Other
  <2> HIDE DEF rid
  <2> QED
    BY <1>1, <1>6, <2>1, Answered
<1>8. SocketsInOrder'
  <2>1. /\ chan'["local"] = chan["local"] \o <<SocketDone(i, rid)>>
        /\ chan'["remote"] = Tail(chan["remote"])
    BY <1>6 DEF SetupInv, TypeOK, Handled, Other, Peers
  <2> HIDE DEF rid
  <2>2. /\ Extends(chan'["local"], chan["local"], SocketDone(i, rid))
        /\ chan["local"] \in Seq(Messages) /\ SocketDone(i, rid) \in Messages
    <3>1. chan["local"] \in Seq(Messages) /\ SocketDone(i, rid) \in Messages
      BY <1>5, MessagesType DEF SetupInv, TypeOK, Peers
    <3> QED
      BY <2>1, <3>1, Extended
  <2> QED
    BY <1>1, <1>5, <2>1, <2>2, SocketAnswered
<1>9. \A j \in Ids("local") : Socket(j) \in Msgs("remote")' => j > i
  BY <1>1, <1>7, HandledSocket
<1>10. e \in End /\ e[1] = "remote" /\ e[2] = id
       /\ \A r \in Ids("remote") : Re(r) = e <=> r = id
       /\ \A j \in Ids("local") : Lo(j) # e
  BY <1>5, Ends DEF Re, Lo
<1>11. \A f \in End : entry'[f] = IF f = e /\ ok THEN new ELSE entry[f]
  BY <1>1 DEF SetupInv, TypeOK, new
<1>12. \A j \in Ids("local") : entry'[Lo(j)] = entry[Lo(j)] /\ Up(Lo(j))' = Up(Lo(j))
  BY <1>10, <1>11, Ends DEF Up
<1>13. ~Up(e) /\ entry[e].phase = "new"
  BY <1>5, <1>10 DEF SetupInv, IdsInOrder, Up
<1>14. /\ nextId' \in [Peers -> Nat] /\ nextId'["local"] = nextId["local"]
       /\ nextId'["remote"] = IF ok THEN id + 1 ELSE id
  BY <1>1, <1>5 DEF SetupInv, TypeOK, Peers
<1>15. TypeOK'
  <2>1. entry' \in [End -> Entry]
    BY <1>1, <1>2, <1>10 DEF SetupInv, TypeOK, new
  <2> QED
    BY <1>1, <1>7, <1>14, <2>1 DEF SetupInv, TypeOK, data
<1>16. IdsInOrder'
  <2>1. /\ \A p \in Peers : nextId'[p] \in FirstId[p] .. FirstId[p] + MaxConn
        /\ nextId'["remote"] - FirstId["remote"] <= nextId'["local"] - FirstId["local"]
    <3>1. /\ \A p \in Peers : nextId[p] \in FirstId[p] .. FirstId[p] + MaxConn
          /\ nextId["remote"] - FirstId["remote"] <= nextId["local"] - FirstId["local"]
          /\ nextId["local"] \in Nat
      BY DEF SetupInv, IdsInOrder, TypeOK, Peers
    <3>2. id + 1 - FirstId["remote"] <= nextId["local"] - FirstId["local"]
      BY <1>4, <1>5, <3>1, IdsType DEF Peers
    <3>3. id + 1 \in FirstId["remote"] .. FirstId["remote"] + MaxConn
      BY <1>5, <3>1, IdsType, ParametersAssumption DEF Peers
    <3>4. CASE ok
      <4>1. nextId'["remote"] = id + 1
        BY <1>14, <3>4
      <4>2. nextId'["local"] = nextId["local"]
        BY <1>14
      <4> QED
        BY <1>5, <3>1, <3>2, <3>3, <4>1, <4>2, IdsType DEF Peers
    <3>5. CASE ~ok
      <4>1. nextId'["remote"] = nextId["remote"]
        BY <1>14, <3>5
      <4> QED
        BY <1>14, <3>1, <4>1 DEF Peers
    <3> QED
      BY <3>4, <3>5
  <2>2. ASSUME NEW f \in End PROVE entry'[f].phase = "new" <=> f[2] >= nextId'[f[1]]
    <3>1. f[1] \in Peers /\ f[2] \in Nat /\ f = <<f[1], f[2]>>
      BY Ends, IdsType
    <3>2. CASE f = e
      BY <1>2, <1>5, <1>10, <1>11, <1>13, <1>14, <3>2
    <3>3. CASE f # e
      <4>1. entry[f].phase = "new" <=> f[2] >= nextId[f[1]]
        BY DEF SetupInv, IdsInOrder
      <4>2. f[1] = "local" \/ (f[1] = "remote" /\ f[2] # id)
        BY <3>1, <3>3 DEF Peers, Re
      <4> QED
        BY <1>5, <1>11, <1>14, <3>1, <3>3, <4>1, <4>2
    <3> QED
      BY <3>2, <3>3
  <2> QED
    BY <2>1, <2>2 DEF IdsInOrder
<1>17. NothingLeft'
  BY <1>2, <1>11 DEF SetupInv, NothingLeft, Up
<1>18. BuffersOK'
  <2>1. \A f \in End : entry'[f].wq = entry[f].wq \/ entry'[f].wq = <<>>
    BY <1>2, <1>11
  <2>2. \A p \in Peers : \A m \in Msgs(p)' : m \in Msgs(p) \/ m.type # "DATA"
    <3>1. SocketDone(i, rid).type # "DATA"
      BY DEF SocketDone
    <3> HIDE DEF rid
    <3> QED
      BY <1>7, <3>1 DEF Peers
  <2> QED
    BY <2>1, <2>2, BuffersKept DEF SetupInv
<1>19. \A r \in Ids("remote") :
        IF r = id /\ ok THEN entry'[Re(r)] = new /\ Up(Re(r))'
        ELSE entry'[Re(r)] = entry[Re(r)] /\ Up(Re(r))' = Up(Re(r))
  BY <1>2, <1>10, <1>11, Ends DEF Up
<1>20. \A j \in Ids("local"), r \in Ids("remote") :
        Pair(j, r)' => Pair(j, r) \/ (j = i /\ r = id /\ ok)
  <2> SUFFICES ASSUME NEW j \in Ids("local"), NEW r \in Ids("remote"), Pair(j, r)'
               PROVE  Pair(j, r) \/ (j = i /\ r = id /\ ok)
    OBVIOUS
  <2>1. CASE <<j, r>> \in links'
    BY <1>1, <2>1 DEF Pair
  <2>2. CASE Up(Re(r))' /\ entry'[Re(r)].rid = j
    BY <1>2, <1>19, <2>2 DEF Pair
  <2>3. CASE SocketDone(j, r) \in Msgs("local")'
    <3>1. SocketDone(j, r) \in Msgs("local") \/ SocketDone(j, r) = SocketDone(i, rid)
      BY <1>7, <2>3
    <3>2. SocketDone(j, r) = SocketDone(i, rid) => j = i /\ r = rid
      BY DEF SocketDone
    <3>3. r # 0
      BY IdsType DEF Peers
    <3> QED
      BY <3>1, <3>2, <3>3 DEF Pair
  <2> QED
    BY <2>1, <2>2, <2>3 DEF Pair
<1>21. PairsMatch'
  <2>1. ASSUME NEW j \in Ids("local"), NEW r \in Ids("remote"), Pair(j, r)'
        PROVE  j < nextId'["local"] /\ r < nextId'["remote"]
    <3>1. r \in Nat
      BY IdsType DEF Peers
    <3>2. CASE Pair(j, r)
      BY <1>5, <1>14, <3>1, <3>2 DEF SetupInv, PairsMatch
    <3>3. CASE j = i /\ r = id /\ ok
      BY <1>4, <1>5, <1>14, <3>3
    <3> QED
      BY <1>20, <2>1, <3>2, <3>3
  <2>2. \A j \in Ids("local") : ~Pair(j, id)
    BY <1>5 DEF SetupInv, PairsMatch
  <2>3. \A j, k \in Ids("local"), r, s \in Ids("remote") :
            Pair(j, r)' /\ Pair(k, s)' => (j = k <=> r = s)
    BY <1>4, <1>20, <2>2 DEF SetupInv, PairsMatch
  <2> QED
    BY <2>1, <2>3 DEF PairsMatch
<1>22. \A j \in Ids("local") : <<j, id>> \notin links
  BY <1>5 DEF SetupInv, PairsMatch, Pair
<1>23. LocalOK'
  BY <1>1, <1>12, <1>19, <1>22 DEF SetupInv, LocalOK, LocalEntryOK
<1>24. RemoteOK'
  BY <1>1, <1>2, <1>19 DEF SetupInv, RemoteOK
<1>25. SocketOK'
  <2> SUFFICES ASSUME NEW j \in Ids("local"), Socket(j) \in Msgs("remote")'
               PROVE  /\ j < nextId'["local"]
                      /\ j - FirstId["local"] >= nextId'["remote"] - FirstId["remote"]
                      /\ \A r \in Ids("remote") : ~Pair(j, r)'
                      /\ \A r \in Ids("remote") \cup {0} : SocketDone(j, r) \notin Msgs("local")'
                      /\ Up(Lo(j))' => entry'[Lo(j)].pending = "SOCKET"
    BY DEF SocketOK
  <2>1. /\ Socket(j) \in Msgs("remote") /\ j > i /\ j \in Nat
        /\ FirstId["local"] \in Nat /\ FirstId["remote"] \in Nat
    BY <1>7, <1>9, IdsType DEF Peers
  <2>2. /\ j < nextId["local"]
        /\ j - FirstId["local"] >= nextId["remote"] - FirstId["remote"]
        /\ \A r \in Ids("remote") : ~Pair(j, r)
        /\ \A r \in Ids("remote") \cup {0} : SocketDone(j, r) \notin Msgs("local")
        /\ Up(Lo(j)) => entry[Lo(j)].pending = "SOCKET"
    BY <2>1 DEF SetupInv, SocketOK
  <2>3. j - FirstId["local"] >= id + 1 - FirstId["remote"]
    BY <1>4, <1>5, <2>1
  <2>4. j # i
    BY <1>5, <2>1
  <2>5. \A r \in Ids("remote") \cup {0} : SocketDone(j, r) # SocketDone(i, rid)
    BY <2>4 DEF SocketDone
  <2>6. j - FirstId["local"] >= nextId'["remote"] - FirstId["remote"]
    <3>1. CASE ok
      <4>1. nextId'["remote"] = id + 1
        BY <1>14, <3>1
      <4> QED
        BY <1>5, <2>1, <2>3, <4>1
    <3>2. CASE ~ok
      <4>1. nextId'["remote"] = nextId["remote"]
        BY <1>14, <3>2
      <4> QED
        BY <1>5, <2>1, <2>2, <4>1
    <3> QED
      BY <3>1, <3>2
  <2>7. /\ j < nextId'["local"]
        /\ \A r \in Ids("remote") : ~Pair(j, r)'
        /\ Up(Lo(j))' => entry'[Lo(j)].pending = "SOCKET"
    BY <1>12, <1>14, <1>20, <2>2, <2>4
  <2>8. \A r \in Ids("remote") \cup {0} : SocketDone(j, r) \notin Msgs("local")'
    <3> HIDE DEF rid
    <3> QED
      BY <1>7, <2>2, <2>5
  <2> QED
    BY <2>6, <2>7, <2>8
<1>26. SocketDoneOK'
  <2> SUFFICES ASSUME NEW j \in Ids("local"), NEW r \in Ids("remote") \cup {0},
                      SocketDone(j, r) \in Msgs("local")'
               PROVE  j < nextId'["local"] /\ (Up(Lo(j))' => entry'[Lo(j)].pending = "SOCKET")
    BY DEF SocketDoneOK
  <2>1. SocketDone(j, r) \in Msgs("local") \/ j = i
    BY <1>7 DEF SocketDone
  <2> QED
    BY <1>4, <1>12, <1>14, <2>1 DEF SetupInv, SocketDoneOK
<1>27. ConnectOK'
  BY <1>1, <1>7, <1>19, <1>22 DEF SetupInv, ConnectOK, ConnectDone, SocketDone
<1>28. DataOK'
  <2>1. ASSUME NEW r \in Ids("remote"), NEW lo \in 1 .. MaxBytes, NEW hi \in 1 .. MaxBytes,
               Data(r, lo, hi) \in Msgs("remote")'
        PROVE  /\ Up(Re(r))' => entry'[Re(r)].io
               /\ \E j \in Ids("local") : <<j, r>> \in links'
    BY <1>1, <1>7, <1>19, <1>22, <2>1 DEF SetupInv, DataOK
  <2>2. ASSUME NEW j \in Ids("local"), NEW lo \in 1 .. MaxBytes, NEW hi \in 1 .. MaxBytes,
               Data(j, lo, hi) \in Msgs("local")'
        PROVE  \E r \in Ids("remote") : <<j, r>> \in links'
    <3>1. Data(j, lo, hi) # SocketDone(i, rid)
      BY DEF Data, SocketDone
    <3> QED
      BY <1>1, <1>7, <2>2, <3>1 DEF SetupInv, DataOK
  <2> QED
    BY <2>1, <2>2 DEF DataOK
<1> QED
  BY <1>8, <1>15, <1>16, <1>17, <1>18, <1>21, <1>23, <1>24, <1>25, <1>26, <1>27, <1>28 DEF SetupInv

LEMMA SocketCreatedStep ==
    ASSUME SetupInv, SocketCreated
    PROVE  SetupInv'
<1>1. PICK i \in Ids("local"), rid \in Ids("remote") \cup {0} :
        /\ Receive("local", SocketDone(i, rid))
        /\ \/ ~Up(Lo(i)) /\ Handled("local", <<>>) /\ UNCHANGED <<entry, links, cause>>
           \/ /\ Up(Lo(i)) /\ rid # 0
              /\ entry' = [entry EXCEPT ![Lo(i)].rid = rid, ![Lo(i)].pending = "CONNECT"]
              /\ links' = links \cup {<<i, rid>>}
              /\ Handled("local", <<Connect(rid, i)>>)
              /\ UNCHANGED cause
           \/ Up(Lo(i)) /\ rid = 0 /\ Dispose(Lo(i), "error") /\ Handled("local", <<>>) /\ UNCHANGED links
        /\ UNCHANGED <<listener, nextId, data>>
  BY DEF SocketCreated, Lo
<1> DEFINE e == Lo(i)
<1>2. e \in End /\ "local" \in Peers /\ Other("local") = "remote"
  BY Ends DEF Peers, Other
<1>3. SocketDone(i, rid) \in Msgs("local")
  BY <1>1, <1>2 DEF Receive, Msgs, SetupInv, TypeOK
<1>4. CASE ~Up(e) /\ Handled("local", <<>>) /\ UNCHANGED <<entry, links, cause>>
  BY <1>1, <1>2, <1>4, Swallowed, QuietStep DEF SetupInv, TypeOK
<1>5. CASE Up(e) /\ rid = 0 /\ Dispose(e, "error") /\ Handled("local", <<>>) /\ UNCHANGED links
  BY <1>1, <1>2, <1>5, Swallowed, DisposedStep
<1>6. CASE /\ Up(e) /\ rid # 0
           /\ entry' = [entry EXCEPT ![e].rid = rid, ![e].pending = "CONNECT"]
           /\ links' = links \cup {<<i, rid>>}
           /\ Handled("local", <<Connect(rid, i)>>)
           /\ UNCHANGED cause
  <2> DEFINE new == [entry[e] EXCEPT !.rid = rid, !.pending = "CONNECT"]
  <2>1. rid \in Ids("remote") /\ rid \in Nat
    BY <1>6, IdsType DEF Peers
  <2>2. /\ new \in Entry /\ new.phase = entry[e].phase /\ new.io = entry[e].io /\ new.wq = entry[e].wq
        /\ new.reading = entry[e].reading /\ new.rid = rid /\ new.pending = "CONNECT"
    <3>1. entry[e] \in Entry
      BY <1>2 DEF SetupInv, TypeOK
    <3> HIDE DEF e
    <3> QED
      BY <2>1, <3>1 DEF Entry
  <2>3. entry' \in [End -> Entry] /\ \A f \in End : entry'[f] = IF f = e THEN new ELSE entry[f]
    <3>1. entry \in [End -> Entry] /\ entry' = [entry EXCEPT ![e] = new]
      BY <1>2, <1>6 DEF SetupInv, TypeOK
    <3> HIDE DEF new, e
    <3> QED
      BY <1>2, <2>2, <3>1
  <2> HIDE DEF new
  <2>4. /\ i < nextId["local"] /\ entry[e].pending = "SOCKET"
        /\ Pair(i, rid) /\ rid < nextId["remote"]
    BY <1>3, <1>6, <2>1 DEF SetupInv, SocketDoneOK, PairsMatch, Pair
  <2>5. entry[e].io /\ ~entry[e].reading
    BY <1>6, <2>4 DEF SetupInv, LocalOK, LocalEntryOK
  <2>6. /\ chan' \in [Peers -> Seq(Messages)] /\ chan'["local"] = Tail(chan["local"])
        /\ Msgs("local")' \subseteq Msgs("local")
        /\ Msgs("remote")' = Msgs("remote") \cup {Connect(rid, i)}
        /\ SocketsInOrder'
    <3>1. Connect(rid, i) \in Messages /\ Plain(Connect(rid, i))
      BY <2>1, MessagesType DEF Plain, Connect
    <3> QED
      BY <1>1, <1>2, <1>6, <3>1, Answered
  <2>7. \A r \in Ids("remote") \cup {0} : SocketDone(i, r) \notin Msgs("local")'
    BY <1>1, <2>6, HandledSocketDone
  <2>8. \A r \in Ids("remote") : entry'[Re(r)] = entry[Re(r)] /\ Up(Re(r))' = Up(Re(r))
    BY <2>3, Ends DEF Re, Lo, Up
  <2>9. \A j \in Ids("local") :
            /\ Up(Lo(j))' = Up(Lo(j))
            /\ IF j = i THEN entry'[Lo(j)] = new ELSE entry'[Lo(j)] = entry[Lo(j)]
    BY <2>2, <2>3, Ends DEF Lo, Up
  <2>10. TypeOK'
    BY <1>1, <1>6, <2>1, <2>3, <2>6 DEF SetupInv, TypeOK, data
  <2>11. IdsInOrder'
    BY <1>1, <2>2, <2>3 DEF SetupInv, IdsInOrder
  <2>12. NothingLeft'
    BY <1>6, <2>2, <2>3 DEF SetupInv, NothingLeft, Up
  <2>13. BuffersOK'
    <3>1. \A f \in End : entry'[f].wq = entry[f].wq \/ entry'[f].wq = <<>>
      BY <2>2, <2>3
    <3>2. \A p \in Peers : \A m \in Msgs(p)' : m \in Msgs(p) \/ m.type # "DATA"
      BY <2>6 DEF Peers, Connect
    <3> QED
      BY <3>1, <3>2, BuffersKept DEF SetupInv
  <2>14. \A j \in Ids("local"), r \in Ids("remote") : Pair(j, r)' => Pair(j, r)
    BY <1>6, <2>4, <2>6, <2>8 DEF Pair
  <2>15. PairsMatch'
    BY <1>1, <2>14 DEF SetupInv, PairsMatch
  <2>16. LocalOK'
    <3> SUFFICES ASSUME NEW j \in Ids("local"), Up(Lo(j))'
                 PROVE  LocalEntryOK(j)'
      BY DEF LocalOK
    <3>1. links' = links \cup {<<i, rid>>}
      BY <1>6
    <3>2. CASE j = i
      <4>1. /\ entry'[Lo(j)].io /\ entry'[Lo(j)].pending = "CONNECT" /\ entry'[Lo(j)].rid = rid
            /\ ~entry'[Lo(j)].reading
        BY <2>2, <2>5, <2>9, <3>2
      <4> QED
        BY <3>1, <3>2, <4>1 DEF LocalEntryOK
    <3>3. CASE j # i
      <4>1. Up(Lo(j)) /\ entry'[Lo(j)] = entry[Lo(j)] /\ LocalEntryOK(j)
        BY <2>9, <3>3 DEF SetupInv, LocalOK
      <4>2. \A r \in Ids("remote") : <<j, r>> \in links' <=> <<j, r>> \in links
        BY <3>1, <3>3
      <4>3. entry[Lo(j)].pending # "SOCKET" => <<j, entry[Lo(j)].rid>> \in links'
        BY <3>1, <4>1 DEF LocalEntryOK
      <4> QED
        BY <2>8, <4>1, <4>2, <4>3 DEF LocalEntryOK
    <3> QED
      BY <3>2, <3>3
  <2>17. RemoteOK'
    <3>1. links \subseteq links'
      BY <1>6
    <3> QED
      BY <2>8, <3>1 DEF SetupInv, RemoteOK
  <2>18. SocketOK'
    <3> SUFFICES ASSUME NEW j \in Ids("local"), Socket(j) \in Msgs("remote")'
                 PROVE  /\ j < nextId'["local"]
                        /\ j - FirstId["local"] >= nextId'["remote"] - FirstId["remote"]
                        /\ \A r \in Ids("remote") : ~Pair(j, r)'
                        /\ \A r \in Ids("remote") \cup {0} : SocketDone(j, r) \notin Msgs("local")'
                        /\ Up(Lo(j))' => entry'[Lo(j)].pending = "SOCKET"
      BY DEF SocketOK
    <3>1. Socket(j) \in Msgs("remote")
      BY <2>6 DEF Socket, Connect
    <3>2. j # i
      BY <1>3, <3>1 DEF SetupInv, SocketOK
    <3> QED
      BY <1>1, <2>6, <2>9, <2>14, <3>1, <3>2 DEF SetupInv, SocketOK
  <2>19. SocketDoneOK'
    BY <1>1, <2>6, <2>7, <2>9 DEF SetupInv, SocketDoneOK
  <2>20. ConnectOK'
    <3>1. \A j \in Ids("local"), r \in Ids("remote") :
            Connect(r, j) \in Msgs("remote")' => <<j, r>> \in links'
      BY <1>6, <2>6 DEF SetupInv, ConnectOK, Connect
    <3>2. \A j \in Ids("local"), ok \in BOOLEAN :
            ConnectDone(j, ok) \in Msgs("local")' =>
                \E r \in Ids("remote") :
                    <<j, r>> \in links' /\ (ok /\ Up(Re(r))' => entry'[Re(r)].io)
      BY <1>6, <2>6, <2>8 DEF SetupInv, ConnectOK
    <3> QED
      BY <3>1, <3>2 DEF ConnectOK
  <2>21. DataOK'
    BY <1>6, <2>6, <2>8 DEF SetupInv, DataOK, Data, Connect
  <2> QED
    BY <2>6, <2>10, <2>11, <2>12, <2>13, <2>15, <2>16, <2>17, <2>18, <2>19, <2>20, <2>21
       DEF SetupInv
<1> QED
  BY <1>1, <1>4, <1>5, <1>6

LEMMA HandleConnectStep ==
    ASSUME SetupInv, HandleConnect
    PROVE  SetupInv'
<1>1. PICK i \in Ids("remote"), from \in Ids("local") :
        /\ Receive("remote", Connect(i, from))
        /\ \/ /\ Up(Re(i)) /\ entry' = [entry EXCEPT ![Re(i)].pending = "connect"]
              /\ Handled("remote", <<>>)
           \/ ~Up(Re(i)) /\ Handled("remote", <<ConnectDone(from, FALSE)>>) /\ UNCHANGED entry
        /\ UNCHANGED <<listener, nextId, data, links, cause>>
  BY DEF HandleConnect, Re
<1> DEFINE e == Re(i)
<1>2. e \in End /\ "remote" \in Peers /\ Other("remote") = "local"
  BY Ends DEF Peers, Other
<1>3. Connect(i, from) \in Msgs("remote")
  BY <1>1, <1>2 DEF Receive, Msgs, SetupInv, TypeOK
<1>4. <<from, i>> \in links
  BY <1>3 DEF SetupInv, ConnectOK
<1>5. links' = links /\ nextId' = nextId
  BY <1>1
<1>6. CASE Up(e) /\ entry' = [entry EXCEPT ![e].pending = "connect"] /\ Handled("remote", <<>>)
  <2> DEFINE new == [entry[e] EXCEPT !.pending = "connect"]
  <2>1. /\ new \in Entry /\ new.phase = entry[e].phase /\ new.io = entry[e].io /\ new.wq = entry[e].wq
        /\ new.reading = entry[e].reading /\ new.rid = entry[e].rid /\ new.pending = "connect"
    <3>1. entry[e] \in Entry
      BY <1>2 DEF SetupInv, TypeOK
    <3> HIDE DEF e
    <3> QED
      BY <3>1 DEF Entry
  <2>2. entry' \in [End -> Entry] /\ \A f \in End : entry'[f] = IF f = e THEN new ELSE entry[f]
    <3>1. entry \in [End -> Entry] /\ entry' = [entry EXCEPT ![e] = new]
      BY <1>2, <1>6 DEF SetupInv, TypeOK
    <3> HIDE DEF new, e
    <3> QED
      BY <1>2, <2>1, <3>1
  <2> HIDE DEF new
  <2>3. /\ chan' \in [Peers -> Seq(Messages)] /\ SocketsInOrder'
        /\ \A q \in Peers : Msgs(q)' \subseteq Msgs(q)
    BY <1>1, <1>2, <1>6, Swallowed
  <2>4. Msgs("local")' \subseteq Msgs("local") /\ Msgs("remote")' \subseteq Msgs("remote")
    BY <2>3 DEF Peers
  <2>5. \A j \in Ids("local") : entry'[Lo(j)] = entry[Lo(j)] /\ Up(Lo(j))' = Up(Lo(j))
    BY <2>2, Ends DEF Re, Lo, Up
  <2>6. \A r \in Ids("remote") :
            /\ Up(Re(r))' = Up(Re(r)) /\ entry'[Re(r)].rid = entry[Re(r)].rid
            /\ entry'[Re(r)].io = entry[Re(r)].io /\ entry'[Re(r)].reading = entry[Re(r)].reading
            /\ entry'[Re(r)].pending = IF r = i THEN "connect" ELSE entry[Re(r)].pending
    BY <2>1, <2>2, Ends DEF Re, Up
  <2>7. <<entry[e].rid, i>> \in links
    <3>1. entry[e].rid \in Ids("local")
      BY <1>6 DEF SetupInv, RemoteOK
    <3>2. Pair(entry[e].rid, i) /\ Pair(from, i)
      BY <1>4, <1>6, <3>1 DEF Pair
    <3> QED
      BY <1>4, <3>1, <3>2 DEF SetupInv, PairsMatch
  <2>8. TypeOK'
    BY <1>1, <2>2, <2>3 DEF SetupInv, TypeOK, data
  <2>9. IdsInOrder'
    BY <1>5, <2>1, <2>2 DEF SetupInv, IdsInOrder
  <2>10. NothingLeft'
    BY <1>6, <2>1, <2>2 DEF SetupInv, NothingLeft, Up
  <2>11. BuffersOK'
    <3>1. \A f \in End : entry'[f].wq = entry[f].wq \/ entry'[f].wq = <<>>
      BY <2>1, <2>2
    <3> QED
      BY <2>3, <3>1, BuffersKept DEF SetupInv
  <2>12. \A j \in Ids("local"), r \in Ids("remote") : Pair(j, r)' => Pair(j, r)
    BY <1>5, <2>4, <2>6 DEF Pair
  <2>13. PairsMatch'
    BY <1>5, <2>12 DEF SetupInv, PairsMatch
  <2>14. LocalOK'
    BY <1>5, <2>5, <2>6 DEF SetupInv, LocalOK, LocalEntryOK
  <2>15. RemoteOK'
    BY <1>5, <2>6, <2>7 DEF SetupInv, RemoteOK
  <2>16. SocketOK'
    BY <1>5, <2>4, <2>5, <2>12 DEF SetupInv, SocketOK
  <2>17. SocketDoneOK'
    BY <1>5, <2>4, <2>5 DEF SetupInv, SocketDoneOK
  <2>18. ConnectOK'
    BY <1>5, <2>4, <2>6 DEF SetupInv, ConnectOK
  <2>19. DataOK'
    BY <1>5, <2>4, <2>6 DEF SetupInv, DataOK
  <2> QED
    BY <2>3, <2>8, <2>9, <2>10, <2>11, <2>13, <2>14, <2>15, <2>16, <2>17, <2>18, <2>19 DEF SetupInv
<1>7. CASE ~Up(e) /\ Handled("remote", <<ConnectDone(from, FALSE)>>) /\ UNCHANGED entry
  <2>1. /\ chan' \in [Peers -> Seq(Messages)]
        /\ Msgs("remote")' \subseteq Msgs("remote")
        /\ Msgs("local")' = Msgs("local") \cup {ConnectDone(from, FALSE)}
        /\ SocketsInOrder'
    <3>1. ConnectDone(from, FALSE) \in Messages /\ Plain(ConnectDone(from, FALSE))
      BY MessagesType DEF Plain, ConnectDone
    <3> QED
      BY <1>1, <1>2, <1>7, <3>1, Answered
  <2>2. entry' = entry
    BY <1>7
  <2>3. TypeOK'
    BY <1>1, <2>1, <2>2 DEF SetupInv, TypeOK, data
  <2>4. IdsInOrder' /\ NothingLeft'
    BY <1>5, <2>2 DEF SetupInv, IdsInOrder, NothingLeft, Up
  <2>5. BuffersOK'
    <3>1. \A p \in Peers : \A m \in Msgs(p)' : m \in Msgs(p) \/ m.type # "DATA"
      BY <2>1 DEF Peers, ConnectDone
    <3> QED
      BY <2>2, <3>1, BuffersKept DEF SetupInv
  <2>6. \A j \in Ids("local"), r \in Ids("remote") \cup {0} :
            SocketDone(j, r) \in Msgs("local")' => SocketDone(j, r) \in Msgs("local")
    BY <2>1 DEF SocketDone, ConnectDone
  <2>7. \A j \in Ids("local"), r \in Ids("remote") : Pair(j, r)' => Pair(j, r)
    BY <1>5, <2>2, <2>6 DEF Pair, Up
  <2>8. PairsMatch'
    BY <1>5, <2>7 DEF SetupInv, PairsMatch
  <2>9. LocalOK' /\ RemoteOK'
    BY <1>5, <2>2 DEF SetupInv, LocalOK, LocalEntryOK, RemoteOK, Up
  <2>10. SocketOK'
    BY <1>5, <2>1, <2>2, <2>6, <2>7 DEF SetupInv, SocketOK, Up
  <2>11. SocketDoneOK'
    BY <1>5, <2>2, <2>6 DEF SetupInv, SocketDoneOK, Up
  <2>12. ConnectOK'
    <3>1. \A j \in Ids("local"), r \in Ids("remote") :
            Connect(r, j) \in Msgs("remote")' => <<j, r>> \in links'
      BY <1>5, <2>1 DEF SetupInv, ConnectOK
    <3>2. ASSUME NEW j \in Ids("local"), NEW ok \in BOOLEAN, ConnectDone(j, ok) \in Msgs("local")'
          PROVE  \E r \in Ids("remote") :
                    <<j, r>> \in links' /\ (ok /\ Up(Re(r))' => entry'[Re(r)].io)
      <4>1. CASE ConnectDone(j, ok) \in Msgs("local")
        BY <1>5, <2>2, <4>1 DEF SetupInv, ConnectOK, Up
      <4>2. CASE ConnectDone(j, ok) = ConnectDone(from, FALSE)
        <5>1. j = from /\ ok = FALSE
          BY <4>2 DEF ConnectDone
        <5> QED
          BY <1>4, <1>5, <5>1
      <4> QED
        BY <2>1, <3>2, <4>1, <4>2
    <3> QED
      BY <3>1, <3>2 DEF ConnectOK
  <2>13. DataOK'
    BY <1>5, <2>1, <2>2 DEF SetupInv, DataOK, Data, ConnectDone, Up
  <2> QED
    BY <2>1, <2>3, <2>4, <2>5, <2>8, <2>9, <2>10, <2>11, <2>12, <2>13 DEF SetupInv
<1> QED
  BY <1>1, <1>6, <1>7

LEMMA ConnectLocalDoneStep ==
    ASSUME SetupInv, NEW e \in End, NEW ok \in BOOLEAN, ConnectLocalDone(e, ok)
    PROVE  SetupInv'
<1>1. /\ Up(e) /\ entry[e].pending = "connect"
      /\ entry' = [entry EXCEPT ![e].pending = "none", ![e].io = @ \/ ok, ![e].reading = @ \/ ok]
      /\ Send(e[1], <<ConnectDone(entry[e].rid, ok)>>)
  BY DEF ConnectLocalDone
<1>2. links' = links /\ nextId' = nextId /\ UNCHANGED <<listener, data, cause>>
  BY DEF ConnectLocalDone
<1>3. PICK i \in Ids("remote") : e = Re(i)
  <2>1. CASE e[1] = "local"
    <3>1. PICK j \in Ids("local") : e = Lo(j)
      BY <2>1, Ends DEF Lo
    <3> QED
      BY <1>1, <3>1 DEF SetupInv, LocalOK, LocalEntryOK
  <2>2. CASE e[1] = "remote"
    BY <2>2, Ends DEF Re
  <2> QED
    BY <2>1, <2>2, Ends DEF Peers
<1> DEFINE from == entry[e].rid
           new == [entry[e] EXCEPT !.pending = "none", !.io = @ \/ ok, !.reading = @ \/ ok]
<1>4. from \in Ids("local") /\ <<from, i>> \in links /\ (entry[e].reading => entry[e].io)
  BY <1>1, <1>3 DEF SetupInv, RemoteOK
<1>5. /\ new \in Entry /\ new.phase = entry[e].phase /\ new.io = (entry[e].io \/ ok)
      /\ new.wq = entry[e].wq /\ new.reading = (entry[e].reading \/ ok)
      /\ new.rid = entry[e].rid /\ new.pending = "none"
  <2>1. entry[e] \in Entry
    BY DEF SetupInv, TypeOK
  <2>2. (entry[e].io \/ ok) \in BOOLEAN /\ (entry[e].reading \/ ok) \in BOOLEAN
    BY <2>1
  <2> QED
    BY <2>1, <2>2 DEF Entry
<1>6. entry' \in [End -> Entry] /\ \A f \in End : entry'[f] = IF f = e THEN new ELSE entry[f]
  <2>1. entry \in [End -> Entry] /\ entry' = [entry EXCEPT ![e] = new]
    BY <1>1 DEF SetupInv, TypeOK
  <2> HIDE DEF new
  <2> QED
    BY <1>5, <2>1
<1> HIDE DEF new
<1>7. /\ chan' \in [Peers -> Seq(Messages)] /\ SocketsInOrder'
      /\ Msgs("remote")' = Msgs("remote")
      /\ Msgs("local")' = Msgs("local") \cup {ConnectDone(from, ok)}
  <2>1. ConnectDone(from, ok) \in Messages /\ Plain(ConnectDone(from, ok))
    BY <1>4, MessagesType DEF Plain, ConnectDone
  <2>2. <<ConnectDone(from, ok)>> \in Seq(Messages) /\ Of(<<ConnectDone(from, ok)>>) = {ConnectDone(from, ok)}
    BY <2>1, One
  <2>3. e[1] = "remote" /\ "remote" \in Peers /\ Other("remote") = "local"
    BY <1>3 DEF Re, Other, Peers
  <2>4. Send("remote", <<ConnectDone(from, ok)>>) /\ TypeOK /\ SocketsInOrder
    BY <1>1, <2>3 DEF SetupInv
  <2>5. chan \in [Peers -> Seq(Messages)]
    BY DEF SetupInv, TypeOK
  <2>6. SocketsInOrder'
    BY <2>1, <2>2, <2>3, <2>4, OrderSent, Zenon
  <2> QED
    BY <2>2, <2>3, <2>4, <2>5, <2>6, SendStep, Zenon
<1>8. \A j \in Ids("local") : entry'[Lo(j)] = entry[Lo(j)] /\ Up(Lo(j))' = Up(Lo(j))
  BY <1>3, <1>6, Ends DEF Re, Lo, Up
<1>9. \A r \in Ids("remote") :
        IF r = i THEN entry'[Re(r)] = new ELSE entry'[Re(r)] = entry[Re(r)]
  BY <1>3, <1>6, Ends DEF Re
<1>10. \A r \in Ids("remote") :
        /\ Up(Re(r))' = Up(Re(r)) /\ entry'[Re(r)].rid = entry[Re(r)].rid
        /\ entry[Re(r)].io => entry'[Re(r)].io
  BY <1>3, <1>5, <1>9 DEF Up
<1>11. TypeOK'
  BY <1>2, <1>6, <1>7 DEF SetupInv, TypeOK, data
<1>12. IdsInOrder'
  BY <1>2, <1>5, <1>6 DEF SetupInv, IdsInOrder
<1>13. NothingLeft'
  BY <1>1, <1>5, <1>6 DEF SetupInv, NothingLeft, Up
<1>14. BuffersOK'
  <2>1. \A f \in End : entry'[f].wq = entry[f].wq \/ entry'[f].wq = <<>>
    BY <1>5, <1>6
  <2>2. \A p \in Peers : \A m \in Msgs(p)' : m \in Msgs(p) \/ m.type # "DATA"
    BY <1>7 DEF Peers, ConnectDone
  <2> QED
    BY <2>1, <2>2, BuffersKept DEF SetupInv
<1>15. \A j \in Ids("local"), r \in Ids("remote") \cup {0} :
            SocketDone(j, r) \in Msgs("local")' => SocketDone(j, r) \in Msgs("local")
  BY <1>7 DEF SocketDone, ConnectDone
<1>16. \A j \in Ids("local"), r \in Ids("remote") : Pair(j, r)' => Pair(j, r)
  BY <1>2, <1>10, <1>15 DEF Pair
<1>17. PairsMatch'
  BY <1>2, <1>16 DEF SetupInv, PairsMatch
<1>18. LocalOK'
  BY <1>2, <1>8, <1>10 DEF SetupInv, LocalOK, LocalEntryOK
<1>19. RemoteOK'
  <2> SUFFICES ASSUME NEW r \in Ids("remote"), Up(Re(r))'
               PROVE  /\ entry'[Re(r)].rid \in Ids("local")
                      /\ entry'[Re(r)].pending # "SOCKET"
                      /\ entry'[Re(r)].reading => entry'[Re(r)].io
                      /\ entry'[Re(r)].reading \/ entry'[Re(r)].pending = "connect"
                            => <<entry'[Re(r)].rid, r>> \in links'
    BY DEF RemoteOK
  <2>1. CASE r = i
    BY <1>2, <1>3, <1>4, <1>5, <1>9, <2>1
  <2>2. CASE r # i
    BY <1>2, <1>9, <1>10, <2>2 DEF SetupInv, RemoteOK
  <2> QED
    BY <2>1, <2>2
<1>20. SocketOK'
  BY <1>2, <1>7, <1>8, <1>15, <1>16 DEF SetupInv, SocketOK
<1>21. SocketDoneOK'
  BY <1>2, <1>8, <1>15 DEF SetupInv, SocketDoneOK
<1>22. ConnectOK'
  <2>1. \A j \in Ids("local"), r \in Ids("remote") :
            Connect(r, j) \in Msgs("remote")' => <<j, r>> \in links'
    BY <1>2, <1>7 DEF SetupInv, ConnectOK
  <2>2. ASSUME NEW j \in Ids("local"), NEW x \in BOOLEAN, ConnectDone(j, x) \in Msgs("local")'
        PROVE  \E r \in Ids("remote") :
                    <<j, r>> \in links' /\ (x /\ Up(Re(r))' => entry'[Re(r)].io)
    <3>1. CASE ConnectDone(j, x) \in Msgs("local")
      BY <1>2, <1>10, <3>1 DEF SetupInv, ConnectOK
    <3>2. CASE ConnectDone(j, x) = ConnectDone(from, ok)
      <4>1. j = from /\ x = ok
        BY <3>2 DEF ConnectDone
      <4>2. ok => entry'[Re(i)].io
        BY <1>5, <1>9
      <4> QED
        BY <1>2, <1>4, <4>1, <4>2
    <3> QED
      BY <1>7, <2>2, <3>1, <3>2
  <2> QED
    BY <2>1, <2>2 DEF ConnectOK
<1>23. DataOK'
  <2>1. \A j \in Ids("local"), lo, hi \in 1 .. MaxBytes :
            Data(j, lo, hi) \in Msgs("local")' => Data(j, lo, hi) \in Msgs("local")
    BY <1>7 DEF Data, ConnectDone
  <2> QED
    BY <1>2, <1>7, <1>10, <2>1 DEF SetupInv, DataOK
<1> QED
  BY <1>7, <1>11, <1>12, <1>13, <1>14, <1>17, <1>18, <1>19, <1>20, <1>21, <1>22, <1>23 DEF SetupInv

LEMMA ConnectRemoteDoneStep ==
    ASSUME SetupInv, ConnectRemoteDone
    PROVE  SetupInv'
<1>1. PICK i \in Ids("local"), ok \in BOOLEAN :
        /\ Receive("local", ConnectDone(i, ok))
        /\ \/ ~Up(Lo(i)) /\ Handled("local", <<>>) /\ UNCHANGED <<entry, cause>>
           \/ /\ Up(Lo(i)) /\ ok
              /\ entry' = [entry EXCEPT ![Lo(i)].reading = TRUE, ![Lo(i)].pending = "none"]
              /\ Handled("local", <<>>)
              /\ UNCHANGED cause
           \/ Up(Lo(i)) /\ Dispose(Lo(i), "error") /\ Handled("local", Closing(Lo(i)))
        /\ UNCHANGED <<listener, nextId, data, links>>
  BY DEF ConnectRemoteDone, Lo
<1> DEFINE e == Lo(i)
<1>2. e \in End /\ "local" \in Peers
  BY Ends DEF Peers
<1>3. links' = links /\ nextId' = nextId /\ UNCHANGED <<listener, data>>
  BY <1>1
<1>4. CASE ~Up(e) /\ Handled("local", <<>>) /\ UNCHANGED <<entry, cause>>
  BY <1>1, <1>2, <1>4, Swallowed, QuietStep DEF SetupInv, TypeOK
<1>5. CASE Up(e) /\ Dispose(e, "error") /\ Handled("local", Closing(e))
  BY <1>1, <1>2, <1>5, ClosingEnds, EndingHandled, DisposedStep DEF Ending
<1>6. CASE /\ Up(e) /\ ok
           /\ entry' = [entry EXCEPT ![e].reading = TRUE, ![e].pending = "none"]
           /\ Handled("local", <<>>)
           /\ UNCHANGED cause
  <2> DEFINE new == [entry[e] EXCEPT !.reading = TRUE, !.pending = "none"]
  <2>1. /\ new \in Entry /\ new.phase = entry[e].phase /\ new.io = entry[e].io /\ new.wq = entry[e].wq
        /\ new.reading /\ new.rid = entry[e].rid /\ new.pending = "none"
    <3>1. entry[e] \in Entry
      BY <1>2 DEF SetupInv, TypeOK
    <3> HIDE DEF e
    <3> QED
      BY <3>1 DEF Entry
  <2>2. entry' \in [End -> Entry] /\ \A f \in End : entry'[f] = IF f = e THEN new ELSE entry[f]
    <3>1. entry \in [End -> Entry] /\ entry' = [entry EXCEPT ![e] = new]
      BY <1>2, <1>6 DEF SetupInv, TypeOK
    <3> HIDE DEF new, e
    <3> QED
      BY <1>2, <2>1, <3>1
  <2> HIDE DEF new
  <2>3. /\ chan' \in [Peers -> Seq(Messages)] /\ SocketsInOrder'
        /\ ConnectDone(i, ok) \in Msgs("local")
        /\ \A q \in Peers : Msgs(q)' \subseteq Msgs(q)
    BY <1>1, <1>2, <1>6, Swallowed
  <2>4. Msgs("local")' \subseteq Msgs("local") /\ Msgs("remote")' \subseteq Msgs("remote")
    BY <2>3 DEF Peers
  <2>5. PICK rid \in Ids("remote") : <<i, rid>> \in links /\ (Up(Re(rid)) => entry[Re(rid)].io)
    BY <1>6, <2>3 DEF SetupInv, ConnectOK
  <2>6. /\ entry[e].pending # "SOCKET" /\ entry[e].io
        /\ <<i, entry[e].rid>> \in links
    BY <1>6, <2>5 DEF SetupInv, LocalOK, LocalEntryOK
  <2>7. \A r \in Ids("remote") : <<i, r>> \in links => r = rid
    <3>1. \A r \in Ids("remote") : <<i, r>> \in links => Pair(i, r)
      BY DEF Pair
    <3> QED
      BY <2>5, <3>1 DEF SetupInv, PairsMatch
  <2>8. \A j \in Ids("local") :
            /\ Up(Lo(j))' = Up(Lo(j))
            /\ IF j = i THEN entry'[Lo(j)] = new ELSE entry'[Lo(j)] = entry[Lo(j)]
    BY <2>1, <2>2, Ends DEF Lo, Up
  <2>9. \A r \in Ids("remote") : Up(Re(r))' = Up(Re(r)) /\ entry'[Re(r)] = entry[Re(r)]
    BY <2>2, Ends DEF Re, Lo, Up
  <2>10. TypeOK'
    BY <1>3, <1>6, <2>2, <2>3 DEF SetupInv, TypeOK, data
  <2>11. IdsInOrder'
    BY <1>3, <2>1, <2>2 DEF SetupInv, IdsInOrder
  <2>12. NothingLeft'
    BY <1>6, <2>1, <2>2 DEF SetupInv, NothingLeft, Up
  <2>13. BuffersOK'
    <3>1. \A f \in End : entry'[f].wq = entry[f].wq \/ entry'[f].wq = <<>>
      BY <2>1, <2>2
    <3> QED
      BY <2>3, <3>1, BuffersKept DEF SetupInv
  <2>14. \A j \in Ids("local"), r \in Ids("remote") : Pair(j, r)' => Pair(j, r)
    BY <1>3, <2>4, <2>9 DEF Pair
  <2>15. PairsMatch'
    BY <1>3, <2>14 DEF SetupInv, PairsMatch
  <2>16. LocalOK'
    <3> SUFFICES ASSUME NEW j \in Ids("local"), Up(Lo(j))'
                 PROVE  LocalEntryOK(j)'
      BY DEF LocalOK
    <3>1. CASE j = i
      <4>1. /\ entry'[Lo(j)].io /\ entry'[Lo(j)].pending = "none"
            /\ entry'[Lo(j)].rid = entry[e].rid /\ entry'[Lo(j)].reading
        BY <2>1, <2>6, <2>8, <3>1
      <4>2. \A r \in Ids("remote") : <<i, r>> \in links' /\ Up(Re(r))' => entry'[Re(r)].io
        BY <1>3, <2>5, <2>7, <2>9
      <4> QED
        BY <1>3, <2>6, <3>1, <4>1, <4>2 DEF LocalEntryOK
    <3>2. CASE j # i
      BY <1>3, <2>8, <2>9, <3>2 DEF SetupInv, LocalOK, LocalEntryOK
    <3> QED
      BY <3>1, <3>2
  <2>17. RemoteOK'
    BY <1>3, <2>9 DEF SetupInv, RemoteOK
  <2>18. SocketOK'
    <3>1. \A j \in Ids("local") : Socket(j) \in Msgs("remote")' => Socket(j) \in Msgs("remote") /\ j # i
      BY <2>4, <2>5 DEF SetupInv, SocketOK, Pair
    <3> QED
      BY <1>3, <2>4, <2>8, <2>14, <3>1 DEF SetupInv, SocketOK
  <2>19. SocketDoneOK'
    <3>1. \A j \in Ids("local"), r \in Ids("remote") \cup {0} :
            SocketDone(j, r) \in Msgs("local")' => SocketDone(j, r) \in Msgs("local") /\ j # i
      BY <1>6, <2>4, <2>6 DEF SetupInv, SocketDoneOK
    <3> QED
      BY <1>3, <2>8, <3>1 DEF SetupInv, SocketDoneOK
  <2>20. ConnectOK'
    BY <1>3, <2>4, <2>9 DEF SetupInv, ConnectOK
  <2>21. DataOK'
    BY <1>3, <2>4, <2>9 DEF SetupInv, DataOK
  <2> QED
    BY <2>3, <2>10, <2>11, <2>12, <2>13, <2>15, <2>16, <2>17, <2>18, <2>19, <2>20, <2>21
       DEF SetupInv
<1> QED
  BY <1>1, <1>4, <1>5, <1>6

\* The counterpart of an entry that reads.
LEMMA ReadingEntry ==
    ASSUME SetupInv, NEW e \in End, Up(e), entry[e].reading
    PROVE  /\ entry[e].rid \in Ids(Other(e[1]))
           /\ \/ e[1] = "local" /\ <<e[2], entry[e].rid>> \in links
              \/ e[1] = "remote" /\ <<entry[e].rid, e[2]>> \in links
           /\ \A r \in Ids("remote") :
                e[1] = "local" /\ <<e[2], r>> \in links /\ Up(Re(r)) => entry[Re(r)].io
<1>1. CASE e[1] = "local"
  <2>1. PICK i \in Ids("local") : e = Lo(i) /\ e[2] = i
    BY <1>1, Ends DEF Lo
  <2>2. /\ <<i, entry[e].rid>> \in links
        /\ \A r \in Ids("remote") : <<i, r>> \in links /\ Up(Re(r)) => entry[Re(r)].io
    BY <2>1 DEF SetupInv, LocalOK, LocalEntryOK
  <2> QED
    BY <1>1, <2>1, <2>2 DEF SetupInv, TypeOK, Other
<1>2. CASE e[1] = "remote"
  <2>1. PICK r \in Ids("remote") : e = Re(r) /\ e[2] = r
    BY <1>2, Ends DEF Re
  <2>2. entry[e].rid \in Ids("local") /\ <<entry[e].rid, r>> \in links
    BY <2>1 DEF SetupInv, RemoteOK
  <2> QED
    BY <1>2, <2>1, <2>2 DEF Other
<1> QED
  BY <1>1, <1>2, Ends DEF Peers

LEMMA ReadStep ==
    ASSUME SetupInv, NEW e \in End, NEW n \in 1 .. MaxBytes, Read(e, n)
    PROVE  SetupInv'
<1> DEFINE rid == entry[e].rid
           lo == taken[e] + 1
           hi == taken[e] + n
           p == e[1]
           q == Other(p)
<1>1. /\ Up(e) /\ entry[e].reading /\ taken[e] + n <= MaxBytes
      /\ taken' = [taken EXCEPT ![e] = @ + n]
      /\ Send(p, <<Data(rid, lo, hi)>>)
      /\ UNCHANGED <<listener, entry, nextId, given, links, cause>>
  BY DEF Read
<1>2. p \in Peers /\ q \in Peers /\ Peers = {p, q} /\ p # q
  BY Ends DEF Other, Peers
<1>3. lo \in 1 .. MaxBytes /\ hi \in 1 .. MaxBytes /\ lo <= hi /\ taken \in [End -> 0 .. MaxBytes]
      /\ taken[e] \in 0 .. MaxBytes
  BY <1>1, ParametersAssumption DEF SetupInv, TypeOK
<1>4. Data(rid, lo, hi) \in Messages /\ Plain(Data(rid, lo, hi))
  BY <1>1, <1>2, <1>3, ReadingEntry, MessagesType DEF Plain, Data
<1> DEFINE m == Data(rid, lo, hi)
<1>5. /\ chan' \in [Peers -> Seq(Messages)] /\ SocketsInOrder'
      /\ Msgs(p)' = Msgs(p) /\ Msgs(q)' = Msgs(q) \cup {m}
  <2> HIDE DEF m, p
  <2>1. <<m>> \in Seq(Messages) /\ Of(<<m>>) = {m}
    BY <1>4, One DEF m
  <2>2. Send(p, <<m>>) /\ TypeOK /\ SocketsInOrder /\ chan \in [Peers -> Seq(Messages)]
    BY <1>1 DEF SetupInv, m, TypeOK
  <2>3. Plain(m)
    BY <1>4 DEF m
  <2>4. SocketsInOrder'
    BY <1>2, <2>1, <2>2, <2>3, OrderSent, Zenon
  <2> QED
    BY <1>2, <2>1, <2>2, <2>4, SendStep, Zenon
<1>6. \A x \in Peers : \A y \in Msgs(x)' : y \in Msgs(x) \/ (x = q /\ y = m)
  BY <1>2, <1>5
<1>7. TypeOK'
  <2>1. taken' \in [End -> 0 .. MaxBytes]
    BY <1>1, <1>3
  <2> QED
    BY <1>1, <1>5, <2>1 DEF SetupInv, TypeOK
<1>8. BuffersOK'
  <2>1. m.lo = lo /\ m.hi = hi
    BY DEF Data
  <2>2. \A x \in Peers : \A y \in Msgs(x)' : y.type = "DATA" => y.lo <= y.hi
    <3> HIDE DEF m, lo, hi, p
    <3> QED
      BY <1>3, <1>6, <2>1 DEF SetupInv, BuffersOK
  <2> QED
    BY <1>1, <2>2 DEF SetupInv, BuffersOK
<1>9. /\ \A i \in Ids("local") : Socket(i) \in Msgs("remote")' => Socket(i) \in Msgs("remote")
      /\ \A i \in Ids("local"), r \in Ids("remote") \cup {0} :
            SocketDone(i, r) \in Msgs("local")' => SocketDone(i, r) \in Msgs("local")
      /\ \A i \in Ids("local"), r \in Ids("remote") :
            Connect(r, i) \in Msgs("remote")' => Connect(r, i) \in Msgs("remote")
      /\ \A i \in Ids("local"), ok \in BOOLEAN :
            ConnectDone(i, ok) \in Msgs("local")' => ConnectDone(i, ok) \in Msgs("local")
  BY <1>6 DEF Peers, Socket, SocketDone, Connect, ConnectDone, Data
<1>10. entry' = entry /\ links' = links /\ nextId' = nextId
  BY <1>1
<1>11. IdsInOrder' /\ NothingLeft' /\ LocalOK' /\ RemoteOK'
  BY <1>10 DEF SetupInv, IdsInOrder, NothingLeft, LocalOK, LocalEntryOK, RemoteOK, Up
<1>12. \A i \in Ids("local"), r \in Ids("remote") : Pair(i, r)' => Pair(i, r)
  BY <1>9, <1>10 DEF Pair, Up
<1>13. PairsMatch'
  BY <1>10, <1>12 DEF SetupInv, PairsMatch
<1>14. SocketOK' /\ SocketDoneOK' /\ ConnectOK'
  BY <1>9, <1>10, <1>12 DEF SetupInv, SocketOK, SocketDoneOK, ConnectOK, Up
<1>15. DataOK'
  <2>1. ASSUME NEW r \in Ids("remote"), NEW l \in 1 .. MaxBytes, NEW h \in 1 .. MaxBytes,
               Data(r, l, h) \in Msgs("remote")'
        PROVE  /\ Up(Re(r))' => entry'[Re(r)].io
               /\ \E i \in Ids("local") : <<i, r>> \in links'
    <3>1. CASE Data(r, l, h) \in Msgs("remote")
      BY <1>10, <3>1 DEF SetupInv, DataOK, Up
    <3>2. CASE q = "remote" /\ Data(r, l, h) = m
      <4>1. r = rid
        BY <3>2 DEF Data
      <4>2. p = "local" /\ e[2] \in Ids("local")
        BY <1>2, <3>2, Ends DEF Other, Peers
      <4>3. <<e[2], rid>> \in links /\ (Up(Re(r)) => entry[Re(r)].io)
        BY <1>1, <4>1, <4>2, ReadingEntry
      <4> QED
        BY <1>10, <4>1, <4>2, <4>3 DEF Up
    <3> QED
      BY <1>6, <2>1, <3>1, <3>2 DEF Peers
  <2>2. ASSUME NEW i \in Ids("local"), NEW l \in 1 .. MaxBytes, NEW h \in 1 .. MaxBytes,
               Data(i, l, h) \in Msgs("local")'
        PROVE  \E r \in Ids("remote") : <<i, r>> \in links'
    <3>1. CASE Data(i, l, h) \in Msgs("local")
      BY <1>10, <3>1 DEF SetupInv, DataOK
    <3>2. CASE q = "local" /\ Data(i, l, h) = m
      <4>1. i = rid
        BY <3>2 DEF Data
      <4>2. p = "remote" /\ e[2] \in Ids("remote")
        BY <1>2, <3>2, Ends DEF Other, Peers
      <4> QED
        BY <1>1, <1>10, <4>1, <4>2, ReadingEntry
    <3> QED
      BY <1>6, <2>2, <3>1, <3>2 DEF Peers
  <2> QED
    BY <2>1, <2>2 DEF DataOK
<1> QED
  BY <1>5, <1>7, <1>8, <1>11, <1>13, <1>14, <1>15 DEF SetupInv

-----------------------------------------------------------------------------

LEMMA InitSetup == Init => SetupInv
<1> SUFFICES ASSUME Init PROVE SetupInv
  OBVIOUS
<1>1. /\ entry \in [End -> Entry] /\ chan \in [Peers -> Seq(Messages)]
      /\ given \in [End -> Seq(1 .. MaxBytes)]
  BY EntryType, Nothing DEF Init
<1>2. TypeOK
  BY <1>1, IdsType, ParametersAssumption DEF Init, TypeOK
<1>3. \A e \in End : entry[e] = Blank /\ ~Up(e)
  BY EntryType DEF Init, Up
<1>4. IdsInOrder
  <2>1. nextId = FirstId /\ FirstId["local"] \in Nat /\ FirstId["remote"] \in Nat /\ MaxConn \in Nat
    BY IdsType, ParametersAssumption DEF Init, Peers
  <2>2. \A p \in Peers : nextId[p] \in FirstId[p] .. FirstId[p] + MaxConn
    BY <2>1 DEF Peers
  <2>3. nextId["remote"] - FirstId["remote"] <= nextId["local"] - FirstId["local"]
    BY <2>1
  <2>4. \A e \in End : e[2] >= nextId[e[1]] /\ entry[e].phase = "new"
    BY <1>3, <2>1, Ends, IdsType, EntryType
  <2> QED
    BY <2>2, <2>3, <2>4 DEF IdsInOrder
<1>5. NothingLeft
  BY <1>3 DEF NothingLeft, Blank
<1>6. \A p \in Peers : DOMAIN chan[p] = {} /\ Msgs(p) = {}
  BY Nothing DEF Init, Msgs
<1>7. BuffersOK
  <2>1. \A e \in End : DOMAIN entry[e].wq = {}
    BY <1>3, EntryType, Nothing
  <2> QED
    BY <1>6, <2>1 DEF BuffersOK
<1>8. SocketsInOrder
  BY <1>6 DEF SocketsInOrder, Peers
<1>9. Msgs("local") = {} /\ Msgs("remote") = {} /\ links = {}
  BY <1>6 DEF Init, Peers
<1>10. \A i \in Ids("local"), r \in Ids("remote") : ~Pair(i, r)
  BY <1>3, <1>9, Ends DEF Pair
<1>13. PairsMatch
  BY <1>10 DEF PairsMatch
<1>11. LocalOK /\ RemoteOK
  BY <1>3, Ends DEF LocalOK, RemoteOK
<1>12. SocketOK /\ SocketDoneOK /\ ConnectOK /\ DataOK
  BY <1>9 DEF SocketOK, SocketDoneOK, ConnectOK, DataOK
<1> QED
  BY <1>2, <1>4, <1>5, <1>7, <1>8, <1>11, <1>12, <1>13 DEF SetupInv

LEMMA StutterSetup ==
    ASSUME SetupInv, UNCHANGED vars
    PROVE  SetupInv'
<1>1. UNCHANGED <<listener, entry, nextId, chan, data, links, cause>>
  BY DEF vars
<1>2. chan' \in [Peers -> Seq(Messages)] /\ SocketsInOrder'
      /\ \A p \in Peers : \A m \in Msgs(p)' : m \in Msgs(p)
  BY <1>1 DEF SetupInv, TypeOK, SocketsInOrder, Msgs
<1> QED
  BY <1>1, <1>2, QuietStep DEF SetupInv, TypeOK

LEMMA NextSetup ==
    ASSUME SetupInv, [Next]_vars
    PROVE  SetupInv'
<1>1. CASE Deliver
  <2>1. ASSUME NEW p \in Peers, HandleData(p) \/ DataFailed(p) \/ HandleClose(p) PROVE SetupInv'
    BY <2>1, HandleDataStep, DataFailedStep, HandleCloseStep
  <2> QED
    BY <1>1, <2>1, HandleSocketStep, SocketCreatedStep, HandleConnectStep, ConnectRemoteDoneStep
       DEF Deliver
<1>2. CASE ConnectionAccepted \/ AcceptError \/ RemoveListener
  BY <1>2, ConnectionAcceptedStep, ListenerStep
<1>3. ASSUME NEW e \in End,
             \/ \E ok \in BOOLEAN : ConnectLocalDone(e, ok)
             \/ \E n \in 1 .. MaxBytes : Read(e, n) \/ Write(e, n)
             \/ WriteError(e)
      PROVE  SetupInv'
  BY <1>3, ConnectLocalDoneStep, ReadStep, WriteStep, WriteErrorStep
<1>4. ASSUME NEW e \in End, EndOfFile(e) \/ Hangup(e) \/ RemoveConnection(e)
      PROVE  SetupInv'
  BY <1>4, RemoveStep DEF EndOfFile, Hangup, RemoveConnection
<1>5. CASE UNCHANGED vars
  BY <1>5, StutterSetup
<1> QED
  BY <1>1, <1>2, <1>3, <1>4, <1>5 DEF Next

\* Whatever the order in which connections are set up, used and removed, ids
\* are never confused: the inductive invariant.
THEOREM SetupInvariant == Spec => []SetupInv
<1>1. SetupInv /\ [Next]_vars => SetupInv'
  BY NextSetup
<1> QED
  BY InitSetup, <1>1, PTL DEF Spec

\* Every variable has its type.
THEOREM TypeCorrect == Spec => []TypeOK
<1>1. SetupInv => TypeOK
  BY DEF SetupInv
<1> QED
  BY SetupInvariant, <1>1, PTL

\* An entry that knows an id of the other peer (the rid that it got from the
\* SOCKET request or its answer) is the counterpart of the entry that has it.
THEOREM CounterpartsRight == Spec => []CounterpartsAgree
<1>1. ASSUME SetupInv PROVE CounterpartsAgree
  <2> SUFFICES ASSUME NEW e \in End, Up(e), entry[e].rid # 0
               PROVE  /\ <<Other(e[1]), entry[e].rid>> \in End
                      /\ Up(<<Other(e[1]), entry[e].rid>>) =>
                            \/ entry[<<Other(e[1]), entry[e].rid>>].rid = e[2]
                            \/ entry[<<Other(e[1]), entry[e].rid>>].pending = "SOCKET"
    BY DEF CounterpartsAgree
  <2>1. entry[e].rid \in Ids(Other(e[1])) /\ Other(e[1]) \in Peers
    BY <1>1, RidType, Ends DEF Other, Peers
  <2>2. CASE e[1] = "local"
    <3>1. PICK i \in Ids("local") : e = Lo(i) /\ e[2] = i
      BY <2>2, Ends DEF Lo
    <3>2. CASE entry[e].pending = "SOCKET"
      BY <1>1, <3>1, <3>2 DEF SetupInv, LocalOK, LocalEntryOK
    <3>3. CASE entry[e].pending # "SOCKET"
      <4> DEFINE r == entry[e].rid
      <4>1. <<i, r>> \in links /\ r \in Ids("remote")
        BY <1>1, <2>1, <2>2, <3>1, <3>3 DEF SetupInv, LocalOK, LocalEntryOK, Other
      <4>2. ASSUME Up(Re(r)) PROVE entry[Re(r)].rid = i
        <5>1. entry[Re(r)].rid \in Ids("local")
          BY <1>1, <4>1, <4>2 DEF SetupInv, RemoteOK
        <5>2. Pair(i, r) /\ Pair(entry[Re(r)].rid, r)
          BY <4>1, <4>2 DEF Pair
        <5> QED
          BY <1>1, <4>1, <5>1, <5>2 DEF SetupInv, PairsMatch
      <4> QED
        BY <2>1, <2>2, <3>1, <4>2, Ends DEF Other, Re
    <3> QED
      BY <3>2, <3>3
  <2>3. CASE e[1] = "remote"
    <3>1. PICK r \in Ids("remote") : e = Re(r) /\ e[2] = r
      BY <2>3, Ends DEF Re
    <3> DEFINE i == entry[e].rid
    <3>2. i \in Ids("local") /\ Pair(i, r)
      BY <1>1, <3>1 DEF SetupInv, RemoteOK, Pair
    <3>3. ASSUME Up(Lo(i)), entry[Lo(i)].pending # "SOCKET" PROVE entry[Lo(i)].rid = r
      <4>1. <<i, entry[Lo(i)].rid>> \in links
        BY <1>1, <3>2, <3>3 DEF SetupInv, LocalOK, LocalEntryOK
      <4>2. entry[Lo(i)].rid \in Ids("remote") /\ Pair(i, entry[Lo(i)].rid)
        BY <1>1, <4>1 DEF SetupInv, TypeOK, Pair
      <4> QED
        BY <1>1, <3>2, <4>2 DEF SetupInv, PairsMatch
    <3> QED
      BY <2>1, <2>3, <3>1, <3>2, <3>3, Ends DEF Other, Lo
  <2> QED
    BY <2>2, <2>3, Ends DEF Peers
<1> QED
  BY SetupInvariant, <1>1, PTL

\* The assertion of fwd_entry_stream_socket_data: an entry that gets DATA has
\* its I/O already.
THEOREM DataAlwaysFindsIo == Spec => []DataFindsIo
<1>1. ASSUME SetupInv PROVE DataFindsIo
  <2> SUFFICES ASSUME NEW p \in Peers, NEW i \in Ids(p), chan[p] # <<>>,
                      Head(chan[p]).type = "DATA", Head(chan[p]).id = i, Up(<<p, i>>)
               PROVE  entry[<<p, i>>].io
    BY DEF DataFindsIo
  <2>1. Head(chan[p]) \in Messages /\ Head(chan[p]) \in Msgs(p)
    BY <1>1 DEF SetupInv, TypeOK, Msgs
  <2>2. PICK lo \in 1 .. MaxBytes, hi \in 1 .. MaxBytes : Head(chan[p]) = Data(i, lo, hi)
    BY <2>1, MessageForm
  <2>3. CASE p = "local"
    BY <1>1, <2>1, <2>2, <2>3 DEF SetupInv, LocalOK, LocalEntryOK, Lo
  <2>4. CASE p = "remote"
    BY <1>1, <2>1, <2>2, <2>4 DEF SetupInv, DataOK, Re
  <2> QED
    BY <2>3, <2>4 DEF Peers
<1> QED
  BY SetupInvariant, <1>1, PTL

-----------------------------------------------------------------------------
(* What becomes of the bytes *)

\* e and f are the two ends of a connection.
Linked(e, f) ==
    \/ e[1] = "local" /\ f[1] = "remote" /\ <<e[2], f[2]>> \in links
    \/ e[1] = "remote" /\ f[1] = "local" /\ <<f[2], e[2]>> \in links

\* The bytes of q follow the g that have been written and go up to h.
Queued(q, g, h, limit) ==
    \E w \in [0 .. Len(q) -> 0 .. limit] :
        /\ w[0] = g /\ w[Len(q)] = h
        /\ \A k \in 1 .. Len(q) : q[k].lo + q[k].sent = w[k - 1] + 1 /\ q[k].hi = w[k]

IsData(x, id) == x.type = "DATA" /\ x.id = id

\* The data for id in s follow the first h bytes and go up to t.
OnWay(s, id, h, t) ==
    \E w \in [0 .. Len(s) -> 0 .. t] :
        /\ w[0] = h /\ w[Len(s)] = t
        /\ \A k \in 1 .. Len(s) :
            /\ IsData(s[k], id) => s[k].lo = w[k - 1] + 1 /\ s[k].hi = w[k]
            /\ ~IsData(s[k], id) => w[k] = w[k - 1]

\* What f has sent is given to the application at e, or queued there, or on
\* its way.
Stream(e, f) ==
    \E h \in 0 .. taken[f] :
        /\ Queued(entry[e].wq, Len(given[e]), h, taken[f])
        /\ OnWay(chan[e[1]], e[2], h, taken[f])

\* Entries without a counterpart have seen no data at all.
StreamsOK ==
    /\ \A e, f \in End : Linked(e, f) /\ Up(e) => Stream(e, f)
    /\ \A e \in End : (\A f \in End : ~Linked(e, f)) =>
            taken[e] = 0 /\ Len(given[e]) = 0 /\ Len(entry[e].wq) = 0

-----------------------------------------------------------------------------
(* Data on its way *)

LEMMA OnWayTail ==
    ASSUME NEW s \in Seq(Messages), s # <<>>, NEW id, NEW h \in Nat, NEW t \in Nat,
           OnWay(s, id, h, t)
    PROVE  /\ ~IsData(s[1], id) => OnWay(Tail(s), id, h, t)
           /\ IsData(s[1], id) =>
                s[1].lo = h + 1 /\ s[1].hi \in 0 .. t /\ OnWay(Tail(s), id, s[1].hi, t)
<1>1. PICK w \in [0 .. Len(s) -> 0 .. t] :
        /\ w[0] = h /\ w[Len(s)] = t
        /\ \A k \in 1 .. Len(s) :
            /\ IsData(s[k], id) => s[k].lo = w[k - 1] + 1 /\ s[k].hi = w[k]
            /\ ~IsData(s[k], id) => w[k] = w[k - 1]
  BY DEF OnWay
<1> DEFINE r == Tail(s)
           v == [k \in 0 .. Len(r) |-> w[k + 1]]
<1>2. Len(s) \in Nat /\ Len(s) >= 1 /\ Len(r) = Len(s) - 1 /\ \A k \in 1 .. Len(r) : r[k] = s[k + 1]
  OBVIOUS
<1>3. IsData(s[1], id) => s[1].lo = w[0] + 1 /\ s[1].hi = w[1]
  BY <1>1, <1>2
<1>4. ~IsData(s[1], id) => w[1] = w[0]
  BY <1>1, <1>2
<1>5. w[1] \in 0 .. t
  BY <1>1, <1>2
<1> HIDE DEF r
<1>6. v \in [0 .. Len(r) -> 0 .. t] /\ v[0] = w[1] /\ v[Len(r)] = t
  BY <1>1, <1>2
<1>7. ASSUME NEW k \in 1 .. Len(r)
      PROVE  /\ IsData(r[k], id) => r[k].lo = v[k - 1] + 1 /\ r[k].hi = v[k]
             /\ ~IsData(r[k], id) => v[k] = v[k - 1]
  <2>1. k + 1 \in 1 .. Len(s) /\ r[k] = s[k + 1] /\ v[k] = w[k + 1] /\ v[k - 1] = w[k]
        /\ (k + 1) - 1 = k
    BY <1>2
  <2> HIDE DEF v
  <2> QED
    BY <1>1, <2>1
<1> HIDE DEF v
<1>8. OnWay(r, id, w[1], t)
  BY <1>6, <1>7 DEF OnWay
<1> QED
  BY <1>1, <1>3, <1>4, <1>5, <1>8 DEF r

LEMMA OnWayOther ==
    ASSUME NEW s \in Seq(Messages), NEW msgs \in Seq(Messages), NEW id, NEW h \in Nat,
           NEW t \in Nat, OnWay(s, id, h, t), \A x \in Of(msgs) : ~IsData(x, id)
    PROVE  OnWay(s \o msgs, id, h, t)
<1>1. PICK w \in [0 .. Len(s) -> 0 .. t] :
        /\ w[0] = h /\ w[Len(s)] = t
        /\ \A k \in 1 .. Len(s) :
            /\ IsData(s[k], id) => s[k].lo = w[k - 1] + 1 /\ s[k].hi = w[k]
            /\ ~IsData(s[k], id) => w[k] = w[k - 1]
  BY DEF OnWay
<1> DEFINE r == s \o msgs
           v == [k \in 0 .. Len(r) |-> IF k <= Len(s) THEN w[k] ELSE t]
<1>2. /\ Len(s) \in Nat /\ Len(msgs) \in Nat /\ Len(r) = Len(s) + Len(msgs)
      /\ \A k \in 1 .. Len(s) : r[k] = s[k]
      /\ \A k \in 1 .. Len(msgs) : r[Len(s) + k] = msgs[k] /\ ~IsData(msgs[k], id)
  BY Appended DEF Of
<1> HIDE DEF r
<1>3. v \in [0 .. Len(r) -> 0 .. t] /\ v[0] = h /\ v[Len(r)] = t
  BY <1>1, <1>2
<1>4. ASSUME NEW k \in 1 .. Len(r)
      PROVE  /\ IsData(r[k], id) => r[k].lo = v[k - 1] + 1 /\ r[k].hi = v[k]
             /\ ~IsData(r[k], id) => v[k] = v[k - 1]
  <2>1. CASE k <= Len(s)
    <3>1. k \in 1 .. Len(s) /\ r[k] = s[k] /\ v[k] = w[k] /\ v[k - 1] = w[k - 1]
      BY <1>2, <2>1
    <3> HIDE DEF v
    <3> QED
      BY <1>1, <3>1
  <2>2. CASE k > Len(s)
    <3>1. k - Len(s) \in 1 .. Len(msgs) /\ Len(s) + (k - Len(s)) = k
      BY <1>2, <2>2
    <3>2. r[k] = msgs[k - Len(s)] /\ ~IsData(msgs[k - Len(s)], id)
      BY <1>2, <3>1
    <3>3. k \in 0 .. Len(r) /\ k - 1 \in 0 .. Len(r) /\ (k - 1 <= Len(s) => k - 1 = Len(s))
      BY <1>2, <2>2
    <3>4. v[k] = t /\ v[k - 1] = t
      <4>1. \A j \in 0 .. Len(r) : v[j] = IF j <= Len(s) THEN w[j] ELSE t
        OBVIOUS
      <4>2. w[Len(s)] = t /\ ~(k <= Len(s))
        BY <1>1, <1>2, <2>2
      <4> HIDE DEF v
      <4>3. v[k] = t
        BY <3>3, <4>1, <4>2
      <4>4. v[k - 1] = t
        <5> PICK j : j = k - 1
          OBVIOUS
        <5>1. j \in 0 .. Len(r) /\ (j <= Len(s) => j = Len(s))
          BY <3>3
        <5>2. v[j] = t
          BY <4>1, <4>2, <5>1
        <5> QED
          BY <5>2
      <4> QED
        BY <4>3, <4>4
    <3> QED
      BY <3>2, <3>4
  <2> QED
    BY <1>2, <2>1, <2>2
<1> HIDE DEF v
<1> QED
  BY <1>3, <1>4 DEF OnWay, r

LEMMA OnWayData ==
    ASSUME NEW s \in Seq(Messages), NEW x \in Messages, NEW id, NEW h \in Nat,
           NEW t \in Nat, NEW u \in Nat, OnWay(s, id, h, t),
           IsData(x, id), x.lo = t + 1, x.hi = u, t <= u
    PROVE  OnWay(s \o <<x>>, id, h, u)
<1>1. PICK w \in [0 .. Len(s) -> 0 .. t] :
        /\ w[0] = h /\ w[Len(s)] = t
        /\ \A k \in 1 .. Len(s) :
            /\ IsData(s[k], id) => s[k].lo = w[k - 1] + 1 /\ s[k].hi = w[k]
            /\ ~IsData(s[k], id) => w[k] = w[k - 1]
  BY DEF OnWay
<1> DEFINE r == s \o <<x>>
           v == [k \in 0 .. Len(r) |-> IF k <= Len(s) THEN w[k] ELSE u]
<1>2. /\ Len(s) \in Nat /\ Len(r) = Len(s) + 1
      /\ \A k \in 1 .. Len(s) : r[k] = s[k]
      /\ r[Len(s) + 1] = x
  OBVIOUS
<1> HIDE DEF r
<1>3. v \in [0 .. Len(r) -> 0 .. u] /\ v[0] = h /\ v[Len(r)] = u
  BY <1>1, <1>2
<1>4. ASSUME NEW k \in 1 .. Len(r)
      PROVE  /\ IsData(r[k], id) => r[k].lo = v[k - 1] + 1 /\ r[k].hi = v[k]
             /\ ~IsData(r[k], id) => v[k] = v[k - 1]
  <2>1. CASE k <= Len(s)
    <3>1. k \in 1 .. Len(s) /\ r[k] = s[k] /\ v[k] = w[k] /\ v[k - 1] = w[k - 1]
      BY <1>2, <2>1
    <3> HIDE DEF v
    <3> QED
      BY <1>1, <3>1
  <2>2. CASE k > Len(s)
    <3>1. k = Len(s) + 1 /\ r[k] = x /\ v[k] = u /\ v[k - 1] = w[Len(s)]
      BY <1>2, <2>2
    <3> HIDE DEF v
    <3> QED
      BY <1>1, <3>1
  <2> QED
    BY <1>2, <2>1, <2>2
<1> HIDE DEF v
<1> QED
  BY <1>3, <1>4 DEF OnWay, r

LEMMA OnWayNone ==
    ASSUME NEW s \in Seq(Messages), NEW id, NEW t \in Nat, \A x \in Of(s) : ~IsData(x, id)
    PROVE  OnWay(s, id, t, t)
<1> DEFINE w == [k \in 0 .. Len(s) |-> t]
<1>1. Len(s) \in Nat /\ \A k \in 1 .. Len(s) : s[k] \in Of(s)
  BY DEF Of
<1>2. w \in [0 .. Len(s) -> 0 .. t] /\ w[0] = t /\ w[Len(s)] = t
  BY <1>1
<1>3. \A k \in 1 .. Len(s) : w[k] = w[k - 1]
  BY <1>1
<1> HIDE DEF w
<1> QED
  BY <1>1, <1>2, <1>3 DEF OnWay

-----------------------------------------------------------------------------
(* Data in the write queue *)

LEMMA QueuedNone ==
    ASSUME NEW q \in Seq(Buffer), Len(q) = 0, NEW g \in Nat, NEW l \in Nat, g <= l
    PROVE  Queued(q, g, g, l)
<1> DEFINE w == [k \in 0 .. Len(q) |-> g]
<1>1. w \in [0 .. Len(q) -> 0 .. l] /\ w[0] = g /\ w[Len(q)] = g
  OBVIOUS
<1> HIDE DEF w
<1> QED
  BY <1>1 DEF Queued

LEMMA QueuedLimit ==
    ASSUME NEW q \in Seq(Buffer), NEW g \in Nat, NEW h \in Nat, NEW l \in Nat, NEW u \in Nat,
           l <= u, Queued(q, g, h, l)
    PROVE  Queued(q, g, h, u)
<1>1. PICK w \in [0 .. Len(q) -> 0 .. l] :
        /\ w[0] = g /\ w[Len(q)] = h
        /\ \A k \in 1 .. Len(q) : q[k].lo + q[k].sent = w[k - 1] + 1 /\ q[k].hi = w[k]
  BY DEF Queued
<1>2. w \in [0 .. Len(q) -> 0 .. u]
  OBVIOUS
<1> QED
  BY <1>1, <1>2 DEF Queued

LEMMA QueuedAppend ==
    ASSUME NEW q \in Seq(Buffer), NEW g \in Nat, NEW h \in Nat, NEW l \in Nat,
           Queued(q, g, h, l), NEW b \in Buffer, b.lo + b.sent = h + 1, b.hi \in 0 .. l
    PROVE  Queued(Append(q, b), g, b.hi, l)
<1>1. PICK w \in [0 .. Len(q) -> 0 .. l] :
        /\ w[0] = g /\ w[Len(q)] = h
        /\ \A k \in 1 .. Len(q) : q[k].lo + q[k].sent = w[k - 1] + 1 /\ q[k].hi = w[k]
  BY DEF Queued
<1> DEFINE r == Append(q, b)
           v == [k \in 0 .. Len(r) |-> IF k <= Len(q) THEN w[k] ELSE b.hi]
<1>2. /\ Len(q) \in Nat /\ Len(r) = Len(q) + 1
      /\ \A k \in 1 .. Len(q) : r[k] = q[k]
      /\ r[Len(q) + 1] = b
  OBVIOUS
<1> HIDE DEF r
<1>3. v \in [0 .. Len(r) -> 0 .. l] /\ v[0] = g /\ v[Len(r)] = b.hi
  BY <1>1, <1>2
<1>4. ASSUME NEW k \in 1 .. Len(r)
      PROVE  r[k].lo + r[k].sent = v[k - 1] + 1 /\ r[k].hi = v[k]
  <2>1. CASE k <= Len(q)
    <3>1. k \in 1 .. Len(q) /\ r[k] = q[k] /\ v[k] = w[k] /\ v[k - 1] = w[k - 1]
      BY <1>2, <2>1
    <3> HIDE DEF v
    <3> QED
      BY <1>1, <3>1
  <2>2. CASE k > Len(q)
    <3>1. k = Len(q) + 1 /\ r[k] = b /\ v[k] = b.hi /\ v[k - 1] = w[Len(q)]
      BY <1>2, <2>2
    <3> HIDE DEF v
    <3> QED
      BY <1>1, <3>1
  <2> QED
    BY <1>2, <2>1, <2>2
<1> HIDE DEF v
<1> QED
  BY <1>3, <1>4 DEF Queued, r

LEMMA QueuedHead ==
    ASSUME NEW q \in Seq(Buffer), q # <<>>, NEW g \in Nat, NEW h \in Nat, NEW l \in Nat,
           Queued(q, g, h, l)
    PROVE  /\ q[1].lo + q[1].sent = g + 1 /\ q[1].hi \in 0 .. l
           /\ Queued(Tail(q), q[1].hi, h, l)
<1>1. PICK w \in [0 .. Len(q) -> 0 .. l] :
        /\ w[0] = g /\ w[Len(q)] = h
        /\ \A k \in 1 .. Len(q) : q[k].lo + q[k].sent = w[k - 1] + 1 /\ q[k].hi = w[k]
  BY DEF Queued
<1> DEFINE r == Tail(q)
           v == [k \in 0 .. Len(r) |-> w[k + 1]]
<1>2. Len(q) \in Nat /\ Len(q) >= 1 /\ Len(r) = Len(q) - 1 /\ \A k \in 1 .. Len(r) : r[k] = q[k + 1]
  OBVIOUS
<1>3. q[1].lo + q[1].sent = w[0] + 1 /\ q[1].hi = w[1] /\ w[1] \in 0 .. l
  BY <1>1, <1>2
<1> HIDE DEF r
<1>4. v \in [0 .. Len(r) -> 0 .. l] /\ v[0] = w[1] /\ v[Len(r)] = h
  BY <1>1, <1>2
<1>5. ASSUME NEW k \in 1 .. Len(r)
      PROVE  r[k].lo + r[k].sent = v[k - 1] + 1 /\ r[k].hi = v[k]
  <2>1. k + 1 \in 1 .. Len(q) /\ r[k] = q[k + 1] /\ v[k] = w[k + 1] /\ v[k - 1] = w[k]
        /\ (k + 1) - 1 = k
    BY <1>2
  <2> HIDE DEF v
  <2> QED
    BY <1>1, <2>1
<1> HIDE DEF v
<1>6. Queued(r, w[1], h, l)
  BY <1>4, <1>5 DEF Queued
<1> QED
  BY <1>1, <1>3, <1>6 DEF r

LEMMA QueuedReplaced ==
    ASSUME NEW t \in Seq(Buffer), NEW b \in Buffer, NEW g \in Nat, NEW h \in Nat, NEW l \in Nat,
           Queued(t, b.hi, h, l), b.lo + b.sent = g + 1, g <= l
    PROVE  Queued(<<b>> \o t, g, h, l)
<1>1. PICK w \in [0 .. Len(t) -> 0 .. l] :
        /\ w[0] = b.hi /\ w[Len(t)] = h
        /\ \A k \in 1 .. Len(t) : t[k].lo + t[k].sent = w[k - 1] + 1 /\ t[k].hi = w[k]
  BY DEF Queued
<1> DEFINE r == <<b>> \o t
           v == [k \in 0 .. Len(r) |-> IF k = 0 THEN g ELSE w[k - 1]]
<1>2. /\ r \in Seq(Buffer) /\ Len(r) = Len(t) + 1 /\ r[1] = b
      /\ \A k \in 1 .. Len(r) : k = 1 \/ (k - 1 \in 1 .. Len(t) /\ r[k] = t[k - 1])
  BY Replaced
<1> HIDE DEF r
<1>3. v \in [0 .. Len(r) -> 0 .. l] /\ v[0] = g /\ v[Len(r)] = h /\ v[1] = b.hi
  BY <1>1, <1>2
<1>4. ASSUME NEW k \in 1 .. Len(r)
      PROVE  r[k].lo + r[k].sent = v[k - 1] + 1 /\ r[k].hi = v[k]
  <2>1. CASE k = 1
    BY <1>2, <1>3, <2>1
  <2>2. CASE k # 1
    <3>1. k - 1 \in 1 .. Len(t) /\ r[k] = t[k - 1] /\ v[k] = w[k - 1] /\ v[k - 1] = w[(k - 1) - 1]
      BY <1>2, <2>2
    <3> HIDE DEF v
    <3> QED
      BY <1>1, <3>1
  <2> QED
    BY <2>1, <2>2
<1> HIDE DEF v
<1> QED
  BY <1>3, <1>4 DEF Queued, r

-----------------------------------------------------------------------------
(* Connections *)

LEMMA LinkedEnds ==
    ASSUME SetupInv
    PROVE  /\ \A e, f \in End : Linked(e, f) <=> Linked(f, e)
           /\ \A e, f \in End : Linked(e, f) => f[1] = Other(e[1]) /\ e # f
           /\ \A e, f, g \in End : Linked(e, f) /\ Linked(e, g) => f = g
           /\ \A e, f, g \in End : Linked(e, f) /\ Linked(g, f) => e = g
           /\ \A e, f \in End : Linked(e, f) => entry[e].phase # "new" /\ entry[f].phase # "new"
<1>1. \A e, f \in End : Linked(e, f) <=> Linked(f, e)
  BY DEF Linked
<1>2. \A e, f \in End : Linked(e, f) => f[1] = Other(e[1]) /\ e # f
  BY DEF Linked, Other
<1>3. \A i, j \in Ids("local"), r, s \in Ids("remote") :
        <<i, r>> \in links /\ <<j, s>> \in links => (i = j <=> r = s)
  BY DEF SetupInv, PairsMatch, Pair
<1>4. \A e, f, g \in End : Linked(e, f) /\ Linked(e, g) => f = g
  BY <1>3, Ends DEF Linked
<1>5. \A e, f, g \in End : Linked(e, f) /\ Linked(g, f) => e = g
  BY <1>3, Ends DEF Linked
<1>6. ASSUME NEW e \in End, NEW f \in End, Linked(e, f)
      PROVE  entry[e].phase # "new"
  <2>1. \A i \in Ids("local"), r \in Ids("remote") :
            <<i, r>> \in links => i < nextId["local"] /\ r < nextId["remote"]
    BY DEF SetupInv, PairsMatch, Pair
  <2>2. e[2] < nextId[e[1]] /\ e[2] \in Nat /\ nextId[e[1]] \in Nat
    BY <1>6, <2>1, Ends, IdsType DEF Linked, SetupInv, TypeOK
  <2>3. ~(e[2] >= nextId[e[1]])
    BY <2>2
  <2> QED
    BY <2>3 DEF SetupInv, IdsInOrder
<1> QED
  BY <1>1, <1>2, <1>4, <1>5, <1>6

LEMMA DataLinked ==
    ASSUME SetupInv, NEW e \in End, NEW x \in Msgs(e[1]), IsData(x, e[2])
    PROVE  \E f \in End : Linked(e, f)
<1>1. e[1] \in Peers /\ e[2] \in Ids(e[1])
  BY Ends
<1>2. x \in Messages
  BY <1>1 DEF Msgs, SetupInv, TypeOK
<1>3. PICK lo \in 1 .. MaxBytes, hi \in 1 .. MaxBytes : x = Data(e[2], lo, hi)
  BY <1>2, MessageForm DEF IsData
<1>4. CASE e[1] = "local"
  <2>1. PICK r \in Ids("remote") : <<e[2], r>> \in links
    BY <1>1, <1>3, <1>4 DEF SetupInv, DataOK
  <2>2. Linked(e, Re(r)) /\ Re(r) \in End
    BY <1>4, <2>1, Ends DEF Linked, Re
  <2> QED
    BY <2>2
<1>5. CASE e[1] = "remote"
  <2>1. PICK i \in Ids("local") : <<i, e[2]>> \in links
    BY <1>1, <1>3, <1>5 DEF SetupInv, DataOK
  <2>2. Linked(e, Lo(i)) /\ Lo(i) \in End
    BY <1>5, <2>1, Ends DEF Linked, Lo
  <2> QED
    BY <2>2
<1> QED
  BY <1>1, <1>4, <1>5 DEF Peers

\* The data on its way to the ends is still there, and no more.
KeepsData ==
    \A p \in Peers : \A id \in Ids(p) : \A h, t \in Nat :
        OnWay(chan[p], id, h, t) => OnWay(chan'[p], id, h, t)

NoData(msgs) == \A x \in Of(msgs) : x.type # "DATA"

LEMMA KeptIfSent ==
    ASSUME SetupInv, NEW p \in Peers, NEW msgs \in Seq(Messages), NoData(msgs), Send(p, msgs)
    PROVE  KeepsData
<1>1. /\ chan'[p] = chan[p] /\ chan'[Other(p)] = chan[Other(p)] \o msgs
      /\ Other(p) \in Peers /\ Peers = {p, Other(p)}
  BY SendStep DEF SetupInv, TypeOK, Other, Peers
<1>2. chan[Other(p)] \in Seq(Messages)
  BY <1>1 DEF SetupInv, TypeOK
<1>3. \A id : \A x \in Of(msgs) : ~IsData(x, id)
  BY DEF NoData, IsData
<1>4. \A id \in Ids(Other(p)) : \A h, t \in Nat :
        OnWay(chan[Other(p)], id, h, t) => OnWay(chan'[Other(p)], id, h, t)
  BY <1>1, <1>2, <1>3, OnWayOther
<1>5. \A id \in Ids(p) : \A h, t \in Nat :
        OnWay(chan[p], id, h, t) => OnWay(chan'[p], id, h, t)
  BY <1>1
<1> QED
  BY <1>1, <1>4, <1>5 DEF KeepsData

LEMMA KeptIfHandled ==
    ASSUME SetupInv, NEW p \in Peers, NEW msgs \in Seq(Messages), NoData(msgs),
           NEW x, Receive(p, x), x.type # "DATA", Handled(p, msgs)
    PROVE  KeepsData
<1>1. /\ chan'[p] = Tail(chan[p]) /\ chan'[Other(p)] = chan[Other(p)] \o msgs
      /\ Other(p) \in Peers /\ Peers = {p, Other(p)} /\ x = chan[p][1]
  BY HandledStep DEF SetupInv, TypeOK, Other, Peers
<1>2. chan[Other(p)] \in Seq(Messages) /\ chan[p] \in Seq(Messages)
  BY <1>1 DEF SetupInv, TypeOK
<1>3. \A id : \A y \in Of(msgs) : ~IsData(y, id)
  BY DEF NoData, IsData
<1>4. \A id \in Ids(Other(p)) : \A h, t \in Nat :
        OnWay(chan[Other(p)], id, h, t) => OnWay(chan'[Other(p)], id, h, t)
  BY <1>1, <1>2, <1>3, OnWayOther
<1>5. \A id : ~IsData(chan[p][1], id)
  BY <1>1 DEF IsData
<1>6. chan[p] # <<>>
  BY DEF Receive
<1>7. \A id \in Ids(p) : \A h, t \in Nat :
        OnWay(chan[p], id, h, t) => OnWay(chan'[p], id, h, t)
  BY <1>1, <1>2, <1>5, <1>6, OnWayTail
<1> QED
  BY <1>1, <1>4, <1>7 DEF KeepsData

\* What is left alone, or emptied for good.
LEMMA StreamsKept ==
    ASSUME SetupInv, StreamsOK, KeepsData, UNCHANGED <<taken, given, links>>,
           \A e \in End :
                \/ /\ entry'[e].wq = entry[e].wq
                   /\ Up(e)' => Up(e) \/ entry[e].phase = "new"
                \/ /\ Len(entry'[e].wq) = 0
                   /\ Up(e)' => entry[e].phase = "new"
    PROVE  StreamsOK'
<1>1. \A e, f \in End : Linked(e, f)' <=> Linked(e, f)
  BY DEF Linked
<1>2. taken' = taken /\ given' = given
  OBVIOUS
<1>3. ASSUME NEW e \in End, NEW f \in End, Linked(e, f), Up(e)'
      PROVE  Stream(e, f)'
  <2>1. entry[e].phase # "new"
    BY <1>3, LinkedEnds
  <2>2. Up(e) /\ entry'[e].wq = entry[e].wq
    BY <1>3, <2>1
  <2>3. Stream(e, f)
    BY <1>3, <2>2 DEF StreamsOK
  <2>4. PICK h \in 0 .. taken[f] :
            /\ Queued(entry[e].wq, Len(given[e]), h, taken[f])
            /\ OnWay(chan[e[1]], e[2], h, taken[f])
    BY <2>3 DEF Stream
  <2>5. taken[f] \in Nat /\ h \in Nat /\ e[1] \in Peers /\ e[2] \in Ids(e[1])
    BY Ends DEF SetupInv, TypeOK
  <2>6. OnWay(chan'[e[1]], e[2], h, taken[f])
    BY <2>4, <2>5 DEF KeepsData
  <2> QED
    BY <1>2, <2>2, <2>4, <2>6 DEF Stream
<1>4. ASSUME NEW e \in End, \A f \in End : ~Linked(e, f)
      PROVE  taken'[e] = 0 /\ Len(given'[e]) = 0 /\ Len(entry'[e].wq) = 0
  <2>1. taken[e] = 0 /\ Len(given[e]) = 0 /\ Len(entry[e].wq) = 0
    BY <1>4 DEF StreamsOK
  <2> QED
    BY <1>2, <2>1
<1> QED
  BY <1>1, <1>3, <1>4 DEF StreamsOK

-----------------------------------------------------------------------------
(* Steps of the pipe *)

PipeStep == [Pipe!Next]_(Pipe!vars)

LEMMA PipeEnds ==
    /\ Pipe!End = End
    /\ \A p \in Peers : \A i \in Ids(p) : <<p, i>> \in End
  BY DEF Pipe!End, End, Peers

LEMMA PipeSame ==
    ASSUME UNCHANGED <<taken, given, links>>, \A e \in End : entry'[e].phase = entry[e].phase
    PROVE  PipeStep
<1>1. [e \in End |-> entry[e].phase]' = [e \in End |-> entry[e].phase]
  OBVIOUS
<1> QED
  BY <1>1 DEF PipeStep, Pipe!vars

LEMMA PipeShut ==
    ASSUME NEW e \in End, Up(e), UNCHANGED <<taken, given, links>>,
           \A f \in End : entry'[f].phase = IF f = e THEN "gone" ELSE entry[f].phase
    PROVE  PipeStep
<1> DEFINE phase == [f \in End |-> entry[f].phase]
<1>1. phase[e] = "up" /\ phase' = [phase EXCEPT ![e] = "gone"]
  BY DEF Up
<1>2. Pipe!Shut(e)
  BY <1>1 DEF Pipe!Shut
<1>3. Pipe!Next
  BY <1>2, PipeEnds DEF Pipe!Next
<1> QED
  BY <1>3 DEF PipeStep

LEMMA PipeOpen ==
    ASSUME NEW e \in End, entry[e].phase = "new", UNCHANGED <<taken, given, links>>,
           \A f \in End : entry'[f].phase = IF f = e THEN "up" ELSE entry[f].phase
    PROVE  PipeStep
<1> DEFINE phase == [f \in End |-> entry[f].phase]
<1>1. phase[e] = "new" /\ phase' = [phase EXCEPT ![e] = "up"]
  OBVIOUS
<1>2. Pipe!Open(e)
  BY <1>1 DEF Pipe!Open
<1>3. Pipe!Next
  BY <1>2, PipeEnds DEF Pipe!Next
<1> QED
  BY <1>3 DEF PipeStep

\* Both promises of a step.
Good == StreamsOK' /\ PipeStep

LEMMA SameGood ==
    ASSUME SetupInv, StreamsOK, KeepsData, UNCHANGED <<taken, given, links>>,
           \A e \in End : entry'[e].phase = entry[e].phase /\ entry'[e].wq = entry[e].wq
    PROVE  Good
<1>1. \A e \in End : Up(e)' = Up(e)
  BY DEF Up
<1> QED
  BY <1>1, StreamsKept, PipeSame DEF Good

LEMMA DisposedGood ==
    ASSUME SetupInv, StreamsOK, KeepsData, UNCHANGED <<taken, given, links>>,
           NEW e \in End, NEW why \in {"error", "eof", "api", "peer"}, Up(e), Dispose(e, why)
    PROVE  Good
<1>1. \A f \in End : entry'[f] = IF f = e THEN Gone ELSE entry[f]
  BY DisposeStep DEF SetupInv
<1>2. Gone.phase = "gone" /\ Len(Gone.wq) = 0
  BY EntryType
<1>3. \A f \in End : entry'[f].phase = IF f = e THEN "gone" ELSE entry[f].phase
  BY <1>1, <1>2
<1>4. \A f \in End : (Len(entry'[f].wq) = 0 /\ ~Up(f)') \/ entry'[f] = entry[f]
  BY <1>1, <1>2 DEF Up
<1>5. StreamsOK'
  BY <1>4, StreamsKept DEF Up
<1> QED
  BY <1>3, <1>5, PipeShut DEF Good

LEMMA RemoveGood ==
    ASSUME SetupInv, StreamsOK, NEW e \in End, NEW why \in {"error", "eof", "api"}, Remove(e, why)
    PROVE  Good
<1>1. Up(e) /\ Dispose(e, why) /\ Send(e[1], Closing(e)) /\ UNCHANGED <<taken, given, links>>
  BY DEF Remove, data
<1>2. Closing(e) \in Seq(Messages) /\ NoData(Closing(e))
  BY <1>1, ClosingEnds DEF NoData, Ending
<1> QED
  BY <1>1, <1>2, Ends, KeptIfSent, DisposedGood

LEMMA WriteErrorGood ==
    ASSUME SetupInv, StreamsOK, NEW e \in End, WriteError(e)
    PROVE  Good
<1> DEFINE msgs == <<DataError(entry[e].rid)>> \o Closing(e)
<1>1. Up(e) /\ Dispose(e, "error") /\ Send(e[1], msgs) /\ UNCHANGED <<taken, given, links>>
  BY DEF WriteError, data
<1>2. msgs \in Seq(Messages) /\ NoData(msgs)
  BY ErrorMessages DEF NoData, Ending
<1> HIDE DEF msgs
<1> QED
  BY <1>1, <1>2, Ends, KeptIfSent, DisposedGood

LEMMA HandleCloseGood ==
    ASSUME SetupInv, StreamsOK, NEW p \in Peers, HandleClose(p)
    PROVE  Good
<1>1. PICK i \in Ids(p) :
        /\ Receive(p, Close(i)) /\ Handled(p, <<>>)
        /\ (Up(<<p, i>>) /\ Dispose(<<p, i>>, "peer")) \/ (~Up(<<p, i>>) /\ UNCHANGED <<entry, cause>>)
        /\ UNCHANGED <<taken, given, links>>
  BY DEF HandleClose, data
<1>2. <<p, i>> \in End /\ Close(i).type # "DATA" /\ <<>> \in Seq(Messages) /\ NoData(<<>>)
  BY Ends, Nothing DEF NoData, Close
<1>3. KeepsData
  BY <1>1, <1>2, KeptIfHandled
<1>4. CASE Up(<<p, i>>) /\ Dispose(<<p, i>>, "peer")
  BY <1>1, <1>2, <1>3, <1>4, DisposedGood
<1>5. CASE UNCHANGED <<entry, cause>>
  BY <1>1, <1>3, <1>5, SameGood
<1> QED
  BY <1>1, <1>4, <1>5

LEMMA DataFailedGood ==
    ASSUME SetupInv, StreamsOK, NEW p \in Peers, DataFailed(p)
    PROVE  Good
<1>1. PICK i \in Ids(p) :
        /\ Receive(p, DataError(i))
        /\ \/ Up(<<p, i>>) /\ Dispose(<<p, i>>, "error") /\ Handled(p, Closing(<<p, i>>))
           \/ Handled(p, <<>>) /\ UNCHANGED <<entry, cause>>
        /\ UNCHANGED <<taken, given, links>>
  BY DEF DataFailed, data
<1>2. <<p, i>> \in End /\ DataError(i).type # "DATA" /\ <<>> \in Seq(Messages) /\ NoData(<<>>)
  BY Ends, Nothing DEF NoData, DataError
<1>3. CASE Up(<<p, i>>) /\ Dispose(<<p, i>>, "error") /\ Handled(p, Closing(<<p, i>>))
  <2>1. Closing(<<p, i>>) \in Seq(Messages) /\ NoData(Closing(<<p, i>>))
    BY <1>2, <1>3, ClosingEnds DEF NoData, Ending
  <2>2. KeepsData
    BY <1>1, <1>2, <1>3, <2>1, KeptIfHandled
  <2> QED
    BY <1>1, <1>2, <1>3, <2>2, DisposedGood
<1>4. CASE Handled(p, <<>>) /\ UNCHANGED <<entry, cause>>
  <2>1. KeepsData
    BY <1>1, <1>2, <1>4, KeptIfHandled
  <2> QED
    BY <1>1, <1>4, <2>1, SameGood
<1> QED
  BY <1>1, <1>3, <1>4

LEMMA ListenerGood ==
    ASSUME SetupInv, StreamsOK, AcceptError \/ RemoveListener
    PROVE  Good
<1>1. UNCHANGED <<entry, chan, taken, given, links>>
  BY DEF AcceptError, RemoveListener, data
<1>2. KeepsData
  BY <1>1 DEF KeepsData
<1> QED
  BY <1>1, <1>2, SameGood

LEMMA OpenedGood ==
    ASSUME SetupInv, StreamsOK, KeepsData, UNCHANGED <<taken, given, links>>,
           NEW e \in End, entry[e].phase = "new", NEW x \in Entry, x.phase = "up", Len(x.wq) = 0,
           \A f \in End : entry'[f] = IF f = e THEN x ELSE entry[f]
    PROVE  Good
<1>1. \A f \in End : entry'[f].phase = IF f = e THEN "up" ELSE entry[f].phase
  OBVIOUS
<1>2. \A f \in End :
        (Len(entry'[f].wq) = 0 /\ entry[f].phase = "new") \/ entry'[f] = entry[f]
  OBVIOUS
<1>3. StreamsOK'
  BY <1>2, StreamsKept DEF Up
<1> QED
  BY <1>1, <1>3, PipeOpen DEF Good

LEMMA ConnectionAcceptedGood ==
    ASSUME SetupInv, StreamsOK, ConnectionAccepted
    PROVE  Good
<1> DEFINE id == nextId["local"]
           e == Lo(id)
           new == [Blank EXCEPT !.phase = "up", !.io = TRUE, !.pending = "SOCKET"]
<1>1. /\ id \in Ids("local") /\ entry' = [entry EXCEPT ![e] = new]
      /\ Send("local", <<Socket(id)>>)
      /\ UNCHANGED <<taken, given, links>>
  BY DEF ConnectionAccepted, ConnectRemoteStart, Lo, data
<1>2. new \in Entry /\ new.phase = "up" /\ Len(new.wq) = 0
  BY EntryType DEF Blank, Entry
<1> HIDE DEF new
<1>3. e \in End /\ e[1] = "local" /\ e[2] = id /\ "local" \in Peers
  BY <1>1, Ends DEF Lo, Peers
<1>4. \A f \in End : entry'[f] = IF f = e THEN new ELSE entry[f]
  BY <1>1 DEF SetupInv, TypeOK
<1>5. entry[e].phase = "new"
  <2>1. id >= nextId["local"]
    BY <1>1, IdsType DEF Peers
  <2> QED
    BY <1>3, <2>1 DEF SetupInv, IdsInOrder
<1>6. KeepsData
  <2>1. Socket(id) \in Messages /\ Socket(id).type # "DATA"
    BY <1>1, MessagesType DEF Socket
  <2>2. <<Socket(id)>> \in Seq(Messages) /\ NoData(<<Socket(id)>>)
    BY <2>1, One DEF NoData
  <2> QED
    BY <1>1, <1>3, <2>2, KeptIfSent, Zenon
<1> QED
  BY <1>1, <1>2, <1>3, <1>4, <1>5, <1>6, OpenedGood

LEMMA HandleSocketGood ==
    ASSUME SetupInv, StreamsOK, SetupInv', HandleSocket
    PROVE  Good
<1>1. PICK i \in Ids("local"), ok \in BOOLEAN :
        /\ Receive("remote", Socket(i))
        /\ \/ /\ ok
              /\ entry' = [entry EXCEPT ![Re(nextId["remote"])] =
                                [Blank EXCEPT !.phase = "up", !.rid = i]]
              /\ nextId' = [nextId EXCEPT !["remote"] = nextId["remote"] + 1]
              /\ Handled("remote", <<SocketDone(i, nextId["remote"])>>)
           \/ /\ ~ok /\ Handled("remote", <<SocketDone(i, 0)>>)
              /\ UNCHANGED <<entry, nextId>>
        /\ UNCHANGED <<taken, given, links>>
  BY DEF HandleSocket, Re, data
<1> DEFINE id == nextId["remote"]
           rid == IF ok THEN id ELSE 0
           e == Re(id)
           new == [Blank EXCEPT !.phase = "up", !.rid = i]
<1>2. ok => id \in Ids("remote") /\ id \in Nat /\ id >= nextId["remote"]
  <2> SUFFICES ASSUME ok PROVE id \in Ids("remote") /\ id \in Nat /\ id >= nextId["remote"]
    OBVIOUS
  <2>1. id \in Nat /\ nextId'["remote"] = id + 1
    BY <1>1 DEF SetupInv, TypeOK, Peers
  <2>2. id >= FirstId["remote"] /\ id + 1 <= FirstId["remote"] + MaxConn
    BY <2>1, IdsType, ParametersAssumption DEF SetupInv, IdsInOrder, Peers
  <2> QED
    BY <2>1, <2>2, IdsType, ParametersAssumption DEF Peers
<1>3. KeepsData
  <2>1. SocketDone(i, rid) \in Messages /\ SocketDone(i, rid).type # "DATA" /\ Socket(i).type # "DATA"
    BY <1>2, MessagesType DEF Socket, SocketDone
  <2>2. Handled("remote", <<SocketDone(i, rid)>>) /\ "remote" \in Peers
    BY <1>1 DEF Peers
  <2> HIDE DEF rid
  <2>3. <<SocketDone(i, rid)>> \in Seq(Messages) /\ NoData(<<SocketDone(i, rid)>>)
    BY <2>1, One DEF NoData
  <2> QED
    BY <1>1, <2>1, <2>2, <2>3, KeptIfHandled, Zenon
<1>4. CASE ~ok
  <2>1. entry' = entry
    BY <1>1, <1>4
  <2> QED
    BY <1>1, <1>3, <2>1, SameGood
<1>5. CASE ok
  <2>1. new \in Entry /\ new.phase = "up" /\ Len(new.wq) = 0
    <3>1. i \in Nat
      BY IdsType DEF Peers
    <3> QED
      BY <3>1, EntryType DEF Blank, Entry
  <2>2. e \in End /\ e[1] = "remote" /\ e[2] = id
    BY <1>2, <1>5, Ends DEF Re
  <2>3. entry[e].phase = "new"
    BY <1>2, <1>5, <2>2 DEF SetupInv, IdsInOrder
  <2>4. \A f \in End : entry'[f] = IF f = e THEN new ELSE entry[f]
    BY <1>1, <1>5 DEF SetupInv, TypeOK
  <2> HIDE DEF new, e
  <2> QED
    BY <1>1, <1>3, <2>1, <2>2, <2>3, <2>4, OpenedGood
<1> QED
  BY <1>4, <1>5

LEMMA HandleConnectGood ==
    ASSUME SetupInv, StreamsOK, HandleConnect
    PROVE  Good
<1>1. PICK i \in Ids("remote"), from \in Ids("local") :
        /\ Receive("remote", Connect(i, from))
        /\ \/ /\ entry' = [entry EXCEPT ![Re(i)].pending = "connect"]
              /\ Handled("remote", <<>>)
           \/ Handled("remote", <<ConnectDone(from, FALSE)>>) /\ UNCHANGED entry
        /\ UNCHANGED <<taken, given, links>>
  BY DEF HandleConnect, Re, data
<1>2. Connect(i, from).type # "DATA" /\ "remote" \in Peers
  BY DEF Connect, Peers
<1>3. CASE entry' = [entry EXCEPT ![Re(i)].pending = "connect"] /\ Handled("remote", <<>>)
  <2>1. <<>> \in Seq(Messages) /\ NoData(<<>>)
    BY Nothing DEF NoData
  <2>2. KeepsData
    BY <1>1, <1>2, <1>3, <2>1, KeptIfHandled
  <2>3. \A f \in End : entry'[f].phase = entry[f].phase /\ entry'[f].wq = entry[f].wq
    BY <1>3 DEF SetupInv, TypeOK, Entry
  <2> QED
    BY <1>1, <2>2, <2>3, SameGood
<1>4. CASE Handled("remote", <<ConnectDone(from, FALSE)>>) /\ UNCHANGED entry
  <2>1. ConnectDone(from, FALSE) \in Messages /\ ConnectDone(from, FALSE).type # "DATA"
    BY MessagesType DEF ConnectDone
  <2>2. <<ConnectDone(from, FALSE)>> \in Seq(Messages) /\ NoData(<<ConnectDone(from, FALSE)>>)
    BY <2>1, One DEF NoData
  <2>3. KeepsData
    BY <1>1, <1>2, <1>4, <2>2, KeptIfHandled, Zenon
  <2>4. entry' = entry
    BY <1>4
  <2> QED
    BY <1>1, <2>3, <2>4, SameGood
<1> QED
  BY <1>1, <1>3, <1>4

LEMMA ConnectLocalDoneGood ==
    ASSUME SetupInv, StreamsOK, NEW e \in End, NEW ok \in BOOLEAN, ConnectLocalDone(e, ok)
    PROVE  Good
<1> DEFINE m == ConnectDone(entry[e].rid, ok)
<1>1. /\ Up(e) /\ entry[e].pending = "connect"
      /\ entry' = [entry EXCEPT ![e].pending = "none", ![e].io = @ \/ ok, ![e].reading = @ \/ ok]
      /\ Send(e[1], <<m>>)
      /\ UNCHANGED <<taken, given, links>>
  BY DEF ConnectLocalDone, data
<1>2. \A f \in End : entry'[f].phase = entry[f].phase /\ entry'[f].wq = entry[f].wq
  BY <1>1 DEF SetupInv, TypeOK, Entry
<1>3. m \in Messages /\ m.type # "DATA"
  <2>1. entry[e].rid \in Ids("local")
    <3>1. CASE e[1] = "local"
      <4>1. PICK j \in Ids("local") : e = Lo(j)
        BY <3>1, Ends DEF Lo
      <4> QED
        BY <1>1, <4>1 DEF SetupInv, LocalOK, LocalEntryOK
    <3>2. CASE e[1] = "remote"
      <4>1. PICK r \in Ids("remote") : e = Re(r)
        BY <3>2, Ends DEF Re
      <4> QED
        BY <1>1, <4>1 DEF SetupInv, RemoteOK
    <3> QED
      BY <3>1, <3>2, Ends DEF Peers
  <2> QED
    BY <2>1, MessagesType DEF ConnectDone
<1> HIDE DEF m
<1>4. <<m>> \in Seq(Messages) /\ NoData(<<m>>)
  BY <1>3, One DEF NoData
<1>5. KeepsData
  BY <1>1, <1>4, Ends, KeptIfSent, Zenon
<1> QED
  BY <1>1, <1>2, <1>5, SameGood

LEMMA ConnectRemoteDoneGood ==
    ASSUME SetupInv, StreamsOK, ConnectRemoteDone
    PROVE  Good
<1>1. PICK i \in Ids("local"), ok \in BOOLEAN :
        /\ Receive("local", ConnectDone(i, ok))
        /\ \/ ~Up(Lo(i)) /\ Handled("local", <<>>) /\ UNCHANGED <<entry, cause>>
           \/ /\ Up(Lo(i)) /\ ok
              /\ entry' = [entry EXCEPT ![Lo(i)].reading = TRUE, ![Lo(i)].pending = "none"]
              /\ Handled("local", <<>>)
           \/ Up(Lo(i)) /\ Dispose(Lo(i), "error") /\ Handled("local", Closing(Lo(i)))
        /\ UNCHANGED <<taken, given, links>>
  BY DEF ConnectRemoteDone, Lo, data
<1> DEFINE e == Lo(i)
<1>2. e \in End /\ "local" \in Peers /\ ConnectDone(i, ok).type # "DATA"
      /\ <<>> \in Seq(Messages) /\ NoData(<<>>)
  BY Ends, Nothing DEF Peers, NoData, ConnectDone
<1>3. CASE Up(e) /\ Dispose(e, "error") /\ Handled("local", Closing(e))
  <2>1. Closing(e) \in Seq(Messages) /\ NoData(Closing(e))
    BY <1>2, <1>3, ClosingEnds DEF NoData, Ending
  <2>2. KeepsData
    BY <1>1, <1>2, <1>3, <2>1, KeptIfHandled
  <2> QED
    BY <1>1, <1>2, <1>3, <2>2, DisposedGood
<1>4. CASE /\ Handled("local", <<>>)
           /\ \/ UNCHANGED entry
              \/ entry' = [entry EXCEPT ![e].reading = TRUE, ![e].pending = "none"]
  <2>1. KeepsData
    BY <1>1, <1>2, <1>4, KeptIfHandled
  <2>2. \A f \in End : entry'[f].phase = entry[f].phase /\ entry'[f].wq = entry[f].wq
    <3>1. CASE UNCHANGED entry
      BY <3>1
    <3>2. CASE entry' = [entry EXCEPT ![e].reading = TRUE, ![e].pending = "none"]
      BY <3>2 DEF SetupInv, TypeOK, Entry
    <3> QED
      BY <1>4, <3>1, <3>2
  <2> QED
    BY <1>1, <2>1, <2>2, SameGood
<1> QED
  BY <1>1, <1>3, <1>4

LEMMA SocketCreatedGood ==
    ASSUME SetupInv, StreamsOK, SetupInv', SocketCreated
    PROVE  Good
<1>1. PICK i \in Ids("local"), rid \in Ids("remote") \cup {0} :
        /\ Receive("local", SocketDone(i, rid))
        /\ \/ ~Up(Lo(i)) /\ Handled("local", <<>>) /\ UNCHANGED <<entry, links, cause>>
           \/ /\ Up(Lo(i)) /\ rid # 0
              /\ entry' = [entry EXCEPT ![Lo(i)].rid = rid, ![Lo(i)].pending = "CONNECT"]
              /\ links' = links \cup {<<i, rid>>}
              /\ Handled("local", <<Connect(rid, i)>>)
           \/ Up(Lo(i)) /\ rid = 0 /\ Dispose(Lo(i), "error") /\ Handled("local", <<>>) /\ UNCHANGED links
        /\ UNCHANGED <<taken, given>>
  BY DEF SocketCreated, Lo, data
<1> DEFINE e == Lo(i)
<1>2. e \in End /\ "local" \in Peers /\ SocketDone(i, rid).type # "DATA"
      /\ <<>> \in Seq(Messages) /\ NoData(<<>>)
  BY Ends, Nothing DEF Peers, NoData, SocketDone
<1>3. CASE Handled("local", <<>>) /\ UNCHANGED <<entry, links>>
  <2>1. KeepsData
    BY <1>1, <1>2, <1>3, KeptIfHandled
  <2> QED
    BY <1>1, <1>3, <2>1, SameGood
<1>4. CASE Up(e) /\ Dispose(e, "error") /\ Handled("local", <<>>) /\ UNCHANGED links
  <2>1. KeepsData
    BY <1>1, <1>2, <1>4, KeptIfHandled
  <2> QED
    BY <1>1, <1>2, <1>4, <2>1, DisposedGood
<1>5. CASE /\ Up(e) /\ rid # 0
           /\ entry' = [entry EXCEPT ![e].rid = rid, ![e].pending = "CONNECT"]
           /\ links' = links \cup {<<i, rid>>}
           /\ Handled("local", <<Connect(rid, i)>>)
  <2> DEFINE f == Re(rid)
  <2>1. rid \in Ids("remote") /\ f \in End
    BY <1>5, Ends
  <2>2. links' = links \cup {<<i, rid>>} /\ taken' = taken /\ given' = given
    BY <1>1, <1>5
  <2>3. \A g \in End : entry'[g].phase = entry[g].phase /\ entry'[g].wq = entry[g].wq
    BY <1>5 DEF SetupInv, TypeOK, Entry
  <2>4. KeepsData
    <3>1. Connect(rid, i) \in Messages /\ Connect(rid, i).type # "DATA"
      BY <2>1, MessagesType DEF Connect
    <3>2. <<Connect(rid, i)>> \in Seq(Messages) /\ NoData(<<Connect(rid, i)>>)
      BY <3>1, One DEF NoData
    <3> QED
      BY <1>1, <1>2, <1>5, <3>2, KeptIfHandled, Zenon
  <2>5. SocketDone(i, rid) \in Msgs("local")
    BY <1>1, <1>2 DEF Receive, Msgs, SetupInv, TypeOK
  <2>6. Pair(i, rid) /\ entry[e].pending = "SOCKET" /\ rid < nextId["remote"]
    BY <1>5, <2>1, <2>5 DEF SetupInv, SocketDoneOK, PairsMatch, Pair
  <2>7. /\ \A r \in Ids("remote") : <<i, r>> \notin links
        /\ \A j \in Ids("local") : <<j, rid>> \notin links
    <3>1. \A r \in Ids("remote") : <<i, r>> \notin links
      BY <1>5, <2>6 DEF SetupInv, LocalOK, LocalEntryOK
    <3>2. ASSUME NEW j \in Ids("local"), <<j, rid>> \in links PROVE FALSE
      <4>1. Pair(j, rid)
        BY <3>2 DEF Pair
      <4>2. j = i
        BY <2>1, <2>6, <4>1 DEF SetupInv, PairsMatch
      <4> QED
        BY <2>1, <3>1, <3>2, <4>2
    <3> QED
      BY <3>1, <3>2
  <2>8. \A g, h \in End : Linked(g, h)' <=> Linked(g, h) \/ (g = e /\ h = f) \/ (g = f /\ h = e)
    BY <2>1, <2>2, Ends DEF Linked, Lo, Re
  <2>9. (\A h \in End : ~Linked(e, h)) /\ (\A h \in End : ~Linked(f, h))
    BY <2>1, <2>7, Ends DEF Linked, Lo, Re
  <2>10. /\ taken[e] = 0 /\ Len(given[e]) = 0 /\ Len(entry[e].wq) = 0
         /\ taken[f] = 0 /\ Len(given[f]) = 0 /\ Len(entry[f].wq) = 0
    BY <1>2, <2>1, <2>9 DEF StreamsOK
  <2>11. ASSUME NEW g \in {e, f}, NEW h \in {e, f}
         PROVE  Stream(g, h)'
    <3>1. /\ g \in End /\ h \in End /\ taken[h] = 0 /\ Len(given[g]) = 0 /\ Len(entry[g].wq) = 0
          /\ \A x \in End : ~Linked(g, x)
      BY <1>2, <2>1, <2>9, <2>10
    <3>2. entry[g].wq \in Seq(Buffer) /\ chan[g[1]] \in Seq(Messages) /\ g[1] \in Peers /\ g[2] \in Ids(g[1])
      BY <3>1, Ends DEF SetupInv, TypeOK, Entry
    <3>3. Queued(entry[g].wq, 0, 0, 0)
      BY <3>1, <3>2, QueuedNone
    <3>4. OnWay(chan[g[1]], g[2], 0, 0)
      <4>1. \A x \in Of(chan[g[1]]) : ~IsData(x, g[2])
        BY <3>1, <3>2, DataLinked DEF Of, Msgs
      <4> QED
        BY <3>2, <4>1, OnWayNone
    <3>5. OnWay(chan'[g[1]], g[2], 0, 0)
      BY <2>4, <3>2, <3>4 DEF KeepsData
    <3>6. entry'[g].wq = entry[g].wq /\ Len(given'[g]) = 0 /\ taken'[h] = 0
      BY <2>2, <2>3, <3>1
    <3>7. 0 \in 0 .. taken'[h]
      BY <3>6
    <3> QED
      BY <3>3, <3>5, <3>6, <3>7 DEF Stream
  <2>12. ASSUME NEW g \in End, NEW h \in End, Linked(g, h), Up(g)
         PROVE  Stream(g, h)'
    <3>1. Stream(g, h)
      BY <2>12 DEF StreamsOK
    <3>2. PICK x \in 0 .. taken[h] :
            /\ Queued(entry[g].wq, Len(given[g]), x, taken[h])
            /\ OnWay(chan[g[1]], g[2], x, taken[h])
      BY <3>1 DEF Stream
    <3>3. taken[h] \in Nat /\ x \in Nat /\ g[1] \in Peers /\ g[2] \in Ids(g[1])
      BY Ends DEF SetupInv, TypeOK
    <3>4. OnWay(chan'[g[1]], g[2], x, taken[h])
      BY <2>4, <3>2, <3>3 DEF KeepsData
    <3> QED
      BY <2>2, <2>3, <3>2, <3>4 DEF Stream
  <2>13. StreamsOK'
    <3>1. \A g \in End : Up(g)' = Up(g)
      BY <2>3 DEF Up
    <3>2. \A g, h \in End : Linked(g, h)' /\ Up(g)' => Stream(g, h)'
      BY <2>8, <2>11, <2>12, <3>1
    <3>3. ASSUME NEW g \in End, \A h \in End : ~Linked(g, h)'
          PROVE  taken'[g] = 0 /\ Len(given'[g]) = 0 /\ Len(entry'[g].wq) = 0
      <4>1. taken[g] = 0 /\ Len(given[g]) = 0 /\ Len(entry[g].wq) = 0
        BY <2>8, <3>3 DEF StreamsOK
      <4> QED
        BY <2>2, <2>3, <4>1
    <3> QED
      BY <3>2, <3>3 DEF StreamsOK
  <2>14. PipeStep
    <3> DEFINE phase == [g \in End |-> entry[g].phase]
    <3>1. phase' = phase
      BY <2>3
    <3>2. phase[<<"local", i>>] = "up" /\ phase[<<"remote", rid>>] # "new"
      <4>1. phase[e] = "up"
        BY <1>2, <1>5 DEF Up
      <4>2. entry[f].phase # "new"
        <5>1. f[1] = "remote" /\ f[2] = rid
          BY DEF Re
        <5>2. ~(rid >= nextId["remote"])
          BY <2>1, <2>6, IdsType DEF SetupInv, TypeOK, Peers
        <5> QED
          BY <2>1, <5>1, <5>2 DEF SetupInv, IdsInOrder
      <4> QED
        BY <2>1, <4>1, <4>2 DEF Lo, Re
    <3>3. \A l \in links : l[1] # i /\ l[2] # rid
      <4>1. \A l \in links : l[1] \in Ids("local") /\ l[2] \in Ids("remote") /\ l = <<l[1], l[2]>>
        BY DEF SetupInv, TypeOK
      <4> QED
        BY <2>7, <4>1
    <3>4. Pipe!Link(i, rid)
      <4> HIDE DEF phase
      <4> QED
        BY <2>2, <3>1, <3>2, <3>3 DEF Pipe!Link, phase
    <3>5. Pipe!Next
      BY <2>1, <3>4 DEF Pipe!Next
    <3> QED
      BY <3>5 DEF PipeStep
  <2> QED
    BY <2>13, <2>14 DEF Good
<1> QED
  BY <1>1, <1>3, <1>4, <1>5

LEMMA StreamTypes ==
    ASSUME SetupInv, NEW g \in End, NEW h \in End, NEW x \in 0 .. taken[h]
    PROVE  /\ taken[h] \in Nat /\ x \in Nat /\ g[1] \in Peers /\ g[2] \in Ids(g[1])
           /\ entry[g].wq \in Seq(Buffer) /\ Len(given[g]) \in Nat
<1>1. taken[h] \in 0 .. MaxBytes /\ entry[g] \in Entry /\ given[g] \in Seq(1 .. MaxBytes)
  BY DEF SetupInv, TypeOK
<1>2. entry[g].wq \in Seq(Buffer)
  BY <1>1 DEF Entry
<1>3. taken[h] \in Nat /\ x \in Nat
  BY <1>1, ParametersAssumption
<1>4. Len(given[g]) \in Nat
  BY <1>1
<1> QED
  BY <1>2, <1>3, <1>4, Ends

LEMMA LinkedMates ==
    ASSUME NEW e \in End, NEW f \in End, Linked(e, f)
    PROVE  Pipe!Mates(e, f)
<1>1. CASE e[1] = "local" /\ f[1] = "remote" /\ <<e[2], f[2]>> \in links
  <2>1. {e, f} = {<<"local", e[2]>>, <<"remote", f[2]>>}
    BY <1>1, Ends
  <2> DEFINE l == <<e[2], f[2]>>
  <2>2. l \in links /\ l[1] = e[2] /\ l[2] = f[2]
    BY <1>1
  <2> HIDE DEF l
  <2> QED
    BY <2>1, <2>2 DEF Pipe!Mates
<1>2. CASE e[1] = "remote" /\ f[1] = "local" /\ <<f[2], e[2]>> \in links
  <2>1. {e, f} = {<<"local", f[2]>>, <<"remote", e[2]>>}
    BY <1>2, Ends
  <2> DEFINE l == <<f[2], e[2]>>
  <2>2. l \in links /\ l[1] = f[2] /\ l[2] = e[2]
    BY <1>2
  <2> HIDE DEF l
  <2> QED
    BY <2>1, <2>2 DEF Pipe!Mates
<1> QED
  BY <1>1, <1>2 DEF Linked

LEMMA ReadGood ==
    ASSUME SetupInv, StreamsOK, NEW e \in End, NEW n \in 1 .. MaxBytes, Read(e, n)
    PROVE  Good
<1> DEFINE rid == entry[e].rid
           p == e[1]
           q == Other(p)
           f == <<q, rid>>
           t == taken[e]
           m == Data(rid, t + 1, t + n)
<1>1. /\ Up(e) /\ entry[e].reading /\ t + n <= MaxBytes
      /\ taken' = [taken EXCEPT ![e] = @ + n]
      /\ Send(p, <<m>>)
      /\ UNCHANGED <<entry, given, links>>
  BY DEF Read
<1>2. p \in Peers /\ q \in Peers /\ Peers = {p, q} /\ p # q
  BY Ends DEF Other, Peers
<1>3. f \in End /\ Linked(e, f) /\ Linked(f, e)
  <2>1. /\ rid \in Ids(q)
        /\ \/ p = "local" /\ <<e[2], rid>> \in links
           \/ p = "remote" /\ <<rid, e[2]>> \in links
    BY <1>1, ReadingEntry
  <2> QED
    BY <1>2, <2>1, Ends DEF Linked, Other
<1>4. t \in Nat /\ n \in Nat /\ n >= 1 /\ t + n \in Nat /\ t <= t + n /\ taken \in [End -> 0 .. MaxBytes]
  BY ParametersAssumption DEF SetupInv, TypeOK
<1>5. m \in Messages /\ IsData(m, rid) /\ m.lo = t + 1 /\ m.hi = t + n
      /\ \A id : IsData(m, id) => id = rid
  <2>1. t + 1 \in 1 .. MaxBytes /\ t + n \in 1 .. MaxBytes
    BY <1>1, <1>4, ParametersAssumption
  <2> QED
    BY <1>2, <1>3, <2>1, Ends, MessagesType DEF IsData, Data
<1>6. /\ chan'[p] = chan[p] /\ chan'[q] = chan[q] \o <<m>> /\ <<m>> \in Seq(Messages) /\ Of(<<m>>) = {m}
      /\ chan[q] \in Seq(Messages)
  <2>1. <<m>> \in Seq(Messages) /\ Of(<<m>>) = {m}
    BY <1>5, One
  <2>2. chan \in [Peers -> Seq(Messages)] /\ Send(p, <<m>>)
    BY <1>1 DEF SetupInv, TypeOK
  <2> HIDE DEF m
  <2>3. chan'[p] = chan[p] /\ chan'[q] = chan[q] \o <<m>>
    BY <1>2, <2>2 DEF Send
  <2> QED
    BY <1>2, <2>1, <2>2, <2>3
<1>7. entry' = entry /\ given' = given /\ links' = links
  BY <1>1
<1>8. \A g \in End : taken'[g] = IF g = e THEN t + n ELSE taken[g]
  BY <1>1, <1>4
<1>9. \A g, h \in End : (Linked(g, h)' <=> Linked(g, h)) /\ (Up(g)' <=> Up(g))
  BY <1>7 DEF Linked, Up
<1> HIDE DEF m, f, p, q, rid, t
<1>10. ASSUME NEW g \in End, NEW h \in End, Linked(g, h), Up(g)
       PROVE  Stream(g, h)'
  <2>1. PICK x \in 0 .. taken[h] :
            /\ Queued(entry[g].wq, Len(given[g]), x, taken[h])
            /\ OnWay(chan[g[1]], g[2], x, taken[h])
    BY <1>10 DEF StreamsOK, Stream
  <2>2. /\ taken[h] \in Nat /\ x \in Nat /\ g[1] \in Peers /\ g[2] \in Ids(g[1])
        /\ entry[g].wq \in Seq(Buffer) /\ Len(given[g]) \in Nat
    BY StreamTypes
  <2>3. CASE h = e
    <3>1. g = f /\ g[1] = q /\ g[2] = rid
      BY <1>3, <1>10, <2>3, LinkedEnds DEF f
    <3>2. taken[h] = t /\ taken'[h] = t + n
      BY <1>8, <2>3 DEF t
    <3>3. Queued(entry[g].wq, Len(given[g]), x, t + n)
      BY <1>4, <2>1, <2>2, <3>2, QueuedLimit
    <3>4. OnWay(chan[q] \o <<m>>, rid, x, t + n)
      BY <1>4, <1>5, <1>6, <2>1, <2>2, <3>1, <3>2, OnWayData
    <3>5. x \in 0 .. taken'[h]
      BY <1>4, <2>1, <3>2
    <3> QED
      BY <1>6, <1>7, <3>1, <3>2, <3>3, <3>4, <3>5 DEF Stream
  <2>4. CASE h # e
    <3>1. taken'[h] = taken[h]
      BY <1>8, <2>4
    <3>2. OnWay(chan'[g[1]], g[2], x, taken[h])
      <4>1. CASE g[1] = p
        BY <1>6, <2>1, <4>1
      <4>2. CASE g[1] = q
        <5>1. g # f
          BY <1>3, <1>10, <2>4, LinkedEnds
        <5>2. g[2] # rid
          BY <4>2, <5>1, Ends DEF f
        <5>3. \A y \in Of(<<m>>) : ~IsData(y, g[2])
          BY <1>5, <1>6, <5>2
        <5> QED
          BY <1>6, <2>1, <2>2, <4>2, <5>3, OnWayOther
      <4> QED
        BY <1>2, <2>2, <4>1, <4>2
    <3> QED
      BY <1>7, <2>1, <3>1, <3>2 DEF Stream
  <2> QED
    BY <2>3, <2>4
<1>11. StreamsOK'
  <2>1. ASSUME NEW g \in End, \A h \in End : ~Linked(g, h)
        PROVE  taken'[g] = 0 /\ Len(given'[g]) = 0 /\ Len(entry'[g].wq) = 0
    <3>1. g # e
      BY <1>3, <2>1
    <3> QED
      BY <1>7, <1>8, <2>1, <3>1 DEF StreamsOK
  <2> QED
    BY <1>9, <1>10, <2>1 DEF StreamsOK
<1>12. PipeStep
  <2> DEFINE phase == [g \in End |-> entry[g].phase]
  <2>1. phase' = phase /\ phase[e] = "up"
    BY <1>1, <1>7 DEF Up
  <2>2. Pipe!Mates(e, f)
    BY <1>3, LinkedMates
  <2>3. Pipe!Take(e, n)
    <3> HIDE DEF phase
    <3> QED
      BY <1>1, <1>3, <1>7, <2>1, <2>2, PipeEnds DEF Pipe!Take, phase, t
  <2>4. Pipe!Next
    BY <2>3, PipeEnds DEF Pipe!Next
  <2> QED
    BY <2>4 DEF PipeStep
<1> QED
  BY <1>11, <1>12 DEF Good

LEMMA HandleDataGood ==
    ASSUME SetupInv, StreamsOK, NEW p \in Peers, HandleData(p)
    PROVE  Good
<1>1. PICK i \in Ids(p), lo \in 1 .. MaxBytes, hi \in 1 .. MaxBytes :
        /\ Receive(p, Data(i, lo, hi))
        /\ entry' = IF Up(<<p, i>>) /\ entry[<<p, i>>].io
                    THEN [entry EXCEPT ![<<p, i>>].wq =
                            Append(@, [lo |-> lo, hi |-> hi, sent |-> 0])]
                    ELSE entry
        /\ Handled(p, <<>>)
        /\ UNCHANGED <<listener, nextId, data, links, cause>>
  BY DEF HandleData
<1> DEFINE e == <<p, i>>
           m == Data(i, lo, hi)
           x == [lo |-> lo, hi |-> hi, sent |-> 0]
           w == Append(entry[e].wq, x)
<1>2. e \in End /\ e[1] = p /\ e[2] = i
  BY Ends
<1>3. m.type = "DATA" /\ m.id = i /\ m.lo = lo /\ m.hi = hi
      /\ x \in Buffer /\ x.lo = lo /\ x.hi = hi /\ x.sent = 0
  BY DEF Data, Buffer
<1>4. /\ chan'[p] = Tail(chan[p]) /\ m \in Msgs(p) /\ m = chan[p][1] /\ chan[p] # <<>>
      /\ chan[p] \in Seq(Messages) /\ chan'[Other(p)] = chan[Other(p)]
      /\ Peers = {p, Other(p)}
  <2>1. Receive(p, m) /\ Handled(p, <<>>) /\ chan \in [Peers -> Seq(Messages)]
        /\ <<>> \in Seq(Messages)
    BY <1>1, Nothing DEF SetupInv, TypeOK
  <2>2. /\ chan'[p] = Tail(chan[p]) /\ m \in Msgs(p) /\ m = chan[p][1]
        /\ chan'[Other(p)] = chan[Other(p)] \o <<>>
    BY ONLY <2>1, HandledStep
  <2>3. Other(p) \in Peers /\ Peers = {p, Other(p)}
    BY DEF Other, Peers
  <2>4. chan[Other(p)] \o <<>> = chan[Other(p)]
    BY <2>1, <2>3
  <2> QED
    BY <2>1, <2>2, <2>3, <2>4 DEF Receive
<1>5. taken' = taken /\ given' = given /\ links' = links
  BY <1>1 DEF data
<1>6. \E f \in End : Linked(e, f)
  BY <1>2, <1>3, <1>4, DataLinked DEF IsData
<1>7. Up(e) => entry[e].io
  <2>1. CASE p = "local"
    BY <2>1 DEF SetupInv, LocalOK, LocalEntryOK, Lo
  <2>2. CASE p = "remote"
    BY <1>4, <2>2 DEF SetupInv, DataOK, Re
  <2> QED
    BY <2>1, <2>2 DEF Peers
<1>8. entry[e].wq \in Seq(Buffer) /\ entry[e] \in Entry /\ w \in Seq(Buffer)
  <2>1. entry[e] \in Entry
    BY <1>2 DEF SetupInv, TypeOK
  <2>2. entry[e].wq \in Seq(Buffer)
    BY <2>1 DEF Entry
  <2> HIDE DEF x
  <2> QED
    BY <1>3, <2>1, <2>2
<1>9. /\ \A g \in End : g # e => entry'[g] = entry[g]
      /\ entry'[e].phase = entry[e].phase
      /\ Up(e) => entry'[e].wq = w
  <2>1. CASE Up(e)
    <3>1. entry' = [entry EXCEPT ![e].wq = w]
      BY <1>1, <1>7, <2>1
    <3>2. entry \in [End -> Entry]
      BY DEF SetupInv, TypeOK
    <3> HIDE DEF w
    <3>3. /\ \A g \in End : g # e => entry'[g] = entry[g]
          /\ entry'[e] = [entry[e] EXCEPT !.wq = w]
      BY <1>2, <3>1, <3>2
    <3>4. [entry[e] EXCEPT !.wq = w].phase = entry[e].phase /\ [entry[e] EXCEPT !.wq = w].wq = w
      BY <1>8 DEF Entry
    <3> QED
      BY <3>3, <3>4
  <2>2. CASE ~Up(e)
    <3>1. entry' = entry
      BY <1>1, <2>2
    <3> QED
      BY <2>2, <3>1
  <2> QED
    BY <2>1, <2>2
<1> HIDE DEF e, m, x
<1>10. \A g \in End : entry'[g].phase = entry[g].phase
  BY <1>9
<1>11. \A g, h \in End : (Linked(g, h)' <=> Linked(g, h)) /\ (Up(g)' <=> Up(g))
  BY <1>5, <1>10 DEF Linked, Up
<1>12. ASSUME NEW g \in End, NEW h \in End, Linked(g, h), Up(g)
       PROVE  Stream(g, h)'
  <2>1. PICK k \in 0 .. taken[h] :
            /\ Queued(entry[g].wq, Len(given[g]), k, taken[h])
            /\ OnWay(chan[g[1]], g[2], k, taken[h])
    BY <1>12 DEF StreamsOK, Stream
  <2>2. /\ taken[h] \in Nat /\ k \in Nat /\ g[1] \in Peers /\ g[2] \in Ids(g[1])
        /\ entry[g].wq \in Seq(Buffer) /\ Len(given[g]) \in Nat
    BY StreamTypes
  <2>3. CASE g = e
    <3>1. IsData(chan[p][1], i) /\ OnWay(chan[p], i, k, taken[h])
      BY <1>2, <1>3, <1>4, <2>1, <2>3 DEF IsData
    <3>2. lo = k + 1 /\ hi \in 0 .. taken[h] /\ OnWay(Tail(chan[p]), i, hi, taken[h])
      BY <1>3, <1>4, <2>2, <3>1, OnWayTail
    <3>3. x.lo + x.sent = k + 1
      BY <1>3, <2>2, <3>2
    <3>4. Queued(Append(entry[e].wq, x), Len(given[e]), hi, taken[h])
      BY <1>3, <2>1, <2>2, <2>3, <3>2, <3>3, QueuedAppend
    <3> QED
      BY <1>2, <1>4, <1>5, <1>9, <1>12, <2>3, <3>2, <3>4 DEF Stream
  <2>4. CASE g # e
    <3>1. OnWay(chan'[g[1]], g[2], k, taken[h])
      <4>1. CASE g[1] = p
        <5>1. g[2] # i
          BY <2>4, <4>1, Ends DEF e
        <5>2. ~IsData(chan[p][1], g[2])
          BY <1>3, <1>4, <5>1 DEF IsData
        <5>3. OnWay(Tail(chan[p]), g[2], k, taken[h])
          BY <1>4, <2>1, <2>2, <4>1, <5>2, OnWayTail
        <5> QED
          BY <1>4, <4>1, <5>3
      <4>2. CASE g[1] # p
        BY <1>4, <2>1, <2>2, <4>2
      <4> QED
        BY <4>1, <4>2
    <3> QED
      BY <1>5, <1>9, <2>1, <2>4, <3>1 DEF Stream
  <2> QED
    BY <2>3, <2>4
<1>13. ASSUME NEW g \in End, \A h \in End : ~Linked(g, h)
       PROVE  taken'[g] = 0 /\ Len(given'[g]) = 0 /\ Len(entry'[g].wq) = 0
  <2>1. g # e
    BY <1>6, <1>13
  <2> QED
    BY <1>5, <1>9, <1>13, <2>1 DEF StreamsOK
<1>14. StreamsOK'
  BY <1>11, <1>12, <1>13 DEF StreamsOK
<1> QED
  BY <1>5, <1>10, <1>14, PipeSame DEF Good

LEMMA WriteGood ==
    ASSUME SetupInv, StreamsOK, NEW e \in End, NEW n \in 1 .. MaxBytes, Write(e, n)
    PROVE  Good
<1> DEFINE q == entry[e].wq
           b == Head(q)
           c == [b EXCEPT !.sent = @ + n]
           w == IF b.lo + b.sent + n - 1 = b.hi THEN Tail(q) ELSE <<c>> \o Tail(q)
           g == Len(given[e])
           new == [k \in 1 .. n |-> b.lo + b.sent + k - 1]
<1>1. /\ Up(e) /\ q # <<>> /\ b.lo + b.sent + n - 1 <= b.hi
      /\ given' = [given EXCEPT ![e] = @ \o new]
      /\ entry' = [entry EXCEPT ![e].wq = w]
      /\ UNCHANGED <<chan, taken, links>>
  BY DEF Write
<1>2. q \in Seq(Buffer) /\ b \in Buffer /\ b = q[1] /\ Tail(q) \in Seq(Buffer) /\ Len(q) # 0
      /\ entry[e] \in Entry /\ given[e] \in Seq(1 .. MaxBytes) /\ g \in Nat
  <2>1. entry[e] \in Entry /\ given[e] \in Seq(1 .. MaxBytes)
    BY DEF SetupInv, TypeOK
  <2>2. q \in Seq(Buffer)
    BY <2>1 DEF Entry
  <2> HIDE DEF q
  <2> QED
    BY <1>1, <2>1, <2>2
<1>3. PICK f \in End : Linked(e, f)
  BY <1>2 DEF StreamsOK
<1>4. PICK h \in 0 .. taken[f] :
        /\ Queued(q, g, h, taken[f])
        /\ OnWay(chan[e[1]], e[2], h, taken[f])
  BY <1>1, <1>3 DEF StreamsOK, Stream
<1>5. taken[f] \in Nat /\ h \in Nat
  BY StreamTypes
<1>6. b.lo \in Nat /\ b.hi \in Nat /\ b.sent \in Nat /\ MaxBytes \in Nat /\ n \in Nat /\ n >= 1
      /\ 1 .. n \subseteq Nat
  BY <1>2, ParametersAssumption DEF Buffer
<1>7. c \in Buffer /\ c.lo = b.lo /\ c.hi = b.hi /\ c.sent = b.sent + n
  <2>1. b \in Buffer /\ b.sent + n \in Nat
    BY <1>2, <1>6
  <2> HIDE DEF b
  <2> QED
    BY <2>1 DEF Buffer
<1> HIDE DEF b, c, q
<1>8. b.lo + b.sent = g + 1 /\ b.hi \in 0 .. taken[f] /\ Queued(Tail(q), b.hi, h, taken[f])
  BY <1>1, <1>2, <1>4, <1>5, QueuedHead
<1> HIDE DEF g
<1>9. g + n <= taken[f] /\ g + n \in Nat
  <2>1. g \in Nat /\ g + n <= b.hi /\ b.hi <= taken[f]
    <3>1. g \in Nat /\ b.hi <= taken[f]
      BY <1>2, <1>8
    <3>2. b.lo + b.sent + n - 1 <= b.hi /\ b.lo + b.sent = g + 1
      BY <1>1, <1>8
    <3> HIDE DEF new, w
    <3> QED
      BY <1>5, <1>6, <3>1, <3>2
  <2> HIDE DEF new, w
  <2> QED
    BY <1>5, <1>6, <2>1
<1>10. new = [k \in 1 .. n |-> g + k]
  <2>1. \A k \in 1 .. n : b.lo + b.sent + k - 1 = g + k
    BY <1>2, <1>6, <1>8
  <2> QED
    BY <2>1
<1>11. new \in Seq(1 .. MaxBytes) /\ Len(new) = n
  <2>1. taken[f] \in 0 .. MaxBytes
    BY DEF SetupInv, TypeOK
  <2>2. \A k \in 1 .. n : g + k \in 1 .. MaxBytes
    BY <1>2, <1>6, <1>9, <2>1
  <2> QED
    BY <1>6, <1>10, <2>2
<1> HIDE DEF new
<1>12. w \in Seq(Buffer) /\ Queued(w, g + n, h, taken[f])
  <2>1. CASE b.lo + b.sent + n - 1 = b.hi
    <3>1. b.hi = g + n /\ w = Tail(q)
      BY <1>2, <1>6, <1>8, <2>1
    <3> QED
      BY <1>2, <1>8, <3>1
  <2>2. CASE b.lo + b.sent + n - 1 # b.hi
    <3>1. w = <<c>> \o Tail(q)
      BY <2>2
    <3>2. c.lo + c.sent = (g + n) + 1
      <4>1. c.lo = b.lo /\ c.sent = b.sent + n /\ b.lo + b.sent = g + 1 /\ g \in Nat
        BY <1>2, <1>7, <1>8
      <4> HIDE DEF w
      <4> QED
        BY <1>6, <4>1
    <3> DEFINE r == Tail(q)
    <3>3. r \in Seq(Buffer) /\ Queued(r, c.hi, h, taken[f])
      BY <1>2, <1>7, <1>8
    <3> HIDE DEF r
    <3>4. <<c>> \o r \in Seq(Buffer) /\ Queued(<<c>> \o r, g + n, h, taken[f])
      BY ONLY <1>5, <1>7, <1>9, <3>2, <3>3, QueuedReplaced, Replaced
    <3> QED
      BY <3>1, <3>4 DEF r
  <2> QED
    BY <2>1, <2>2
<1> HIDE DEF w
<1>13. /\ \A k \in End : k # e => entry'[k] = entry[k] /\ given'[k] = given[k]
       /\ entry'[e].phase = entry[e].phase /\ entry'[e].wq = w
       /\ given'[e] = given[e] \o new /\ Len(given'[e]) = g + n
  <2>1. entry \in [End -> Entry] /\ given \in [End -> Seq(1 .. MaxBytes)]
    BY DEF SetupInv, TypeOK
  <2>2. /\ \A k \in End : k # e => entry'[k] = entry[k] /\ given'[k] = given[k]
        /\ entry'[e] = [entry[e] EXCEPT !.wq = w]
        /\ given'[e] = given[e] \o new
    BY <1>1, <2>1
  <2>3. [entry[e] EXCEPT !.wq = w].phase = entry[e].phase /\ [entry[e] EXCEPT !.wq = w].wq = w
    BY <1>2 DEF Entry
  <2>4. Len(given[e] \o new) = g + n
    BY <1>2, <1>11, Concatenated DEF g
  <2> QED
    BY <2>2, <2>3, <2>4
<1>14. chan' = chan /\ taken' = taken /\ links' = links
  BY <1>1
<1>15. \A k \in End : entry'[k].phase = entry[k].phase
  BY <1>13
<1>16. \A k, l \in End : (Linked(k, l)' <=> Linked(k, l)) /\ (Up(k)' <=> Up(k))
  BY <1>14, <1>15 DEF Linked, Up
<1>17. ASSUME NEW k \in End, NEW l \in End, Linked(k, l), Up(k)
       PROVE  Stream(k, l)'
  <2>1. CASE k = e
    <3>1. l = f
      BY <1>3, <1>17, <2>1, LinkedEnds
    <3> QED
      BY <1>4, <1>12, <1>13, <1>14, <2>1, <3>1 DEF Stream
  <2>2. CASE k # e
    <3>1. Stream(k, l)
      BY <1>17 DEF StreamsOK
    <3> QED
      BY <1>13, <1>14, <2>2, <3>1 DEF Stream
  <2> QED
    BY <2>1, <2>2
<1>18. ASSUME NEW k \in End, \A l \in End : ~Linked(k, l)
       PROVE  taken'[k] = 0 /\ Len(given'[k]) = 0 /\ Len(entry'[k].wq) = 0
  <2>1. k # e
    BY <1>3, <1>18
  <2> QED
    BY <1>13, <1>14, <1>18, <2>1 DEF StreamsOK
<1>19. StreamsOK'
  BY <1>16, <1>17, <1>18 DEF StreamsOK
<1>20. PipeStep
  <2> DEFINE phase == [k \in End |-> entry[k].phase]
  <2>1. phase' = phase /\ phase[e] = "up"
    BY <1>1, <1>15 DEF Up
  <2>2. Pipe!Mates(e, f)
    BY <1>3, LinkedMates
  <2>3. given' = [given EXCEPT ![e] = @ \o [k \in 1 .. n |-> Len(given[e]) + k]]
    BY <1>1, <1>10 DEF g
  <2>4. Len(given[e]) + n <= taken[f]
    BY <1>9 DEF g
  <2>5. Pipe!Give(e, n)
    <3> HIDE DEF phase
    <3> QED
      BY <1>14, <2>1, <2>2, <2>3, <2>4, PipeEnds DEF Pipe!Give, phase
  <2>6. Pipe!Next
    BY <2>5, PipeEnds DEF Pipe!Next
  <2> QED
    BY <2>6 DEF PipeStep
<1> QED
  BY <1>19, <1>20 DEF Good

-----------------------------------------------------------------------------
(* Every behaviour *)

LEMMA InitStreams == Init => StreamsOK /\ Pipe!Init
<1> SUFFICES ASSUME Init PROVE StreamsOK /\ Pipe!Init
  OBVIOUS
<1>1. \A e \in End : ~Up(e) /\ entry[e].phase = "new" /\ Len(entry[e].wq) = 0
  BY EntryType DEF Init, Up
<1>2. \A e \in End : taken[e] = 0 /\ Len(given[e]) = 0
  BY DEF Init
<1>3. StreamsOK
  BY <1>1, <1>2 DEF StreamsOK
<1>4. [e \in End |-> entry[e].phase] = [e \in End |-> "new"]
  BY <1>1
<1>5. Pipe!Init
  BY <1>4, PipeEnds DEF Init, Pipe!Init
<1> QED
  BY <1>3, <1>5

LEMMA StutterGood ==
    ASSUME SetupInv, StreamsOK, UNCHANGED vars
    PROVE  Good
<1>1. chan' = chan /\ entry' = entry /\ UNCHANGED <<taken, given, links>>
  BY DEF vars, data
<1>2. KeepsData
  BY <1>1 DEF KeepsData
<1> QED
  BY <1>1, <1>2, SameGood

LEMMA NextGood ==
    ASSUME SetupInv, StreamsOK, [Next]_vars
    PROVE  Good
<1>1. SetupInv'
  BY NextSetup
<1>2. CASE Deliver
  <2>1. ASSUME NEW p \in Peers, HandleData(p) \/ DataFailed(p) \/ HandleClose(p) PROVE Good
    BY <2>1, HandleDataGood, DataFailedGood, HandleCloseGood
  <2> QED
    BY <1>1, <1>2, <2>1, HandleSocketGood, SocketCreatedGood, HandleConnectGood,
       ConnectRemoteDoneGood DEF Deliver
<1>3. CASE ConnectionAccepted \/ AcceptError \/ RemoveListener
  BY <1>3, ConnectionAcceptedGood, ListenerGood
<1>4. ASSUME NEW e \in End,
             \/ \E ok \in BOOLEAN : ConnectLocalDone(e, ok)
             \/ \E n \in 1 .. MaxBytes : Read(e, n) \/ Write(e, n)
             \/ WriteError(e)
      PROVE  Good
  BY <1>4, ConnectLocalDoneGood, ReadGood, WriteGood, WriteErrorGood
<1>5. ASSUME NEW e \in End, EndOfFile(e) \/ Hangup(e) \/ RemoveConnection(e)
      PROVE  Good
  BY <1>5, RemoveGood DEF EndOfFile, Hangup, RemoveConnection
<1>6. CASE UNCHANGED vars
  BY <1>6, StutterGood
<1> QED
  BY <1>2, <1>3, <1>4, <1>5, <1>6 DEF Next

\* The bytes between the applications are where they should be: for two linked
\* entries, what one side has been given, what waits in the write queue of its
\* socket and the DATA calls on their way to it make up, without gap or
\* overlap, exactly what the other side has sent.
THEOREM StreamsWhole == Spec => []StreamsOK
<1>1. SetupInv /\ StreamsOK /\ [Next]_vars => StreamsOK'
  BY NextGood DEF Good
<1>2. Init => StreamsOK
  BY InitStreams
<1> QED
  BY <1>1, <1>2, SetupInvariant, PTL DEF Spec

\* The connections implement the pipe of StreamPipe.
THEOREM ImplementsPipe == Spec => PipeSpec
<1>1. Init => Pipe!Init
  BY InitStreams
<1>2. SetupInv /\ StreamsOK /\ [Next]_vars => [Pipe!Next]_(Pipe!vars)
  BY NextGood DEF Good, PipeStep
<1> QED
  BY <1>1, <1>2, SetupInvariant, StreamsWhole, PTL DEF Spec, PipeSpec, Pipe!Spec

=============================================================================
