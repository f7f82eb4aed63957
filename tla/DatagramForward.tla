----------------------------- MODULE DatagramForward -----------------------------
(***************************************************************************)
(* Local forwarding of datagrams.  The forwarder at the near peer          *)
(* (fwd_entry_datagram_forward_local.c) makes a connection                 *)
(* (fwd_entry_datagram_connection.c) for each source address.  A           *)
(* connection has its own socket at the far peer                           *)
(* (fwd_entry_datagram_socket.c), made by SOCKET and told the target by    *)
(* CONNECT; packets travel in DATA, both ways.                             *)
(*                                                                         *)
(* A connection that is touched expires after those that have been touched *)
(* before, so the expiry times are kept as an order.  A packet written to  *)
(* a local socket is sent or refused at once.                              *)
(***************************************************************************)
EXTENDS Integers, Sequences, SequencesExt, Functions, FiniteSets, Transport

CONSTANTS
    Addresses,   \* source addresses of packets
    ConnLimit,   \* conn_limit: the connections that the forwarder may keep
    MaxId,       \* bound: connections made, and sockets made for them
    MaxPackets,  \* bound: packets that the forwarder receives
    MaxReplies   \* bound: packets that the far sockets receive

ASSUME ForwardAssumption ==
    /\ {ConnLimit, MaxId} \subseteq Nat \ {0}
    /\ {MaxPackets, MaxReplies} \subseteq Nat

Ids == 1 .. MaxId

VARIABLES
    up,       \* the forwarder is in the table of its peer
    conns,    \* addr_map: the connections by source address
    idMap,    \* id_map: their addresses by id
    order,    \* the addresses of the connections, the next to expire first
    timer,    \* inactivity_timer_id: is the timer armed?
    socks,    \* the sockets at the far peer by id
    origin,   \* history: the source address of each connection made
    mate,     \* history: the connection for which each far socket was made
    known,    \* history: far sockets whose connections have learnt of them
    taken,    \* history: the number of packets received at each side
    given     \* history: what was sent to the target and to the addresses

near == <<up, conns, idMap, order, timer, origin>>
far == <<socks, mate>>
history == <<known, taken, given>>
vars == <<near, far, history, chan>>

Packet == [from : Addresses, n : 1 .. MaxPackets]
Reply == [from : Ids, n : 1 .. MaxReplies]

\* rid: the id of the far socket, 0 until SOCKET is answered; setup: the answer
\* that is awaited (init_id), after which the packets in q are gone.
Connection == [id : Ids, rid : 0 .. MaxId, q : Seq(Packet),
               setup : {"socket", "connect", "done"}]
\* rid: the connection, 0 once that has told of its end; to: is there a target?
FarSocket == [rid : Ids, to : BOOLEAN]

Socket(i) == [type |-> "SOCKET", id |-> i]
SocketDone(i, s) == [type |-> "SOCKET_done", id |-> i, rid |-> s]
Connect(s) == [type |-> "CONNECT", id |-> s]
ConnectDone(s, ok) == [type |-> "CONNECT_done", id |-> s, ok |-> ok]
Data(id, p) == [type |-> "DATA", id |-> id, packet |-> p]
DataError(s) == [type |-> "DATA_error", id |-> s]
Close(id) == [type |-> "CLOSE", id |-> id]

-----------------------------------------------------------------------------
(* The near peer: the inactivity timer, and how connections go *)

\* The messages by which the connections of the addresses as tell of their end
\* (fwd_entry_datagram_connection_dispose), in any order, that of a hash table.
Closing(as) ==
    SetToSeqs({Close(conns[a].rid) : a \in {x \in as : conns[x].rid # 0}})

\* Variant with a defect: id_map keeps the connections.
ForgetAddressOnly(as) ==
    /\ conns' = Restrict(conns, DOMAIN conns \ as)
    /\ UNCHANGED idMap

\* Connections leave the table and, by way of entry_removed, both maps.
Forget(as) ==
    /\ conns' = Restrict(conns, DOMAIN conns \ as)
    /\ idMap' = Restrict(idMap, DOMAIN idMap \ {conns[a].id : a \in as})

Without(a) == RemoveAt(order, CHOOSE i \in DOMAIN order : order[i] = a)

\* One connection goes.
ForgetOne(a) == Forget({a}) /\ order' = Without(a)

\* fwd_entry_datagram_connection_touch
Touched(a) == Append(Without(a), a)

\* schedule_inactivity_check
Schedule(cs) == timer \/ DOMAIN cs # {}

\* fwd_entry_datagram_connection_expire: the connections that have been silent
\* for longest, any number of them, have expired.
Expire ==
    \E k \in 0 .. Len(order) :
        LET expired == {a \in DOMAIN conns : \E i \in 1 .. k : order[i] = a} IN
        /\ Forget(expired)
        /\ order' = SubSeq(order, k + 1, Len(order))
        /\ \E closing \in Closing(expired) : Send("near", closing)

\* Variant with a defect: the timer is not armed again.
TimerFiresOnce ==
    /\ timer
    /\ Expire
    /\ timer' = FALSE
    /\ UNCHANGED <<up, origin, far, history>>

\* inactivity_check_func
TimerFires ==
    /\ timer
    /\ Expire
    /\ timer' = (DOMAIN conns' # {})
    /\ UNCHANGED <<up, origin, far, history>>

\* A connection is removed through the API.
RemoveConnection(a) ==
    /\ a \in DOMAIN conns
    /\ ForgetOne(a)
    /\ \E closing \in Closing({a}) : Send("near", closing)
    /\ UNCHANGED <<up, timer, origin, far, history>>

\* The forwarder goes, by an I/O error or through the API, with its connections.
RemoveForwarder ==
    /\ up
    /\ up' = FALSE
    /\ Forget(DOMAIN conns) /\ order' = <<>>
    /\ timer' = FALSE
    /\ \E closing \in Closing(DOMAIN conns) : Send("near", closing)
    /\ UNCHANGED <<origin, far, history>>

-----------------------------------------------------------------------------
(* The near peer: packets *)

Arrives(a) ==
    /\ up /\ taken.there < MaxPackets
    /\ taken' = [taken EXCEPT !.there = @ + 1]
Arrived(a) == [from |-> a, n |-> taken.there + 1]

\* Variant with a defect: the packet is sent and held back.
ReceiveKnownTwice(a) ==
    /\ Arrives(a) /\ a \in DOMAIN conns
    /\ conns' = [conns EXCEPT ![a].q =
                    IF conns[a].setup = "done" THEN @ ELSE Append(@, Arrived(a))]
    /\ IF conns[a].rid # 0
       THEN /\ Send("near", <<Data(conns[a].rid, Arrived(a))>>)
            /\ order' = Touched(a)
            /\ timer' = Schedule(conns)
       ELSE UNCHANGED <<chan, order, timer>>
    /\ UNCHANGED <<up, idMap, origin, far, known, given>>

\* io_receive for an address that has a connection: held back until there is a
\* far socket, sent after that, even before what is still held back.
ReceiveKnown(a) ==
    /\ Arrives(a) /\ a \in DOMAIN conns
    /\ IF conns[a].rid # 0
       THEN /\ Send("near", <<Data(conns[a].rid, Arrived(a))>>)
            /\ order' = Touched(a)
            /\ timer' = Schedule(conns)
            /\ UNCHANGED conns
       ELSE /\ conns' = [conns EXCEPT ![a].q = Append(@, Arrived(a))]
            /\ UNCHANGED <<chan, order, timer>>
    /\ UNCHANGED <<up, idMap, origin, far, known, given>>

\* fwd_entry_datagram_connection_new_local, with the packet that it is made for
NewConnection(i, p) == [id |-> i, rid |-> 0, q |-> <<p>>, setup |-> "socket"]

\* fwd_entry_datagram_connection_drop_oldest, if there are too many of them
Oldest ==
    {a \in DOMAIN conns : Cardinality(DOMAIN conns) >= ConnLimit /\ a = Head(order)}

\* io_receive for a new address.  The connection looks at the timer before it
\* is in addr_map; the oldest one goes if there are too many; SOCKET is called
\* last.
ReceiveNew(a) ==
    LET i == Len(origin) + 1
        old == Oldest
        new == NewConnection(i, Arrived(a))
    IN
    /\ Arrives(a) /\ a \notin DOMAIN conns /\ i <= MaxId
    /\ timer' = Schedule(conns)
    /\ conns' = [x \in (DOMAIN conns \ old) \cup {a} |-> IF x = a THEN new ELSE conns[x]]
    /\ idMap' = [x \in (DOMAIN idMap \ {conns[o].id : o \in old}) \cup {i} |->
                    IF x = i THEN a ELSE idMap[x]]
    /\ order' = Append(IF old = {} THEN order ELSE Tail(order), a)
    /\ origin' = Append(origin, a)
    /\ \E closing \in Closing(old) : Send("near", Append(closing, Socket(i)))
    /\ UNCHANGED <<up, far, known, given>>

\* Variant with a defect: what was held back is sent ahead of CONNECT.
SocketCreatedSendsFirst ==
    \E i \in Ids, s \in Ids :
        /\ Receive("near", SocketDone(i, s))
        /\ i \in DOMAIN idMap
        /\ LET held == conns[idMap[i]].q IN
            /\ conns' = [conns EXCEPT ![idMap[i]].rid = s, ![idMap[i]].q = <<>>,
                                      ![idMap[i]].setup = "connect"]
            /\ Handled("near", [k \in DOMAIN held |-> Data(s, held[k])]
                               \o <<Connect(s)>>)
        /\ known' = known \cup {s}
        /\ UNCHANGED <<up, idMap, order, timer, origin, far, taken, given>>

\* fwd_entry_datagram_connection_socket_created; nothing for a connection that
\* is gone, its call was cancelled.
SocketCreated ==
    \E i \in Ids, s \in 0 .. MaxId :
        /\ Receive("near", SocketDone(i, s))
        /\ \/ /\ i \notin DOMAIN idMap
              /\ Handled("near", <<>>)
              /\ UNCHANGED <<conns, idMap, order, known>>
           \/ /\ i \in DOMAIN idMap /\ s = 0
              /\ ForgetOne(idMap[i])
              /\ Handled("near", <<>>)
              /\ UNCHANGED known
           \/ /\ i \in DOMAIN idMap /\ s # 0
              /\ conns' = [conns EXCEPT ![idMap[i]].rid = s,
                                        ![idMap[i]].setup = "connect"]
              /\ known' = known \cup {s}
              /\ Handled("near", <<Connect(s)>>)
              /\ UNCHANGED <<idMap, order>>
        /\ UNCHANGED <<up, timer, origin, far, taken, given>>

\* The connection that knows s as its counterpart, if any.
Knows(s) == {a \in DOMAIN conns : conns[a].rid = s}

\* fwd_entry_datagram_connection_flush
Flushed(s, q) == [k \in DOMAIN q |-> Data(s, q[k])]

\* fwd_entry_datagram_connection_socket_connected: what was held back is sent.
SocketConnected ==
    \E s \in Ids, ok \in BOOLEAN :
        /\ Receive("near", ConnectDone(s, ok))
        /\ \/ /\ Knows(s) = {}
              /\ Handled("near", <<>>)
              /\ UNCHANGED near
           \/ \E a \in Knows(s) :
              /\ ~ok
              /\ ForgetOne(a)
              /\ Handled("near", <<Close(s)>>)
              /\ UNCHANGED <<up, timer, origin>>
           \/ \E a \in Knows(s) :
              /\ ok
              /\ conns' = [conns EXCEPT ![a].q = <<>>, ![a].setup = "done"]
              /\ order' = Touched(a)
              /\ timer' = Schedule(conns)
              /\ Handled("near", Flushed(s, conns[a].q))
              /\ UNCHANGED <<up, idMap, origin>>
        /\ UNCHANGED <<far, history>>

\* fwd_entry_datagram_connection_remote_data_sent, with an error.  The call
\* holds a pointer to its connection even if that has been freed; then there is
\* nothing that the code could be relied on to do.
DataFailed ==
    \E s \in Ids :
        /\ Receive("near", DataError(s))
        /\ \/ /\ Knows(s) = {}
              /\ Handled("near", <<>>)
              /\ UNCHANGED near
           \/ \E a \in Knows(s) :
              /\ ForgetOne(a)
              /\ Handled("near", <<Close(s)>>)
              /\ UNCHANGED <<up, timer, origin>>
        /\ UNCHANGED <<far, history>>

\* fwd_entry_datagram_connection_data: a reply goes to the address, or can't be
\* sent, which the far socket is told; nobody takes it if the connection is gone.
HandleReply ==
    \E i \in Ids : \E p \in Reply :
        /\ Receive("near", Data(i, p))
        /\ \/ /\ i \in DOMAIN idMap
              /\ order' = Touched(idMap[i])
              /\ timer' = Schedule(conns)
              /\ \/ /\ given' = [given EXCEPT !.back = Append(@, <<idMap[i], p.n>>)]
                    /\ Handled("near", <<>>)
                 \/ Handled("near", <<DataError(p.from)>>) /\ UNCHANGED given
           \/ /\ i \notin DOMAIN idMap
              /\ Handled("near", <<>>) \/ Handled("near", <<DataError(p.from)>>)
              /\ UNCHANGED <<order, timer, given>>
        /\ UNCHANGED <<up, conns, idMap, origin, far, known, taken>>

\* fwd_peer_handle_socket_close at the near peer.  Nothing is sent back.
HandleNearClose ==
    \E i \in Ids :
        /\ Receive("near", Close(i))
        /\ \/ /\ \A a \in DOMAIN conns : conns[a].id # i
              /\ UNCHANGED near
           \/ \E a \in DOMAIN conns :
              /\ conns[a].id = i
              /\ ForgetOne(a)
              /\ UNCHANGED <<up, timer, origin>>
        /\ Handled("near", <<>>)
        /\ UNCHANGED <<far, history>>

-----------------------------------------------------------------------------
(* The far peer *)

\* fwd_entry_datagram_socket_new
NewSocket(i) == [rid |-> i, to |-> FALSE]

\* The sockets, with a new one for the connection i.
Added(s, i) ==
    [t \in DOMAIN socks \cup {s} |-> IF t = s THEN NewSocket(i) ELSE socks[t]]

\* Variant with a defect: ids are counted from 0, which is no id.
HandleSocketFromZero ==
    \E i \in Ids :
        /\ Receive("far", Socket(i))
        /\ LET s == Len(mate) IN
            /\ socks' = Added(s, i)
            /\ mate' = Append(mate, i)
            /\ Handled("far", <<SocketDone(i, s)>>)
        /\ UNCHANGED <<near, history>>

\* fwd_peer_handle_control_socket: a socket that receives at once, or an error.
HandleSocket ==
    \E i \in Ids :
        /\ Receive("far", Socket(i))
        /\ \/ LET s == Len(mate) + 1 IN
              /\ socks' = Added(s, i)
              /\ mate' = Append(mate, i)
              /\ Handled("far", <<SocketDone(i, s)>>)
           \/ Handled("far", <<SocketDone(i, 0)>>) /\ UNCHANGED far
        /\ UNCHANGED <<near, history>>

\* fwd_entry_datagram_socket_connect
HandleConnect ==
    \E s \in Ids :
        /\ Receive("far", Connect(s))
        /\ socks' = IF s \in DOMAIN socks THEN [socks EXCEPT ![s].to = TRUE] ELSE socks
        /\ Handled("far", <<ConnectDone(s, s \in DOMAIN socks)>>)
        /\ UNCHANGED <<near, mate, history>>

\* fwd_entry_datagram_socket_data: a packet goes to the target, or can't be sent;
\* giorpc may answer for a socket that doesn't exist.
HandleData ==
    \E s \in Ids : \E p \in Packet :
        /\ Receive("far", Data(s, p))
        /\ \/ /\ s \in DOMAIN socks /\ socks[s].to
              /\ given' = [given EXCEPT !.there = Append(@, <<s, p.n>>)]
              /\ Handled("far", <<>>)
           \/ Handled("far", <<DataError(s)>>) /\ UNCHANGED given
           \/ s \notin DOMAIN socks /\ Handled("far", <<>>) /\ UNCHANGED given
        /\ UNCHANGED <<near, far, known, taken>>

\* fwd_entry_datagram_socket_close
HandleFarClose ==
    \E s \in Ids :
        /\ Receive("far", Close(s))
        /\ socks' = Restrict(socks, DOMAIN socks \ {s})
        /\ Handled("far", <<>>)
        /\ UNCHANGED <<near, mate, history>>

\* The answer to DATA is an error.
ReplyFailed ==
    \E s \in Ids :
        /\ Receive("far", DataError(s))
        /\ socks' = Restrict(socks, DOMAIN socks \ {s})
        /\ Handled("far", IF s \in DOMAIN socks THEN <<Close(socks[s].rid)>> ELSE <<>>)
        /\ UNCHANGED <<near, mate, history>>

\* Variant with a defect: no CLOSE.
RemoveSilently(s) ==
    /\ s \in DOMAIN socks
    /\ socks' = Restrict(socks, DOMAIN socks \ {s})
    /\ UNCHANGED <<near, mate, history, chan>>

\* fwd_entry_datagram_socket_dispose, after an I/O error or through the API
RemoveSocket(s) ==
    /\ s \in DOMAIN socks
    /\ socks' = Restrict(socks, DOMAIN socks \ {s})
    /\ Send("far", <<Close(socks[s].rid)>>)
    /\ UNCHANGED <<near, mate, history>>

\* fwd_entry_datagram_socket_io_receive
ReceiveReply(s) ==
    /\ s \in DOMAIN socks /\ taken.back < MaxReplies
    /\ taken' = [taken EXCEPT !.back = @ + 1]
    /\ Send("far", <<Data(socks[s].rid, [from |-> s, n |-> taken.back + 1])>>)
    /\ UNCHANGED <<near, far, known, given>>

-----------------------------------------------------------------------------

Init ==
    /\ up = TRUE
    /\ conns = <<>> /\ idMap = <<>> /\ order = <<>>
    /\ timer = FALSE
    /\ socks = <<>>
    /\ origin = <<>> /\ mate = <<>> /\ known = {}
    /\ taken = [there |-> 0, back |-> 0]
    /\ given = [there |-> <<>>, back |-> <<>>]
    /\ chan = Silence

\* What arrives is handled by one of these.
Deliver ==
    \/ SocketCreated \/ SocketConnected \/ DataFailed \/ HandleReply
    \/ HandleNearClose
    \/ HandleSocket \/ HandleConnect \/ HandleData \/ HandleFarClose \/ ReplyFailed

Next ==
    \/ Deliver
    \/ TimerFires \/ RemoveForwarder
    \/ \E a \in Addresses : ReceiveKnown(a) \/ ReceiveNew(a) \/ RemoveConnection(a)
    \/ \E s \in Ids : RemoveSocket(s) \/ ReceiveReply(s)

Spec == Init /\ [][Next]_vars

\* The transport delivers.
FairSpec == Spec /\ WF_vars(Deliver)

-----------------------------------------------------------------------------
(* Properties *)

TypeOK ==
    /\ up \in BOOLEAN /\ timer \in BOOLEAN
    /\ DOMAIN conns \subseteq Addresses /\ conns \in [DOMAIN conns -> Connection]
    /\ Cardinality(DOMAIN conns) <= ConnLimit
    /\ order \in Seq(Addresses) /\ IsInjective(order) /\ ToSet(order) = DOMAIN conns
    /\ DOMAIN socks \subseteq Ids /\ socks \in [DOMAIN socks -> FarSocket]
    /\ origin \in Seq(Addresses) /\ mate \in Seq(Ids) /\ known \subseteq Ids
    /\ taken \in [there : 0 .. MaxPackets, back : 0 .. MaxReplies]

\* addr_map and id_map have the same connections, whether it is expiry,
\* eviction, a failed call, CLOSE, the API or the end of the forwarder that
\* removes one: all of these reach the maps through other callbacks.
MapsAgree ==
    /\ \A i \in DOMAIN idMap : idMap[i] \in DOMAIN conns /\ conns[idMap[i]].id = i
    /\ \A a \in DOMAIN conns : conns[a].id \in DOMAIN idMap

\* GASSERT(self->to) in fwd_entry_datagram_socket_data: DATA comes to no socket
\* before its target, although a connection sends new packets at once when it
\* has learnt its counterpart, without waiting for the answer to CONNECT.
DataFindsTarget ==
    \A s \in DOMAIN socks : \A p \in Packet :
        Receive("far", Data(s, p)) => socks[s].to

\* A connection that is set up is watched by the timer, although the look at
\* the timer comes before a connection is in addr_map: it is not kept forever.
SilenceIsNoticed ==
    \A a \in DOMAIN conns : conns[a].setup = "done" => timer

\* Packets are forwarded as DatagramPipe promises.
PacketsThere ==
    (UNION {ToSet(conns[a].q) : a \in DOMAIN conns})
    \cup {m.packet : m \in {x \in ToSet(chan.far) : x.type = "DATA"}}
PacketsBack == {m.packet : m \in {x \in ToSet(chan.near) : x.type = "DATA"}}
Pipe == INSTANCE DatagramPipe WITH
    Sockets <- MaxId,
    speaks <- [s \in DOMAIN mate |-> origin[mate[s]]],
    there <- PacketsThere,
    back <- PacketsBack
PipeSpec == Pipe!Spec

\* Once a connection has learnt of its far socket, neither outlives the other:
\* when one of them goes, whatever the cause, so does the other.
EndsClose ==
    \A s \in Ids :
        (s \in known /\ (s \notin DOMAIN socks \/ Knows(s) = {}))
            ~> (s \notin DOMAIN socks /\ Knows(s) = {})

=============================================================================
