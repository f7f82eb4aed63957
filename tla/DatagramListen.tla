---------------------------- MODULE DatagramListen ----------------------------
(***************************************************************************)
(* A "listening" datagram socket (fwd_entry_datagram_listen.c) and the     *)
(* connections that it makes of the packets it receives, one per source    *)
(* address (fwd_entry_datagram_connection.c).  A packet from a new address *)
(* is matched with a queued ACCEPT request or waits in the backlog for the *)
(* next one; the caller of ACCEPT answers with ACCEPTED or CLOSE.  An      *)
(* inactivity timer drops connections and backlog entries that have been   *)
(* silent for too long.                                                    *)
(*                                                                         *)
(* Times are what is left of them: the "ttl" of a connection is the number *)
(* of ticks before it expires, the timer the number of ticks before it     *)
(* fires.  A tick stands for many microseconds, the resolution of the      *)
(* program's clock: what is touched now expires after all the rest.        *)
(***************************************************************************)
EXTENDS Integers, Sequences, SequencesExt, FiniteSetsExt, Functions

CONSTANTS
    Addresses,   \* source addresses of packets
    Timeout,     \* inactivity timeout, in ticks
    Backlog,     \* pending connections that the listener may keep
    ConnLimit,   \* active connections that the listener may keep
    MaxId,       \* bound: ids given to connections
    MaxAccepts,  \* bound: ACCEPT requests
    MaxPackets   \* bound: packets

ASSUME ParametersAssumption ==
    /\ {Timeout, Backlog, ConnLimit, MaxId, MaxAccepts} \subseteq Nat \ {0}
    /\ MaxPackets \in Nat

CallIds == 1 .. MaxAccepts
ConnIds == 1 .. MaxId
Packet == [from : Addresses, n : 1 .. MaxPackets]

VARIABLES
    up,        \* the listener is in the table of its peer
    accepts,   \* accept_queue: requests that wait for a packet
    backlog,   \* backlog_queue: pending connections, the oldest first
    conns,     \* addr_map: the connections by source address
    idMap,     \* id_map: source addresses of the connections by id
    table,     \* ids of the connections in the table of the peer
    timer,     \* ticks before inactivity_timer_id fires
    nextId,    \* the id of the next connection
    caller,    \* how each connection stands with the calling peer
    requests,  \* the number of ACCEPT requests so far
    received,  \* the number of packets so far
    answered,  \* history: the requests that got a connection, in order
    sent       \* history: how many times each packet was sent to the caller

history == <<answered, sent>>
vars == <<up, accepts, backlog, conns, idMap, table, timer, nextId, caller,
          requests, received, history>>

NoTimer == -1

\* The caller was offered a connection by the answer to ACCEPT and has replied
\* with ACCEPTED in time or too late, or with CLOSE; or it was sent a CLOSE.
CallerStates == {"none", "offered", "accepted", "late", "closed", "told"}

\* An active connection.  rid: the caller has told its own socket id; q: packets
\* held back until then; flush: flush_id, they are about to go.
Connection == [id : ConnIds, ttl : 0 .. Timeout, rid : BOOLEAN,
               q : Seq(Packet), flush : BOOLEAN]
Pending == [addr : Addresses, ttl : 0 .. Timeout, packets : Seq(Packet)]

-----------------------------------------------------------------------------
(* The inactivity timer *)

\* The least time before a pending connection of bl or a connection of cs
\* expires, none without connections.
\* (fwd_entry_datagram_connection_expiration_timeout_ms)
ExpirationTimeout(cs, bl) ==
    IF DOMAIN cs = {} THEN NoTimer
    ELSE Min({cs[a].ttl : a \in DOMAIN cs}
                \cup IF bl = <<>> THEN {} ELSE {Head(bl).ttl})

\* schedule_inactivity_check: an armed timer is left alone.
Schedule(t, cs, bl) == IF t # NoTimer THEN t ELSE ExpirationTimeout(cs, bl)

\* Variant with a defect: the timeout is added to the expiry.
TouchedAgain(c) == [c EXCEPT !.ttl = @ + Timeout]

\* fwd_entry_datagram_connection_touch, without the look at the timer
Touched(c) == [c EXCEPT !.ttl = Timeout]

Tick ==
    /\ conns' = [a \in DOMAIN conns |-> [conns[a] EXCEPT !.ttl = Max({@ - 1, 0})]]
    /\ backlog' = [i \in DOMAIN backlog |->
                        [backlog[i] EXCEPT !.ttl = Max({@ - 1, 0})]]
    /\ timer' = IF timer = NoTimer THEN timer ELSE Max({timer - 1, 0})
    /\ UNCHANGED <<up, accepts, idMap, table, nextId, caller, requests, received,
                   history>>

-----------------------------------------------------------------------------
(* Connections come and go *)

\* Variant with a defect: id_map keeps the connections.
ForgetAddressOnly(as) ==
    /\ conns' = Restrict(conns, DOMAIN conns \ as)
    /\ table' = table \ {conns[a].id : a \in as}
    /\ UNCHANGED idMap

\* The connections of the addresses in as leave the table and the maps of the
\* listener (fwd_entry_remove, entry_removed) ...
Forget(as) ==
    /\ conns' = Restrict(conns, DOMAIN conns \ as)
    /\ table' = table \ {conns[a].id : a \in as}
    /\ idMap' = Restrict(idMap, DOMAIN idMap \ {conns[a].id : a \in as})

\* Variant with a defect: the counterparts are not told.
NothingSent(as) == caller

\* ... and CLOSE goes to their counterparts, if known (dispose).
CloseSent(as) ==
    [i \in ConnIds |-> IF \E a \in as : conns[a].id = i /\ conns[a].rid
                       THEN "told" ELSE caller[i]]

\* Variant with a defect: the new connection is not counted.
EvictedLate(cs) ==
    IF Cardinality(DOMAIN cs) <= ConnLimit THEN {{}}
    ELSE {{a} : a \in {x \in DOMAIN cs : \A y \in DOMAIN cs : cs[x].ttl <= cs[y].ttl}}

\* fwd_entry_datagram_connection_drop_oldest, if there are too many of them.
\* The new connection is never the oldest.
Evicted(cs) ==
    IF Cardinality(DOMAIN cs) < ConnLimit THEN {{}}
    ELSE {{a} : a \in {x \in DOMAIN cs : \A y \in DOMAIN cs : cs[x].ttl <= cs[y].ttl}}

\* fwd_entry_datagram_listen_connection_new for the request r.  The new
\* connection is "touched" before the listener has it in addr_map.
ConnectionNew(r, a, packets) ==
    /\ nextId <= MaxId
    /\ \E old \in Evicted(conns) :
        LET gone == {conns[x].id : x \in old} IN
        /\ conns' = [x \in (DOMAIN conns \ old) \cup {a} |->
                        IF x # a THEN conns[x]
                        ELSE [id |-> nextId, ttl |-> Timeout, rid |-> FALSE,
                              q |-> packets, flush |-> FALSE]]
        /\ idMap' = [i \in (DOMAIN idMap \ gone) \cup {nextId} |->
                        IF i = nextId THEN a ELSE idMap[i]]
        /\ table' = (table \ gone) \cup {nextId}
        /\ caller' = [CloseSent(old) EXCEPT ![nextId] = "offered"]
    /\ nextId' = nextId + 1
    /\ answered' = Append(answered, r)

\* Pending connections are dropped as long as the oldest one has expired.
DropExpired ==
    \E k \in 0 .. Len(backlog) :
        /\ \A i \in 1 .. k : backlog[i].ttl = 0
        /\ k < Len(backlog) => backlog[k + 1].ttl > 0
        /\ backlog' = SubSeq(backlog, k + 1, Len(backlog))

\* inactivity_check_func
TimerFires ==
    /\ timer = 0
    /\ DropExpired
    /\ LET expired == {a \in DOMAIN conns : conns[a].ttl = 0} IN
        /\ Forget(expired)
        /\ caller' = CloseSent(expired)
    /\ timer' = ExpirationTimeout(conns', backlog')
    /\ UNCHANGED <<up, accepts, nextId, requests, received, history>>

\* A connection is removed: by an error in the answer to DATA, by the API.
RemoveConnection(a) ==
    /\ Forget({a})
    /\ caller' = CloseSent({a})
    /\ UNCHANGED <<up, accepts, backlog, timer, nextId, requests, received, history>>

\* The listener is removed: CLOSE from its peer, an I/O error, the API.  It
\* takes along everything that is pending and all connections.
RemoveListener ==
    /\ up
    /\ up' = FALSE
    /\ accepts' = <<>> /\ backlog' = <<>>
    /\ Forget(DOMAIN conns)
    /\ caller' = CloseSent(DOMAIN conns)
    /\ timer' = NoTimer
    /\ UNCHANGED <<nextId, requests, received, history>>

-----------------------------------------------------------------------------
(* Packets *)

Arrives(a) ==
    /\ up /\ received < MaxPackets
    /\ received' = received + 1
Arrived(a) == [from |-> a, n |-> received + 1]

\* io_receive for an address that has a connection: the packet is sent if the
\* counterpart is known, even before those that are held back.
ReceiveKnown(a) ==
    /\ Arrives(a) /\ a \in DOMAIN conns
    /\ IF conns[a].rid
       THEN /\ conns' = [conns EXCEPT ![a] = Touched(@)]
            /\ sent' = [sent EXCEPT ![received + 1] = @ + 1]
            /\ timer' = Schedule(timer, conns', backlog)
       ELSE /\ conns' = [conns EXCEPT ![a].q = Append(@, Arrived(a))]
            /\ UNCHANGED <<sent, timer>>
    /\ UNCHANGED <<up, accepts, backlog, idMap, table, nextId, caller, requests,
                   answered>>

\* Variant with a defect: the queue is a stack.
ReceiveAcceptNewest(a) ==
    /\ Arrives(a) /\ a \notin DOMAIN conns /\ accepts # <<>>
    /\ ConnectionNew(Last(accepts), a, <<Arrived(a)>>)
    /\ accepts' = Front(accepts)
    /\ timer' = Schedule(Schedule(timer, conns, backlog), conns', backlog)
    /\ UNCHANGED <<up, backlog, requests, sent>>

\* io_receive for a new address, with an ACCEPT request in the queue.
ReceiveAccept(a) ==
    /\ Arrives(a) /\ a \notin DOMAIN conns /\ accepts # <<>>
    /\ ConnectionNew(Head(accepts), a, <<Arrived(a)>>)
    /\ accepts' = Tail(accepts)
    /\ timer' = Schedule(Schedule(timer, conns, backlog), conns', backlog)
    /\ UNCHANGED <<up, backlog, requests, sent>>

\* Variant with a defect: a pending connection is not looked up.
QueuedAgain(bl, p) ==
    Append(IF Len(bl) >= Backlog THEN Tail(bl) ELSE bl,
           [addr |-> p.from, ttl |-> Timeout, packets |-> <<p>>])

\* The backlog with the packet p: a full one loses its oldest entry first,
\* whether or not the packet needs a new one; an entry that gets a packet
\* becomes the latest.
Queued(bl, p) ==
    LET room == IF Len(bl) >= Backlog THEN Tail(bl) ELSE bl
        same == {i \in DOMAIN room : room[i].addr = p.from}
    IN IF same = {}
       THEN Append(room, [addr |-> p.from, ttl |-> Timeout, packets |-> <<p>>])
       ELSE LET i == CHOOSE j \in same : TRUE IN
            Append(RemoveAt(room, i), [addr |-> p.from, ttl |-> Timeout,
                                       packets |-> Append(room[i].packets, p)])

\* io_receive for a new address that nobody waits for.  The timer is looked
\* at when there is a new entry.
ReceivePending(a) ==
    /\ Arrives(a) /\ a \notin DOMAIN conns /\ accepts = <<>>
    /\ backlog' = Queued(backlog, Arrived(a))
    /\ timer' = IF Len(Last(backlog').packets) = 1
                THEN Schedule(timer, conns, backlog') ELSE timer
    /\ UNCHANGED <<up, accepts, conns, idMap, table, nextId, caller, requests,
                   history>>

-----------------------------------------------------------------------------
(* Requests from the caller *)

\* fwd_entry_datagram_listen_accept.  No look at the timer after the
\* connection is in addr_map.
HandleAccept ==
    /\ up /\ requests < MaxAccepts
    /\ requests' = requests + 1
    /\ IF backlog # <<>>
       THEN LET pc == Head(backlog) IN
            /\ ConnectionNew(requests + 1, pc.addr, pc.packets)
            /\ backlog' = Tail(backlog)
            /\ timer' = Schedule(timer, conns, Tail(backlog))
            /\ UNCHANGED accepts
       ELSE /\ accepts' = Append(accepts, requests + 1)
            /\ UNCHANGED <<backlog, conns, idMap, table, timer, nextId, caller,
                           answered>>
    /\ UNCHANGED <<up, received, sent>>

\* accept_cancelled
HandleCancel(r) ==
    /\ \E i \in DOMAIN accepts : accepts[i] = r /\ accepts' = RemoveAt(accepts, i)
    /\ UNCHANGED <<up, backlog, conns, idMap, table, timer, nextId, caller,
                   requests, received, history>>

\* The caller tells its socket id; nobody tells it if the connection is gone.
\* The packets that have been held back are sent from an idle callback.
HandleAccepted(i) ==
    /\ caller[i] = "offered"
    /\ IF i \in table
       THEN /\ conns' = [conns EXCEPT ![idMap[i]].rid = TRUE,
                                      ![idMap[i]].flush = TRUE]
            /\ caller' = [caller EXCEPT ![i] = "accepted"]
       ELSE /\ caller' = [caller EXCEPT ![i] = "late"]
            /\ UNCHANGED conns
    /\ UNCHANGED <<up, accepts, backlog, idMap, table, timer, nextId, requests,
                   received, history>>

\* Variant with a defect: the held packets stay.
FlushKeepsQueue(a) ==
    /\ conns[a].flush
    /\ conns' = [conns EXCEPT ![a] = [Touched(@) EXCEPT !.flush = FALSE]]
    /\ sent' = [n \in 1 .. MaxPackets |->
                    sent[n] + Cardinality({k \in DOMAIN conns[a].q : conns[a].q[k].n = n})]
    /\ timer' = Schedule(timer, conns', backlog)
    /\ UNCHANGED <<up, accepts, backlog, idMap, table, nextId, caller, requests,
                   received, answered>>

\* fwd_entry_datagram_connection_flush
Flush(a) ==
    /\ conns[a].flush
    /\ conns' = [conns EXCEPT ![a] = [Touched(@) EXCEPT !.flush = FALSE,
                                                       !.q = <<>>]]
    /\ sent' = [n \in 1 .. MaxPackets |->
                    sent[n] + Cardinality({k \in DOMAIN conns[a].q : conns[a].q[k].n = n})]
    /\ timer' = Schedule(timer, conns', backlog)
    /\ UNCHANGED <<up, accepts, backlog, idMap, table, nextId, caller, requests,
                   received, answered>>

\* DATA from the caller keeps the connection alive.
HandleData(i) ==
    /\ caller[i] = "accepted" /\ i \in table
    /\ conns' = [conns EXCEPT ![idMap[i]] = Touched(@)]
    /\ timer' = Schedule(timer, conns', backlog)
    /\ UNCHANGED <<up, accepts, backlog, idMap, table, nextId, caller, requests,
                   received, history>>

\* CLOSE from the caller, instead of ACCEPTED or later.  The handler of the
\* connection ignores it as long as its counterpart is not known, but the peer
\* removes the entry after that in any case.
HandleClose(i) ==
    /\ caller[i] \in {"offered", "accepted"}
    /\ caller' = [caller EXCEPT ![i] = "closed"]
    /\ Forget({a \in DOMAIN conns : conns[a].id = i})
    /\ UNCHANGED <<up, accepts, backlog, timer, nextId, requests, received, history>>

-----------------------------------------------------------------------------

Init ==
    /\ up = TRUE
    /\ accepts = <<>> /\ backlog = <<>>
    /\ conns = <<>> /\ idMap = <<>> /\ table = {}
    /\ timer = NoTimer
    /\ nextId = 1
    /\ caller = [i \in ConnIds |-> "none"]
    /\ requests = 0 /\ received = 0
    /\ answered = <<>>
    /\ sent = [n \in 1 .. MaxPackets |-> 0]

Next ==
    \/ Tick \/ TimerFires \/ RemoveListener \/ HandleAccept
    \/ \E a \in Addresses : ReceiveKnown(a) \/ ReceiveAccept(a) \/ ReceivePending(a)
    \/ \E a \in DOMAIN conns : Flush(a) \/ RemoveConnection(a)
    \/ \E r \in CallIds : HandleCancel(r)
    \/ \E i \in ConnIds : HandleAccepted(i) \/ HandleData(i) \/ HandleClose(i)

Spec == Init /\ [][Next]_vars

\* Time passes, and the main loop runs the timers and the idle callbacks.
FairSpec ==
    /\ Spec
    /\ WF_vars(Tick)
    /\ WF_vars(TimerFires)
    /\ WF_vars(\E a \in DOMAIN conns : Flush(a))

-----------------------------------------------------------------------------
(* Properties *)

TypeOK ==
    /\ up \in BOOLEAN
    /\ accepts \in Seq(CallIds)
    /\ backlog \in Seq(Pending)
    /\ DOMAIN conns \subseteq Addresses /\ conns \in [DOMAIN conns -> Connection]
    /\ DOMAIN idMap \subseteq ConnIds /\ idMap \in [DOMAIN idMap -> Addresses]
    /\ table \subseteq ConnIds
    /\ timer \in {NoTimer} \cup 0 .. Timeout
    /\ nextId \in 1 .. MaxId + 1
    /\ caller \in [ConnIds -> CallerStates]
    /\ requests \in 0 .. MaxAccepts
    /\ received \in 0 .. MaxPackets
    /\ answered \in Seq(CallIds)
    /\ sent \in [1 .. MaxPackets -> Nat]

\* addr_map, id_map and the table of the peer have the same connections, after
\* expiry, eviction, removal by the peer and removal of the listener, though
\* all of these reach them through different callbacks.
MapsAgree ==
    /\ DOMAIN idMap = table
    /\ \A i \in table : idMap[i] \in DOMAIN conns /\ conns[idMap[i]].id = i
    /\ \A a \in DOMAIN conns : conns[a].id \in table /\ idMap[conns[a].id] = a
    /\ ~up => table = {}

\* A packet has one way to go.  It never waits for a request that waits for it:
\* one of the two queues of io_receive and accept is always empty.  Packets from
\* one address are never in two places: an address has at most one pending
\* connection, and none if it has an active one.
OneRoutePerAddress ==
    /\ accepts = <<>> \/ backlog = <<>>
    /\ \A i, j \in DOMAIN backlog : backlog[i].addr = backlog[j].addr => i = j
    /\ \A i \in DOMAIN backlog : backlog[i].addr \notin DOMAIN conns

\* The two limits hold, conn_limit in all the tables that keep connections, and
\* the backlog stays sorted, which is what the timer and the purge rely on.
LimitsHold ==
    /\ Cardinality(DOMAIN conns) <= ConnLimit /\ Cardinality(table) <= ConnLimit
    /\ Len(backlog) <= Backlog
    /\ \A i, j \in DOMAIN backlog : i < j => backlog[i].ttl <= backlog[j].ttl

\* Both ends agree about a connection: the one that the caller has accepted in
\* time exists until one of them has told the other of its end, whatever ended
\* it, and not after that.
EndsAgree ==
    \A i \in ConnIds :
        /\ caller[i] = "accepted" => i \in table
        /\ caller[i] \in {"closed", "told", "late"} => i \notin table

\* PROTOCOL, ACCEPT: several calls may be pending, and they are completed in
\* the order in which they were submitted.  Cancelled ones are skipped.
CompletedInOrder ==
    \A i, j \in DOMAIN answered : i < j => answered[i] < answered[j]

\* Wherever a packet waits it is with its own address, and it is forwarded at
\* most once and not kept after that.
EachPacketOnce ==
    LET waiting(n) ==
            {<<"pending", i>> : i \in {x \in DOMAIN backlog :
                \E p \in Range(backlog[x].packets) : p.n = n}}
            \cup {<<"held", a>> : a \in {x \in DOMAIN conns :
                \E p \in Range(conns[x].q) : p.n = n}}
    IN /\ \A n \in 1 .. MaxPackets : sent[n] + Cardinality(waiting(n)) <= 1
       /\ \A a \in DOMAIN conns : \A p \in Range(conns[a].q) : p.from = a
       /\ \A i \in DOMAIN backlog :
            \A p \in Range(backlog[i].packets) : p.from = backlog[i].addr

\* A pending connection does not outlive its time ("Drop expired pending
\* connections", inactivity_check_func).
PendingExpire ==
    LET expired == backlog # <<>> /\ Head(backlog).ttl = 0
    IN expired ~> ~expired

=============================================================================
