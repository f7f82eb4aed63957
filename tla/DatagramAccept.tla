----------------------------- MODULE DatagramAccept -----------------------------
(***************************************************************************)
(* A remote datagram forwarder (fwd_entry_datagram_forward_remote.c) at    *)
(* the near peer and the listening socket that it opens at the far one     *)
(* (DatagramListen).  A packet from a new address completes an ACCEPT, the *)
(* forwarder makes a socket of its own for the connection                  *)
(* (fwd_entry_datagram_socket.c) and answers with ACCEPTED, or with CLOSE  *)
(* if it has no socket.                                                    *)
(*                                                                         *)
(* A connection is known by its id at the far peer, which stands for the   *)
(* id of the socket at the near one too.  DATA is not followed on its way, *)
(* DatagramForward does that; what counts here is that it keeps the        *)
(* connection alive.                                                       *)
(***************************************************************************)
EXTENDS Integers, Sequences, SequencesExt, FiniteSets, FiniteSetsExt, Transport

CONSTANTS Addresses, Timeout, Backlog, ConnLimit, MaxId, MaxPackets

\* Each connection takes a packet, so that the bound MaxId stops nothing.
ASSUME BoundAssumption ==
    /\ {Timeout, Backlog, ConnLimit, MaxId} \subseteq Nat \ {0}
    /\ MaxPackets \in 0 .. MaxId

\* Two ACCEPTs are kept pending, and each connection takes one.
Slots == {1, 2}
MaxAccepts == Cardinality(Slots) + MaxId

VARIABLES
    up, accepts, backlog, conns, idMap, table, timer, nextId, caller, requests,
    received, answered, sent,
    listens,    \* has the listening socket been opened?
    forwarder,  \* the state of the forwarder's entry
    rid,        \* does it know the listening socket?
    slots,      \* its pending ACCEPT calls, 0 for none
    nextCall,   \* the number of its next call
    sock        \* the sockets of the near peer

listening == <<up, accepts, backlog, conns, idMap, table, timer, nextId, caller,
               requests, received, answered, sent>>
forwarding == <<forwarder, rid, slots, nextCall>>
vars == <<listening, listens, forwarding, sock, chan>>

L == INSTANCE DatagramListen

Socket == [type |-> "SOCKET"]
SocketDone(ok) == [type |-> "SOCKET_done", ok |-> ok]
AcceptCall(r) == [type |-> "ACCEPT", call |-> r]
AcceptOk(r, i) == [type |-> "ACCEPT_ok", call |-> r, id |-> i]
AcceptError(r) == [type |-> "ACCEPT_error", call |-> r]
CancelCall(r) == [type |-> "cancel", call |-> r]
Accepted(i) == [type |-> "ACCEPTED", id |-> i]
Close(i) == [type |-> "CLOSE", id |-> i]
CloseListener == [type |-> "CLOSE_listener"]

-----------------------------------------------------------------------------
(* The listening socket at the far peer *)

\* What a step of the listening socket tells the near peer: CLOSE for the
\* connections that it has dropped, in some order (that of a GHashTable), and
\* the answer to an ACCEPT that it has completed.
Told ==
    LET gone == {i \in L!ConnIds : caller'[i] = "told" /\ caller[i] # "told"}
        closes == SetToSeq(gone)
    IN [k \in DOMAIN closes |-> Close(closes[k])]
       \o IF answered' = answered THEN <<>>
          ELSE <<AcceptOk(Last(answered'), nextId)>>

\* fwd_peer_handle_control_socket: the listening socket, or an error.
HandleSocket ==
    \E ok \in BOOLEAN :
        /\ Receive("far", Socket)
        /\ listens' = ok
        /\ Handled("far", <<SocketDone(ok)>>)
        /\ UNCHANGED <<listening, forwarding, sock>>

\* What happens at the listening socket.  The timer may be late.
ListenerEvent ==
    /\ listens
    /\ \/ L!Tick \/ L!TimerFires
       \/ \E a \in Addresses :
            L!ReceiveKnown(a) \/ L!ReceiveAccept(a) \/ L!ReceivePending(a)
       \/ \E a \in DOMAIN conns : L!Flush(a) \/ L!RemoveConnection(a)
    /\ Send("far", Told)
    /\ UNCHANGED <<listens, forwarding, sock>>

\* The listening socket is removed.  The requests in its queue are released
\* without an answer, which may or may not make giorpc send an error.
RemoveListener ==
    /\ listens /\ L!RemoveListener
    /\ \E errors \in BOOLEAN :
        Send("far", Told \o IF errors
                            THEN [i \in DOMAIN accepts |-> AcceptError(accepts[i])]
                            ELSE <<>>)
    /\ UNCHANGED <<listens, forwarding, sock>>

HandleAccept ==
    \E r \in 1 .. MaxAccepts :
        /\ Receive("far", AcceptCall(r))
        /\ \/ L!HandleAccept /\ Handled("far", Told)
           \/ ~up /\ Handled("far", <<AcceptError(r)>>) /\ UNCHANGED listening
        /\ UNCHANGED <<listens, forwarding, sock>>

HandleCancel ==
    \E r \in 1 .. MaxAccepts :
        /\ Receive("far", CancelCall(r))
        /\ \/ L!HandleCancel(r)
           \/ ~(\E k \in DOMAIN accepts : accepts[k] = r) /\ UNCHANGED listening
        /\ Handled("far", <<>>)
        /\ UNCHANGED <<listens, forwarding, sock>>

HandleAccepted ==
    \E i \in L!ConnIds :
        /\ Receive("far", Accepted(i))
        /\ L!HandleAccepted(i)
        /\ Handled("far", <<>>)
        /\ UNCHANGED <<listens, forwarding, sock>>

\* CLOSE that crosses one from the far peer, or comes late, is for nobody.
HandleFarClose ==
    \E i \in L!ConnIds :
        /\ Receive("far", Close(i))
        /\ L!HandleClose(i) \/ (caller[i] \in {"told", "late"} /\ UNCHANGED listening)
        /\ Handled("far", <<>>)
        /\ UNCHANGED <<listens, forwarding, sock>>

HandleCloseListener ==
    /\ Receive("far", CloseListener)
    /\ \/ L!RemoveListener /\ Handled("far", Told)
       \/ ~up /\ Handled("far", <<>>) /\ UNCHANGED listening
    /\ UNCHANGED <<listens, forwarding, sock>>

\* A packet from the target reaches the far connection as DATA.
DataFromNear ==
    \E i \in L!ConnIds :
        /\ sock[i] = "up" /\ L!HandleData(i)
        /\ UNCHANGED <<listens, forwarding, sock, chan>>

-----------------------------------------------------------------------------
(* The forwarder *)

\* fwd_entry_datagram_forward_remote_socket_complete; nothing if the call was
\* cancelled.
SocketComplete ==
    \E ok \in BOOLEAN :
        /\ Receive("near", SocketDone(ok))
        /\ \/ /\ forwarder = "gone"
              /\ Handled("near", <<>>)
              /\ UNCHANGED forwarding
           \/ /\ forwarder # "gone" /\ ok
              /\ forwarder' = "listening"
              /\ rid' = TRUE
              /\ slots' = [s \in Slots |-> s]
              /\ nextCall' = Cardinality(Slots) + 1
              /\ Handled("near", <<AcceptCall(1), AcceptCall(2)>>)
           \/ /\ forwarder # "gone" /\ ~ok
              /\ forwarder' = "error"
              /\ Handled("near", <<>>)
              /\ UNCHANGED <<rid, slots, nextCall>>
        /\ UNCHANGED <<listening, listens, sock>>

\* Variant with a defect: after a failure the next ACCEPT is not submitted.
ForwardOrGiveUp(i, s) ==
    \/ /\ sock' = [sock EXCEPT ![i] = "up"]
       /\ slots' = [slots EXCEPT ![s] = nextCall]
       /\ nextCall' = nextCall + 1
       /\ Handled("near", <<Accepted(i), AcceptCall(nextCall)>>)
    \/ /\ slots' = [slots EXCEPT ![s] = 0]
       /\ Handled("near", <<Close(i)>>)
       /\ UNCHANGED <<sock, nextCall>>

\* The ACCEPT in the slot s gave the connection i: tell it of a new socket, or
\* close it if there is none; submit the next one.
Forward(i, s) ==
    /\ slots' = [slots EXCEPT ![s] = nextCall]
    /\ nextCall' = nextCall + 1
    /\ \/ /\ sock' = [sock EXCEPT ![i] = "up"]
          /\ Handled("near", <<Accepted(i), AcceptCall(nextCall)>>)
       \/ /\ Handled("near", <<Close(i), AcceptCall(nextCall)>>)
          /\ UNCHANGED sock

\* fwd_entry_datagram_forward_remote_accept_complete
AcceptComplete ==
    \E r \in 1 .. MaxAccepts, i \in L!ConnIds :
        /\ Receive("near", AcceptOk(r, i))
        /\ \/ \E s \in Slots : slots[s] = r /\ Forward(i, s)
           \/ /\ \A s \in Slots : slots[s] # r
              /\ Handled("near", <<>>)
              /\ UNCHANGED <<slots, nextCall, sock>>
        /\ UNCHANGED <<listening, listens, forwarder, rid>>

\* The same, with an error: the slot is not used again.
AcceptFailed ==
    \E r \in 1 .. MaxAccepts :
        /\ Receive("near", AcceptError(r))
        /\ slots' = [s \in Slots |-> IF slots[s] = r THEN 0 ELSE slots[s]]
        /\ forwarder' = IF slots' = slots THEN forwarder ELSE "error"
        /\ Handled("near", <<>>)
        /\ UNCHANGED <<listening, listens, rid, nextCall, sock>>

\* The cancellation of the call in a slot.
Cancels(r) == IF r = 0 THEN <<>> ELSE <<CancelCall(r)>>

\* Variant with a defect: the listening socket is left open.
RemoveForwarderOnly ==
    /\ forwarder # "gone"
    /\ forwarder' = "gone"
    /\ slots' = [s \in Slots |-> 0]
    /\ Send("near", Cancels(slots[1]) \o Cancels(slots[2]))
    /\ UNCHANGED <<listening, listens, rid, nextCall, sock>>

\* fwd_entry_datagram_forward_remote_dispose.  The sockets stay.
RemoveForwarder ==
    /\ forwarder # "gone"
    /\ forwarder' = "gone"
    /\ slots' = [s \in Slots |-> 0]
    /\ Send("near", Cancels(slots[1]) \o Cancels(slots[2])
                    \o IF rid THEN <<CloseListener>> ELSE <<>>)
    /\ UNCHANGED <<listening, listens, rid, nextCall, sock>>

-----------------------------------------------------------------------------
(* The sockets of the near peer *)

\* Variant with a defect: a socket is not closed by its counterpart.
IgnoreNearClose ==
    \E i \in L!ConnIds :
        /\ Receive("near", Close(i))
        /\ Handled("near", <<>>)
        /\ UNCHANGED <<listening, listens, forwarding, sock>>

\* fwd_entry_datagram_socket_close
HandleNearClose ==
    \E i \in L!ConnIds :
        /\ Receive("near", Close(i))
        /\ sock' = [sock EXCEPT ![i] = "gone"]
        /\ Handled("near", <<>>)
        /\ UNCHANGED <<listening, listens, forwarding>>

\* fwd_entry_datagram_socket_dispose, after an I/O error or through the API
RemoveSocket(i) ==
    /\ sock[i] = "up"
    /\ sock' = [sock EXCEPT ![i] = "gone"]
    /\ Send("near", <<Close(i)>>)
    /\ UNCHANGED <<listening, listens, forwarding>>

-----------------------------------------------------------------------------

\* fwd_entry_datagram_forward_remote_start has been called.
Init ==
    /\ L!Init
    /\ listens = FALSE
    /\ forwarder = "starting" /\ rid = FALSE
    /\ slots = [s \in Slots |-> 0]
    /\ nextCall = 1
    /\ sock = [i \in L!ConnIds |-> "none"]
    /\ chan = [Silence EXCEPT !["far"] = <<Socket>>]

\* What arrives is handled by one of these.
Deliver ==
    \/ HandleSocket \/ HandleAccept \/ HandleCancel \/ HandleAccepted
    \/ HandleFarClose \/ HandleCloseListener
    \/ SocketComplete \/ AcceptComplete \/ AcceptFailed \/ HandleNearClose

Next ==
    \/ Deliver
    \/ ListenerEvent \/ RemoveListener \/ DataFromNear \/ RemoveForwarder
    \/ \E i \in L!ConnIds : RemoveSocket(i)

Spec == Init /\ [][Next]_vars

\* The transport delivers, time passes, and the main loop of the far peer runs
\* the timer and the idle callbacks.
FairSpec ==
    /\ Spec
    /\ WF_vars(Deliver)
    /\ WF_vars(ListenerEvent /\ L!Tick)
    /\ WF_vars(ListenerEvent /\ L!TimerFires)
    /\ WF_vars(ListenerEvent /\ \E a \in DOMAIN conns : L!Flush(a))

-----------------------------------------------------------------------------
(* Properties *)

\* While both ends listen, two distinct ACCEPTs are pending, each of them in
\* one place: whatever is evicted, expires or can't be forwarded, a packet from
\* a new address finds a request as soon as those before it are served.
AcceptPlaces(r) ==
    {p \in {"call", "queue", "answer"} :
        \/ p = "call" /\ Underway("far", AcceptCall(r))
        \/ p = "queue" /\ \E k \in DOMAIN accepts : accepts[k] = r
        \/ p = "answer" /\ \E i \in L!ConnIds : Underway("near", AcceptOk(r, i))}
AcceptsPending ==
    (forwarder = "listening" /\ up) =>
        /\ \A s \in Slots : slots[s] # 0 /\ Cardinality(AcceptPlaces(slots[s])) = 1
        /\ slots[1] # slots[2]

\* The connection of the socket i, which has told of itself in time.
Linked(i) == caller[i] = "accepted"
Silent(i) == Linked(i) /\ \E a \in DOMAIN conns : conns[a].id = i /\ conns[a].ttl = 0

\* DatagramConnection "closes and destroyes the counterpart DatagramSocket
\* object on the local side as well" after a period of inactivity
\* (fwd_entry_datagram_forward_remote.c): the silence that is noticed at the
\* far peer ends the socket of the near one, unless the connection is used
\* again, and whatever becomes of the forwarder meanwhile.
SilentSocketCloses ==
    \A i \in L!ConnIds :
        (sock[i] = "up" /\ Silent(i)) ~> (sock[i] = "gone" \/ (Linked(i) /\ ~Silent(i)))

\* A forwarder that knows its listening socket takes it along, with all the
\* connections made through it and their sockets, those excepted that were
\* told of an end before they were told of their counterpart.
ForwarderTakesAll ==
    (forwarder = "gone" /\ rid) ~>
        (~up /\ \A i \in L!ConnIds : caller[i] \notin {"accepted", "late"} => sock[i] # "up")

=============================================================================
