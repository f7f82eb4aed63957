------------------------------ MODULE StreamAccept ------------------------------
(***************************************************************************)
(* A remote stream forwarder (fwd_entry_stream_forward_remote.c) at the    *)
(* "near" peer, the listening socket that it opens at the "far" one        *)
(* (StreamListen), and the connections made through them: a client of the  *)
(* listening socket completes an ACCEPT, the forwarder connects to its own *)
(* target and answers with ACCEPTED, or with CLOSE if that fails.          *)
(*                                                                         *)
(* Connections are numbered in the order in which they are accepted; the   *)
(* number stands for both socket ids, whose agreement is the subject of    *)
(* StreamForward, as is the transfer of data.  The transport delivers      *)
(* reliably and in order; the answer to a cancelled call is dropped.       *)
(***************************************************************************)
EXTENDS Integers, Sequences, FiniteSets

CONSTANT MaxClients  \* bound: clients that connect to the listening socket

ASSUME MaxClientsAssumption == MaxClients \in Nat

\* Two ACCEPTs are kept pending, and each connection takes one.
Slots == {1, 2}
MaxAccepts == Cardinality(Slots) + MaxClients
Clients == 1 .. MaxClients
Peers == {"near", "far"}
Other(p) == IF p = "near" THEN "far" ELSE "near"

VARIABLES
    listener, accept_reqs, cancel, accepts, clients, arrived, calls, resubmitted,
    forwarder,  \* the state of the forwarder's entry
    rid,        \* does it know the listening socket?
    slots,      \* its pending ACCEPT calls, 0 for none
    nextCall,   \* the number of its next call
    sock,       \* the stream socket entries of both peers
    links,      \* history: connections known at both ends
    chan        \* for each peer, the messages on their way to it

listening == <<listener, accept_reqs, cancel, accepts, clients, arrived, calls, resubmitted>>
forwarding == <<forwarder, rid, slots, nextCall>>
vars == <<listening, forwarding, sock, links, chan>>

L == INSTANCE StreamListen

-----------------------------------------------------------------------------
(* Messages *)

Socket == [type |-> "SOCKET"]
SocketDone(ok) == [type |-> "SOCKET_done", ok |-> ok]
AcceptCall(r) == [type |-> "ACCEPT", call |-> r]
AcceptOk(r, c) == [type |-> "ACCEPT_ok", call |-> r, id |-> c]
AcceptError(r) == [type |-> "ACCEPT_error", call |-> r]
CancelCall(r) == [type |-> "cancel", call |-> r]
Accepted(c) == [type |-> "ACCEPTED", id |-> c]
Close(c) == [type |-> "CLOSE", id |-> c]
CloseListener == [type |-> "CLOSE_listener"]

Underway(p, m) == \E i \in DOMAIN chan[p] : chan[p][i] = m

\* p sends msgs.
Send(p, msgs) == chan' = [chan EXCEPT ![Other(p)] = @ \o msgs]

\* p handles the message m, the first one on its way, and sends msgs.
Receive(p, m) == chan[p] # <<>> /\ m = Head(chan[p])
Handled(p, msgs) ==
    chan' = [chan EXCEPT ![p] = Tail(@), ![Other(p)] = @ \o msgs]

-----------------------------------------------------------------------------
(* The listening socket at the far peer *)

\* The SOCKET request.  A socket that can't be created is an error; nothing
\* is answered if it can't listen.
HandleSocket ==
    /\ Receive("far", Socket)
    /\ \/ L!Listen /\ Handled("far", <<SocketDone(TRUE)>>)
       \/ UNCHANGED listening /\ Handled("far", <<SocketDone(FALSE)>>)
       \/ UNCHANGED listening /\ Handled("far", <<>>)
    /\ UNCHANGED <<forwarding, sock, links>>

HandleAccept ==
    \E r \in 1 .. MaxAccepts :
        /\ Receive("far", AcceptCall(r))
        /\ \/ L!Accept(r) /\ Handled("far", <<>>)
           \/ /\ listener # "open"
              /\ Handled("far", <<AcceptError(r)>>)
              /\ UNCHANGED listening
        /\ UNCHANGED <<forwarding, sock, links>>

HandleCancel ==
    \E r \in 1 .. MaxAccepts :
        /\ Receive("far", CancelCall(r))
        /\ \/ L!RequestCancelled(r)
           \/ calls[r] # "waiting" /\ UNCHANGED listening
        /\ Handled("far", <<>>)
        /\ UNCHANGED <<forwarding, sock, links>>

\* A client completes the first ACCEPT.  Its entry doesn't know the
\* counterpart yet, and has no I/O.
AcceptSucceeds(kind) ==
    /\ L!AcceptSucceeds(kind)
    /\ \E c \in Clients :
        /\ sock["far"][c] = "new"
        /\ \A d \in Clients : sock["far"][d] = "new" => c <= d
        /\ sock' = [sock EXCEPT !["far"][c] = "waiting"]
        /\ Send("far", <<AcceptOk(Head(accept_reqs), c)>>)
    /\ UNCHANGED <<forwarding, links>>

\* The other events of the listening socket say nothing to the forwarder.
ListenerEvent ==
    /\ \/ L!ClientConnects
       \/ \E kind \in L!AcceptKinds : L!AcceptFails(kind)
       \/ L!AcceptCancelled
    /\ UNCHANGED <<forwarding, sock, links, chan>>

\* CLOSE from the forwarder; its ACCEPTs have been cancelled before.
HandleCloseListener ==
    /\ Receive("far", CloseListener)
    /\ L!Dispose \/ (listener # "open" /\ UNCHANGED listening)
    /\ Handled("far", <<>>)
    /\ UNCHANGED <<forwarding, sock, links>>

\* fwd_peer_remove_forwarder at the far peer.  The requests are released
\* without an answer, which may or may not make giorpc send an error.  The
\* forwarder ignores CLOSE.
RemoveListener ==
    /\ L!Dispose
    /\ \E answered \in BOOLEAN :
        Send("far", IF answered
                    THEN [i \in DOMAIN accept_reqs |-> AcceptError(accept_reqs[i])]
                    ELSE <<>>)
    /\ UNCHANGED <<forwarding, sock, links>>

-----------------------------------------------------------------------------
(* The forwarder *)

\* fwd_entry_stream_forward_remote_socket_complete; nothing if the call was
\* cancelled.
SocketComplete ==
    \E ok \in BOOLEAN :
        /\ Receive("near", SocketDone(ok))
        /\ \/ /\ forwarder = "gone"
              /\ Handled("near", <<>>)
              /\ UNCHANGED forwarding
           \/ /\ forwarder # "gone" /\ ok
              /\ forwarder' = "listening"
              /\ rid' = TRUE
              /\ slots' = [s \in Slots |-> s]
              /\ nextCall' = Cardinality(Slots) + 1
              /\ Handled("near", <<AcceptCall(1), AcceptCall(2)>>)
           \/ /\ forwarder # "gone" /\ ~ok
              /\ forwarder' = "error"
              /\ Handled("near", <<>>)
              /\ UNCHANGED <<rid, slots, nextCall>>
        /\ UNCHANGED <<listening, sock, links>>

\* Variant with a defect: a connection that can't be forwarded is ignored.
ForwardOrIgnore(c, s) ==
    /\ slots' = [slots EXCEPT ![s] = nextCall]
    /\ nextCall' = nextCall + 1
    /\ \/ sock' = [sock EXCEPT !["near"][c] = "connecting"]
       \/ UNCHANGED sock
    /\ Handled("near", <<AcceptCall(nextCall)>>)

\* Variant with a defect: after a failure the next ACCEPT is not submitted.
ForwardOrGiveUp(c, s) ==
    \/ /\ sock' = [sock EXCEPT !["near"][c] = "connecting"]
       /\ slots' = [slots EXCEPT ![s] = nextCall]
       /\ nextCall' = nextCall + 1
       /\ Handled("near", <<AcceptCall(nextCall)>>)
    \/ /\ slots' = [slots EXCEPT ![s] = 0]
       /\ Handled("near", <<Close(c)>>)
       /\ UNCHANGED <<sock, nextCall>>

\* The ACCEPT in the slot s gave the connection c: start connecting to the
\* target, or close it if there is no socket for that; submit the next one.
Forward(c, s) ==
    /\ slots' = [slots EXCEPT ![s] = nextCall]
    /\ nextCall' = nextCall + 1
    /\ \/ /\ sock' = [sock EXCEPT !["near"][c] = "connecting"]
          /\ Handled("near", <<AcceptCall(nextCall)>>)
       \/ /\ Handled("near", <<Close(c), AcceptCall(nextCall)>>)
          /\ UNCHANGED sock

\* fwd_entry_stream_forward_remote_accept_complete.
AcceptComplete ==
    \E r \in 1 .. MaxAccepts, c \in Clients :
        /\ Receive("near", AcceptOk(r, c))
        /\ \/ \E s \in Slots : slots[s] = r /\ Forward(c, s)
           \/ /\ \A s \in Slots : slots[s] # r
              /\ Handled("near", <<>>)
              /\ UNCHANGED <<slots, nextCall, sock>>
        /\ UNCHANGED <<listening, forwarder, rid, links>>

\* Variant with a defect: it tries again, forever.
AcceptFailedRetries ==
    \E r \in 1 .. MaxAccepts :
        /\ Receive("near", AcceptError(r))
        /\ slots' = [s \in Slots |-> IF slots[s] = r THEN nextCall ELSE slots[s]]
        /\ nextCall' = nextCall + 1
        /\ Handled("near", <<AcceptCall(nextCall)>>)
        /\ UNCHANGED <<listening, forwarder, rid, sock, links>>

\* The same, with an error: the slot is not used again.
AcceptFailed ==
    \E r \in 1 .. MaxAccepts :
        /\ Receive("near", AcceptError(r))
        /\ slots' = [s \in Slots |-> IF slots[s] = r THEN 0 ELSE slots[s]]
        /\ forwarder' = IF slots' = slots THEN forwarder ELSE "error"
        /\ Handled("near", <<>>)
        /\ UNCHANGED <<listening, rid, nextCall, sock, links>>

\* Variant with a defect: a failure makes it cancel an ACCEPT and submit it
\* anew.
ConnectCompleteRestart(c, ok) ==
    /\ sock["near"][c] = "connecting"
    /\ ok => forwarder # "gone"
    /\ sock' = [sock EXCEPT !["near"][c] = IF ok THEN "up" ELSE "gone"]
    /\ IF ok \/ slots[1] = 0 \/ nextCall > MaxAccepts
       THEN /\ Send("near", <<IF ok THEN Accepted(c) ELSE Close(c)>>)
            /\ UNCHANGED <<slots, nextCall>>
       ELSE /\ Send("near", <<Close(c), CancelCall(slots[1]), AcceptCall(nextCall)>>)
            /\ slots' = [slots EXCEPT ![1] = nextCall]
            /\ nextCall' = nextCall + 1
    /\ UNCHANGED <<listening, forwarder, rid, links>>

\* fwd_entry_stream_forward_remote_connect_complete.  The removal of the
\* forwarder cancels the connects.
ConnectComplete(c, ok) ==
    /\ sock["near"][c] = "connecting"
    /\ ok => forwarder # "gone"
    /\ sock' = [sock EXCEPT !["near"][c] = IF ok THEN "up" ELSE "gone"]
    /\ Send("near", <<IF ok THEN Accepted(c) ELSE Close(c)>>)
    /\ UNCHANGED <<listening, forwarding, links>>

\* The cancellation of the call in a slot.
Cancels(r) == IF r = 0 THEN <<>> ELSE <<CancelCall(r)>>

\* Variant with a defect: the listening socket is left open.
RemoveForwarderOnly ==
    /\ forwarder # "gone"
    /\ forwarder' = "gone"
    /\ slots' = [s \in Slots |-> 0]
    /\ Send("near", Cancels(slots[1]) \o Cancels(slots[2]))
    /\ UNCHANGED <<listening, rid, nextCall, sock, links>>

\* fwd_entry_stream_forward_remote_dispose: the calls are cancelled, the SOCKET
\* call too (then the id of the listening socket remains unknown).
RemoveForwarder ==
    /\ forwarder # "gone"
    /\ forwarder' = "gone"
    /\ slots' = [s \in Slots |-> 0]
    /\ Send("near", Cancels(slots[1]) \o Cancels(slots[2])
                    \o IF rid THEN <<CloseListener>> ELSE <<>>)
    /\ UNCHANGED <<listening, rid, nextCall, sock, links>>

-----------------------------------------------------------------------------
(* The connections *)

\* fwd_entry_stream_socket_accepted; too late for an entry that is gone.
HandleAccepted ==
    \E c \in Clients :
        /\ Receive("far", Accepted(c))
        /\ IF sock["far"][c] = "waiting"
           THEN /\ sock' = [sock EXCEPT !["far"][c] = "up"]
                /\ links' = links \cup {c}
           ELSE UNCHANGED <<sock, links>>
        /\ Handled("far", <<>>)
        /\ UNCHANGED <<listening, forwarding>>

\* fwd_entry_stream_socket_close: the entry is removed, nothing is sent back.
HandleClose(p) ==
    \E c \in Clients :
        /\ Receive(p, Close(c))
        /\ sock' = IF sock[p][c] = "new" THEN sock
                   ELSE [sock EXCEPT ![p][c] = "gone"]
        /\ Handled(p, <<>>)
        /\ UNCHANGED <<listening, forwarding, links>>

\* Variant with a defect: no CLOSE.
RemoveSilently(p, c) ==
    /\ sock[p][c] \in {"waiting", "up"}
    /\ sock' = [sock EXCEPT ![p][c] = "gone"]
    /\ UNCHANGED <<listening, forwarding, links, chan>>

\* The entry of a connection is removed, by the end of the stream, an error or
\* fwd_peer_remove_forwarder.  CLOSE is sent if the counterpart is known.  The
\* code doesn't survive the removal of an entry that is still connecting: its
\* connect() completes without an owner.  That is not a step.
Remove(p, c) ==
    /\ sock[p][c] \in {"waiting", "up"}
    /\ sock' = [sock EXCEPT ![p][c] = "gone"]
    /\ Send(p, IF sock[p][c] = "up" THEN <<Close(c)>> ELSE <<>>)
    /\ UNCHANGED <<listening, forwarding, links>>

-----------------------------------------------------------------------------

\* The forwarder has just been started: fwd_entry_stream_forward_remote_start.
Init ==
    /\ L!Init
    /\ forwarder = "starting"
    /\ rid = FALSE
    /\ slots = [s \in Slots |-> 0]
    /\ nextCall = 1
    /\ sock = [p \in Peers |-> [c \in Clients |-> "new"]]
    /\ links = {}
    /\ chan = [near |-> <<>>, far |-> <<Socket>>]

\* What arrives is handled by one of these.
Deliver ==
    \/ HandleSocket \/ HandleAccept \/ HandleCancel \/ HandleCloseListener
    \/ HandleAccepted
    \/ SocketComplete \/ AcceptComplete \/ AcceptFailed
    \/ \E p \in Peers : HandleClose(p)

Next ==
    \/ Deliver
    \/ \E kind \in L!AcceptKinds : AcceptSucceeds(kind)
    \/ ListenerEvent
    \/ RemoveListener \/ RemoveForwarder
    \/ \E c \in Clients :
        \/ \E ok \in BOOLEAN : ConnectComplete(c, ok)
        \/ \E p \in Peers : Remove(p, c)

Spec == Init /\ [][Next]_vars

\* The transport delivers.
FairSpec == Spec /\ WF_vars(Deliver)

-----------------------------------------------------------------------------
(* Properties *)

Messages ==
    {Socket, CloseListener} \cup {SocketDone(ok) : ok \in BOOLEAN}
    \cup (UNION {{AcceptCall(r), AcceptError(r), CancelCall(r)} : r \in 1 .. MaxAccepts})
    \cup {AcceptOk(r, c) : r \in 1 .. MaxAccepts, c \in Clients}
    \cup (UNION {{Accepted(c), Close(c)} : c \in Clients})

TypeOK ==
    /\ forwarder \in {"starting", "listening", "error", "gone"}
    /\ rid \in BOOLEAN
    /\ slots \in [Slots -> 0 .. MaxAccepts]
    /\ nextCall \in 1 .. MaxAccepts + 1
    /\ sock \in [Peers -> [Clients -> {"new", "waiting", "connecting", "up", "gone"}]]
    /\ links \subseteq Clients
    /\ chan \in [Peers -> Seq(Messages)]

\* The forwarder is a caller that StreamListen can rely on: it submits no
\* ACCEPT after having cancelled one, whatever it crosses on its way.  So what
\* holds of the listening socket for such a caller holds here.
ListenSpec == L!Spec /\ []~resubmitted

\* While both ends listen, two distinct ACCEPTs are pending, each of them in
\* one place: the forwarder never runs out of them.
AcceptPlaces(r) ==
    {p \in {"call", "queue", "answer"} :
        \/ p = "call" /\ Underway("far", AcceptCall(r))
        \/ p = "queue" /\ calls[r] = "waiting"
        \/ p = "answer" /\ \E c \in Clients : Underway("near", AcceptOk(r, c))}
AcceptsPending ==
    (forwarder = "listening" /\ listener = "open") =>
        /\ \A s \in Slots : slots[s] # 0 /\ Cardinality(AcceptPlaces(slots[s])) = 1
        /\ slots[1] # slots[2]

\* PROTOCOL, ACCEPT: "The caller responds with either ACCEPTED or CLOSE".
Answered(c) ==
    \/ \E r \in 1 .. MaxAccepts : Underway("near", AcceptOk(r, c))
    \/ sock["near"][c] = "connecting"
    \/ Underway("far", Accepted(c))
    \/ Underway("far", Close(c))
AcceptedOrClosed ==
    \A c \in Clients : sock["far"][c] = "waiting" => Answered(c)

\* It does so at least until the forwarder is removed.
AnsweredUnlessRemoved == forwarder # "gone" => AcceptedOrClosed

\* The listening socket of a forwarder that knows it goes away with it.
ListenerFollows == (forwarder = "gone" /\ rid) ~> (listener = "gone")

\* Once one end of an established connection is gone, the other goes too,
\* whatever becomes of the forwarder and of the listening socket.
ClosePropagates ==
    \A c \in Clients :
        (c \in links /\ \E p \in Peers : sock[p][c] = "gone")
            ~> (\A p \in Peers : sock[p][c] = "gone")

=============================================================================
