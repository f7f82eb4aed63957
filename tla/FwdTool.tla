-------------------------------- MODULE FwdTool --------------------------------
(***************************************************************************)
(* The command line tool (tools/fwd/fwd.c) as a client and as the server   *)
(* that it talks to, with one TCP connection between them.  The client     *)
(* either checks the connection or adds one forwarder, whose SOCKET call   *)
(* (SocketRequest) the server answers.  The client may also be another     *)
(* program, which sends the server one request that it likes.              *)
(*                                                                         *)
(* Of FwdPeer there are the states of the two peers, and that forwarders   *)
(* are started when INFO has been answered.                                *)
(***************************************************************************)
EXTENDS SocketRequest

CONSTANTS
    Forwarders,  \* what a client may ask for: type, backlog, timeout, limit,
                 \* family of the listening socket and of the target (to)
    Requests,    \* the requests of other clients
    ListenerId,  \* the id that the client's forwarder gets
    SocketId,    \* the id that the server's next socket gets
    Errors       \* the errors that making a socket may end with

VARIABLES
    mode,     \* what the options of the client ask for, "other" if it is
              \* another program
    asked,    \* the forwarder to add, if mode is "forward"
    client,   \* what the client is doing; "quit": its main loop has ended
    error,    \* run.error is set
    signal,   \* run.cancel is cancelled
    ret,      \* run.ret
    exit,     \* the exit status of the client, "none" before that
    peer,     \* the state of the client's FwdPeer
    server,   \* the server: its socket is "listening", its accept has failed
              \* ("deaf"), or it has ended
    link,     \* the connection: "waiting" until the server accepts it
    info,     \* the INFO call of the client
    call,     \* its SOCKET call: the request, then the answer, then the result
    socket,   \* the socket that this has made at the server
    other,    \* the request of the other program, and what became of it
    answered  \* history: has the server accepted the connection and answered INFO?

process == <<mode, asked, client, error, signal, ret, exit>>
calls == <<info, call>>
far == <<socket, other, answered>>
vars == <<process, peer, server, link, calls, far>>

None == [none |-> TRUE]
EINVAL == 22

\* So that a request that was refused is told from one that could not be met.
ASSUME ErrorsAssumption == Errors \subseteq Nat \ {0, EINVAL}

\* A backlog is an int of the API, a timeout and a limit are guints.
ASSUME ForwardersAssumption ==
    /\ {ListenerId, SocketId} \subseteq 1 .. IdMax
    /\ Forwarders \subseteq
        [type : {"stream", "datagram"},
         backlog : {b \in Int : -Modulus <= 2 * b /\ 2 * b < Modulus},
         timeout : 0 .. Modulus - 1, limit : 0 .. Modulus - 1,
         family : {"inet", "inet6"}, to : {"inet", "inet6"}]

\* A step of the SOCKET call, and what it has brought so far.
CallAt(step, value) == [step |-> step, value |-> value]

-----------------------------------------------------------------------------
(* The client *)

\* g_option_context_parse or fwd_opt_parse refuses the command line.
ParseFails ==
    /\ client = "parsing" /\ mode # "other"
    /\ exit' = "CMDLINE" /\ client' = "gone"
    /\ UNCHANGED <<mode, asked, error, signal, ret, peer, server, link, calls, far>>

\* fwd_client_run
ClientRun ==
    /\ client = "parsing" /\ mode \in {"check", "forward"}
    /\ client' = "connecting"
    /\ UNCHANGED <<mode, asked, error, signal, ret, exit, peer, server, link, calls, far>>

\* main, with the address "-": the connection is there, the program at the other
\* end of it being a peer like the server's.
StdioRun ==
    /\ client = "parsing" /\ mode = "stdio"
    /\ client' = "running" /\ peer' = "STARTING"
    /\ link' = "up" /\ info' = "called"
    /\ UNCHANGED <<mode, asked, error, signal, ret, exit, server, call, far>>

\* fwd_client_connect_done with an error
ConnectFails ==
    /\ client = "connecting"
    /\ error' = TRUE /\ client' = "quit"
    /\ UNCHANGED <<mode, asked, signal, ret, exit, peer, server, link, calls, far>>

\* fwd_client_connect_done.  The kernel of the server makes the connection, as
\* long as the listening socket is open.  A forwarder that can't be added at
\* the local side ends the tool.
ConnectDone ==
    /\ client = "connecting" /\ server # "gone"
    /\ \/ /\ client' = "running" /\ peer' = "STARTING"
          /\ link' = "waiting" /\ info' = "called"
          /\ UNCHANGED error
       \/ /\ mode = "forward"
          /\ client' = "quit" /\ error' = TRUE
          /\ UNCHANGED <<peer, link, info>>
    /\ UNCHANGED <<mode, asked, signal, ret, exit, server, call, far>>

\* Variant with a defect: RET_ERR only for STOPPED, as with forwarders.
StateHandlerLenient(state) ==
    \/ /\ mode = "check" \/ state = "STOPPED"
       /\ client' = "quit"
       /\ UNCHANGED ret
    \/ /\ mode # "check" /\ state # "STOPPED"
       /\ UNCHANGED <<client, ret>>

\* Variant with a defect: a check takes no notice of STOPPED.
StateHandlerWaits(state) ==
    \/ /\ (mode = "check") = (state = "STARTED")
       /\ ret' = IF state = "STARTED" THEN "OK" ELSE "ERR"
       /\ client' = "quit"
    \/ /\ (mode = "check") # (state = "STARTED")
       /\ UNCHANGED <<client, ret>>

\* fwd_run_state_handler: a check ends with the first change of the state.
StateHandler(state) ==
    \/ /\ mode = "check"
       /\ ret' = IF state = "STARTED" THEN "OK" ELSE "ERR"
       /\ client' = "quit"
    \/ /\ mode # "check" /\ state = "STOPPED"
       /\ ret' = "ERR"
       /\ client' = "quit"
    \/ /\ mode # "check" /\ state # "STOPPED"
       /\ UNCHANGED <<client, ret>>

\* The answer to INFO.  The forwarder is started, then the handler is called.
InfoDone ==
    /\ client = "running" /\ peer = "STARTING" /\ info \in {"answered", "failed"}
    /\ peer' = IF info = "answered" THEN "STARTED" ELSE "STOPPED"
    /\ info' = "done"
    /\ StateHandler(peer')
    /\ call' = IF asked # None /\ peer' = "STARTED"
               THEN CallAt("request", Request(ListenerId, asked)) ELSE call
    /\ UNCHANGED <<mode, asked, error, signal, exit, server, link, far>>

\* The connection is broken, and the peer stops with its transport.
PeerStops ==
    /\ client = "running" /\ link = "broken" /\ peer # "STOPPED"
    /\ peer' = "STOPPED"
    /\ StateHandler("STOPPED")
    /\ UNCHANGED <<mode, asked, error, signal, exit, server, link, calls, far>>

\* fwd_entry_datagram_forward_remote_socket_complete and its stream twin: the
\* forwarder listens or is in error, which the tool takes no notice of.
SocketComplete ==
    /\ client = "running" /\ call.step = "answer"
    /\ call' = CallAt("result", Completed(call.value))
    /\ UNCHANGED <<process, peer, server, link, info, far>>

\* fwd_signal
Signal ==
    /\ client \in {"connecting", "running"} /\ ~signal
    /\ signal' = TRUE /\ client' = "quit"
    /\ UNCHANGED <<mode, asked, error, ret, exit, peer, server, link, calls, far>>

\* main, after the loop.  The process ends and with it the connection.
Exit ==
    /\ client = "quit"
    /\ client' = "gone"
    /\ exit' = IF error \/ signal THEN "ERR" ELSE ret
    /\ link' = IF link = "none" THEN link ELSE "broken"
    /\ UNCHANGED <<mode, asked, error, signal, ret, peer, server, calls, far>>

-----------------------------------------------------------------------------
(* The server *)

\* fwd_server_accept_done: a peer for the connection, and the next accept.
AcceptDone ==
    /\ server = "listening" /\ link = "waiting"
    /\ link' = "up"
    /\ UNCHANGED <<process, peer, server, calls, far>>

\* The same with an error: there is no other accept, but the server runs on,
\* with the socket open.
AcceptError ==
    /\ server = "listening"
    /\ server' = "deaf"
    /\ UNCHANGED <<process, peer, link, calls, far>>

\* A signal ends the server.
ServerEnds ==
    /\ server # "gone"
    /\ server' = "gone"
    /\ link' = IF link = "none" THEN link ELSE "broken"
    /\ UNCHANGED <<process, peer, calls, far>>

\* fwd_control_service_handle_info; the client may not like the answer.
HandleInfo ==
    /\ link = "up" /\ info = "called"
    /\ info' \in {"answered", "failed"}
    /\ answered' = (info' = "answered")
    /\ UNCHANGED <<process, peer, server, link, call, socket, other>>

Outcome(made, answer) == [made |-> made, answer |-> answer]

\* fwd_peer_handle_control_socket: the socket is made, or can't be.  If it was
\* made but can't listen, nobody answers; whether giorpc then makes an error of
\* that is not up to this code.
Made(t) ==
    {Outcome(NewSocket(t), [id |-> SocketId, address |-> Family(t)])}
    \cup {Outcome(None, [error |-> e]) : e \in Errors}
    \cup IF NewSocket(t).type = "stream" /\ "listen" \in Get(t, "flags", {})
         THEN {Outcome(None, None), Outcome(None, [failed |-> TRUE])} ELSE {}

\* fwd_control_service_handle_socket
Outcomes(t) == IF Accepts(t) THEN Made(t) ELSE {Outcome(None, [error |-> EINVAL])}

HandleClientSocket ==
    /\ link = "up" /\ call.step = "request"
    /\ \E o \in Outcomes(call.value) :
        /\ socket' = o.made
        /\ call' = CallAt(IF o.answer = None THEN "unanswered" ELSE "answer", o.answer)
    /\ UNCHANGED <<process, peer, server, link, info, other, answered>>

HandleOtherSocket(t) ==
    /\ mode = "other" /\ other = None /\ server # "gone"
    /\ \E o \in Outcomes(t) : other' = [request |-> t, outcome |-> o]
    /\ UNCHANGED <<process, peer, server, link, calls, socket, answered>>

-----------------------------------------------------------------------------

Init ==
    /\ \/ mode \in {"check", "stdio", "other"} /\ asked = None
       \/ mode = "forward" /\ asked \in Forwarders
    /\ client = "parsing"
    /\ error = FALSE /\ signal = FALSE /\ ret = "OK" /\ exit = "none"
    /\ peer = "none"
    /\ server = "listening"
    /\ link = "none"
    /\ info = "none" /\ call = CallAt("none", None)
    /\ socket = None /\ other = None /\ answered = FALSE

\* What the main loops of the two processes do by themselves.
Proceed ==
    \/ ClientRun \/ StdioRun \/ ConnectFails \/ ConnectDone \/ InfoDone \/ PeerStops
    \/ SocketComplete \/ Exit
    \/ AcceptDone \/ HandleInfo \/ HandleClientSocket

Next ==
    \/ Proceed
    \/ ParseFails \/ Signal \/ AcceptError \/ ServerEnds
    \/ \E t \in Requests : HandleOtherSocket(t)

Spec == Init /\ [][Next]_vars

\* The main loops run and TCP notices when the other process is gone.
FairSpec == Spec /\ WF_vars(Proceed)

-----------------------------------------------------------------------------
(* Properties *)

\* PROTOCOL, 2.3: what a request may contain, a family other than the two that
\* it names excepted.
Allowed(t) ==
    /\ Has(t, "id") /\ t.id \in 1 .. IdMax
    /\ Get(t, "family", "inet") \in {"inet", "inet6"}
    /\ Get(t, "type", "stream") \in {"stream", "datagram"}
    /\ Has(t, "address") => t.address = Get(t, "family", "inet")
    /\ Has(t, "backlog") => "listen" \in Get(t, "flags", {})
    /\ \A f \in {"backlog", "timeout", "maxconn"} :
        Has(t, f) => t[f] \in 1 .. Modulus - 1

\* No request that PROTOCOL allows is refused, whatever is left out of it, and
\* the socket is the one that it describes; none is made for one that is
\* refused (fwd_control_service_handle_socket).
RequestsAsAllowed ==
    other # None =>
        LET t == other.request
            made == other.outcome.made
            answer == other.outcome.answer
        IN /\ Allowed(t) => answer # [error |-> EINVAL]
           /\ (made # None /\ Allowed(t)) =>
                /\ made.rid = t.id
                /\ made.family = Get(t, "family", "inet")
                /\ made.type = Get(t, "type", "stream")
           /\ (made # None) <=> Has(answer, "id")

\* The settings that a forwarder asks for are in effect at the socket.  What a
\* datagram backlog below Default stands for is said nowhere, and no property
\* is about it.
Expected ==
    IF asked.type = "stream"
    THEN [backlog |-> IF asked.backlog < 0 THEN Default ELSE asked.backlog]
    ELSE [backlog |-> IF asked.backlog > 0 THEN asked.backlog ELSE BacklogDefault,
          timeout |-> Milli * OrDefault(asked.timeout, TimeoutDefault),
          limit |-> OrDefault(asked.limit, LimitDefault)]
InEffect == socket # None => socket.settings = Expected

\* What survives on its way through integers of other types.
InRange ==
    asked.type = "datagram" => asked.backlog >= 0 /\ asked.timeout * Milli < Modulus

\* When the call that opens a remote socket completes, the caller knows its id
\* if and only if there is such a socket, and this has the settings that were
\* asked for, if these are in range: they pass through an int, a guint, a
\* field that is left out if it is zero, a guint, a product and a guint.
SettingsInEffect ==
    call.step = "result" =>
        /\ (call.value > 0) <=> (socket # None)
        /\ InRange => InEffect

\* What FWD_BACKLOG_DEFAULT, FWD_TIMEOUT_DEFAULT and FWD_LIMIT_DEFAULT
\* (fwd_peer.h) ask for, which the tool passes if its options give no numbers:
\* the defaults are in effect at the socket.
DefaultsInEffect ==
    (call.step = "result" /\ asked.backlog = Default
        /\ asked.timeout = 0 /\ asked.limit = 0) => InEffect

\* "If no forwarding option is provided to the client, the client attempts to
\* connect to the server at ADDR and immediately exits, either with zero status
\* if the connection succeeds or with a non-zero status if the connection
\* fails" (main): the status belongs to what has happened at both ends.
StatusRight ==
    mode = "check" =>
        /\ exit = "OK" => answered
        /\ exit = "ERR" => signal \/ error \/ peer = "STOPPED"

\* It does exit, with that status, unless the server has ceased to accept.
CheckReports ==
    (mode = "check" /\ client = "connecting")
        ~> (exit \in {"OK", "ERR"} \/ server = "deaf")

=============================================================================
