----------------------------- MODULE SocketRequest -----------------------------
(***************************************************************************)
(* The SOCKET request: the arguments of the API call that adds a           *)
(* forwarder, the fields of the request that they become                   *)
(* (fwd_control_client.c), how the far peer reads them                     *)
(* (fwd_control_service.c), the socket that it makes of them (fwd_peer.c   *)
(* and the constructors of the listening entries), and what the caller     *)
(* makes of the answer.                                                    *)
(*                                                                         *)
(* A request is a function from the names of the fields that it has to     *)
(* their values.  An address counts by its family only.  The widths of     *)
(* numbers are constants.                                                  *)
(***************************************************************************)
EXTENDS Integers

CONSTANTS
    Modulus,         \* 2^32: a guint is less than that
    IdMax,           \* FWD_SOCKET_ID_MAX
    Milli,           \* G_TIME_SPAN_MILLISECOND, microseconds in a millisecond
    BacklogDefault,  \* DEFAULT_BACKLOG of a datagram socket
    TimeoutDefault,  \* DEFAULT_CONN_TIMEOUT_MS
    LimitDefault     \* DEFAULT_CONN_LIMIT

ASSUME WidthAssumption ==
    /\ {Modulus, IdMax, Milli, BacklogDefault, TimeoutDefault, LimitDefault}
            \subseteq Nat \ {0}
    /\ IdMax < Modulus /\ TimeoutDefault * Milli < Modulus

\* FWD_BACKLOG_DEFAULT; the default of a stream socket is that of GLib.
Default == -1

ToUint(n) == n % Modulus
ToInt(u) == IF 2 * u >= Modulus THEN u - Modulus ELSE u

-----------------------------------------------------------------------------
(* The caller *)

\* The fields of a request for a listening socket, from the arguments that a
\* remote forwarder gets from the API.  The family is the one of the target.
\* A field that is zero is left out.
Request(id, asked) ==
    LET timeout == IF asked.timeout = 0 THEN TimeoutDefault ELSE asked.timeout
        datagram == asked.type = "datagram"
        number == [backlog |-> ToUint(asked.backlog),
                   timeout |-> IF datagram THEN timeout ELSE 0,
                   maxconn |-> IF datagram THEN asked.limit ELSE 0]
        fixed == [id |-> id, family |-> asked.to, type |-> asked.type,
                  address |-> asked.family, flags |-> {"listen"}]
    IN [f \in DOMAIN fixed \cup {n \in DOMAIN number : number[n] # 0} |->
            IF f \in DOMAIN fixed THEN fixed[f] ELSE number[f]]

-----------------------------------------------------------------------------
(* The far peer *)

Has(t, field) == field \in DOMAIN t
Get(t, field, default) == IF Has(t, field) THEN t[field] ELSE default

\* Variant with a defect: the greatest id is refused.
IsIdBelow(n) == n \in 1 .. IdMax - 1

\* fwd_decode_uint_mbn, fwd_decode_socket_id
IsUint(n) == n < Modulus
IsId(n) == n \in 1 .. IdMax

\* The family of the socket: the one of the address, which must be the one that
\* is given if both are.
Family(t) == Get(t, "address", Get(t, "family", "inet"))

\* What fwd_control_service_handle_socket lets pass.  "inet" and "inet6" are
\* the families that GLib makes an address of; "bad" is more than AF_MAX,
\* "short" an address that ends before its family or its port.
Accepts(t) ==
    /\ Has(t, "id") /\ IsId(t.id)
    /\ Get(t, "type", "stream") \in {"stream", "datagram"}
    /\ Has(t, "family") => t.family # "bad"
    /\ Has(t, "family") /\ Has(t, "address") => t.family = t.address
    /\ Has(t, "backlog") => "listen" \in Get(t, "flags", {})
    /\ \A f \in {"backlog", "timeout", "maxconn"} : Has(t, f) => IsUint(t[f])
    /\ Family(t) \in {"inet", "inet6"}

OrDefault(n, default) == IF n = 0 THEN default ELSE n

\* Variant with a defect: the limit is read as a number of milliseconds too.
SettingsMixed(t) ==
    LET timeout == ToUint(Get(t, "timeout", 0) * Milli) IN
    [backlog |-> OrDefault(Get(t, "backlog", 0), BacklogDefault),
     timeout |-> OrDefault(timeout, TimeoutDefault * Milli),
     limit |-> OrDefault(Get(t, "timeout", 0), LimitDefault)]

\* fwd_entry_datagram_listen_new: what is in effect at the socket, the timeout
\* in microseconds.  It comes as a guint.
DatagramSettings(t) ==
    LET timeout == ToUint(Get(t, "timeout", 0) * Milli) IN
    [backlog |-> OrDefault(Get(t, "backlog", 0), BacklogDefault),
     timeout |-> OrDefault(timeout, TimeoutDefault * Milli),
     limit |-> OrDefault(Get(t, "maxconn", 0), LimitDefault)]

\* fwd_entry_stream_listen_new, whose backlog is an int
StreamSettings(t) ==
    LET backlog == ToInt(Get(t, "backlog", 0)) IN
    [backlog |-> IF backlog >= 0 THEN backlog ELSE Default]

\* The socket for a request that was accepted.
NewSocket(t) ==
    [rid |-> t.id, type |-> Get(t, "type", "stream"), family |-> Family(t),
     settings |-> IF "listen" \notin Get(t, "flags", {}) THEN [none |-> TRUE]
                  ELSE IF Get(t, "type", "stream") = "datagram"
                       THEN DatagramSettings(t) ELSE StreamSettings(t)]

-----------------------------------------------------------------------------
(* The answer.  An error is an errno. *)

\* fwd_control_call_socket_complete: the id, an error as a negative number, or
\* 0 if the answer makes no sense or the call has failed.
Completed(answer) ==
    IF DOMAIN answer = {"id", "address"}
        THEN IF IsId(answer.id) /\ answer.address \in {"inet", "inet6"}
             THEN answer.id ELSE 0
    ELSE IF DOMAIN answer = {"error"} /\ 2 * answer.error < Modulus - 2
        THEN - answer.error
    ELSE 0

=============================================================================
