---------------------------- MODULE StreamForward ----------------------------
(***************************************************************************)
(* A local stream forwarder and the connections made through it: the       *)
(* listening entry (fwd_entry_stream_forward_local.c), the connection set  *)
(* up (fwd_op_connect_remote.c on the "local" peer, the SOCKET request and *)
(* fwd_op_connect_local.c on the "remote" one), the stream sockets at both *)
(* ends (fwd_entry_stream_socket.c) with their write queues                *)
(* (fwd_socket_io.c), and the two directions of the transport, which       *)
(* giorpc delivers reliably and in order.                                  *)
(*                                                                         *)
(* A call that succeeds without changing anything at the caller (DATA) has *)
(* no answer here.  The answers that matter travel through the same FIFO   *)
(* as requests.  Cancelling a call makes the caller ignore the answer.     *)
(***************************************************************************)
EXTENDS Integers, Sequences, FiniteSets

CONSTANTS
    MaxConn,   \* bound: connections accepted by the forwarder
    MaxBytes,  \* bound: bytes that an application writes to a connection
    FirstId    \* for each peer, the next value of its socket id counter

Peers == {"local", "remote"}
Other(p) == IF p = "local" THEN "remote" ELSE "local"

ASSUME ParametersAssumption ==
    /\ MaxConn \in Nat \ {0}
    /\ MaxBytes \in Nat
    /\ FirstId \in [Peers -> Nat \ {0}]

\* The ids that the peers can get to, 0 being no id.
Ids(p) == FirstId[p] .. FirstId[p] + MaxConn - 1
End == UNION {{p} \X Ids(p) : p \in Peers}

VARIABLES
    listener,  \* the forwarder: "accepting", "stalled" or "gone"
    entry,     \* the stream socket entries of both peers
    nextId,    \* for each peer, the id of the next entry
    chan,      \* for each peer, the messages on their way to it
    taken,     \* number of bytes read from the application at each end
    given,     \* the bytes written to the application at each end
    links,     \* history: pairs of entries that know each other
    cause      \* history: why an entry has been removed

data == <<taken, given>>
vars == <<listener, entry, nextId, chan, data, links, cause>>

-----------------------------------------------------------------------------
(* Entries and messages *)

\* phase: not created yet, in the table of the peer, removed from it.
\* pending: what the entry is waiting for: the answer to SOCKET or CONNECT
\* (at the local peer) or its own connect() (at the remote one).
\* A buffer of the write queue holds the bytes lo .. hi of the stream, of
\* which "sent" have been written.
Buffer == [lo : Nat, hi : Nat, sent : Nat]
Entry == [phase : {"new", "up", "gone"},
          rid : Nat,
          io : BOOLEAN,
          reading : BOOLEAN,
          pending : {"none", "SOCKET", "CONNECT", "connect"},
          wq : Seq(Buffer)]

Blank == [phase |-> "new", rid |-> 0, io |-> FALSE, reading |-> FALSE,
          pending |-> "none", wq |-> <<>>]
Gone == [Blank EXCEPT !.phase = "gone"]

Up(e) == entry[e].phase = "up"

\* Requests carry the recipient's id, except SOCKET, which carries the
\* sender's; answers are matched to the caller's entry by giorpc.
Socket(id) == [type |-> "SOCKET", id |-> id]
SocketDone(id, rid) == [type |-> "SOCKET_done", id |-> id, rid |-> rid]
Connect(id, from) == [type |-> "CONNECT", id |-> id, from |-> from]
ConnectDone(id, ok) == [type |-> "CONNECT_done", id |-> id, ok |-> ok]
Data(id, lo, hi) == [type |-> "DATA", id |-> id, lo |-> lo, hi |-> hi]
DataError(id) == [type |-> "DATA_error", id |-> id]
Close(id) == [type |-> "CLOSE", id |-> id]

Send(p, msgs) == chan' = [chan EXCEPT ![Other(p)] = @ \o msgs]

\* p handles the message m, the first one on its way, and sends msgs.
Receive(p, m) == chan[p] # <<>> /\ m = Head(chan[p])
Handled(p, msgs) ==
    chan' = [chan EXCEPT ![p] = Tail(@), ![Other(p)] = @ \o msgs]

\* fwd_entry_stream_socket_dispose: CLOSE goes to the remote socket if it is
\* known, the write queue is dropped, the pending call is cancelled.
Closing(e) == IF entry[e].rid # 0 THEN <<Close(entry[e].rid)>> ELSE <<>>
Dispose(e, why) ==
    /\ entry' = [entry EXCEPT ![e] = Gone]
    /\ cause' = [cause EXCEPT ![e] = why]

\* Variant with a defect: no CLOSE.
RemoveSilently(e, why) ==
    /\ Up(e)
    /\ Dispose(e, why)
    /\ UNCHANGED <<listener, nextId, chan, data, links>>

\* An entry gives up outside of the handling of a message.
Remove(e, why) ==
    /\ Up(e)
    /\ Dispose(e, why)
    /\ Send(e[1], Closing(e))
    /\ UNCHANGED <<listener, nextId, data, links>>

-----------------------------------------------------------------------------
(* The forwarder *)

\* fwd_op_connect_remote_start: a new entry that has a socket but no
\* counterpart yet.  Its I/O is created right away, to notice errors; nothing
\* is read.
ConnectRemoteStart(id) ==
    /\ entry' = [entry EXCEPT ![<<"local", id>>] =
                    [Blank EXCEPT !.phase = "up", !.io = TRUE, !.pending = "SOCKET"]]
    /\ nextId' = [nextId EXCEPT !["local"] = id + 1]
    /\ Send("local", <<Socket(id)>>)

\* A client connects.
ConnectionAccepted ==
    /\ listener = "accepting"
    /\ nextId["local"] \in Ids("local")
    /\ ConnectRemoteStart(nextId["local"])
    /\ UNCHANGED <<listener, data, links, cause>>

\* The next accept is only submitted after a success.
AcceptError ==
    /\ listener = "accepting"
    /\ listener' = "stalled"
    /\ UNCHANGED <<entry, nextId, chan, data, links, cause>>

\* Removing the forwarder does not touch its connections.
RemoveListener ==
    /\ listener # "gone"
    /\ listener' = "gone"
    /\ UNCHANGED <<entry, nextId, chan, data, links, cause>>

-----------------------------------------------------------------------------
(* Setting a connection up *)

\* Variant with a defect: it confuses the ids.
HandleSocketOwnId ==
    \E i \in Ids("local") :
        /\ Receive("remote", Socket(i))
        /\ LET id == nextId["remote"] IN
            /\ entry' = [entry EXCEPT ![<<"remote", id>>] =
                            [Blank EXCEPT !.phase = "up", !.rid = id]]
            /\ nextId' = [nextId EXCEPT !["remote"] = id + 1]
            /\ Handled("remote", <<SocketDone(i, id)>>)
        /\ UNCHANGED <<listener, data, links, cause>>

\* The SOCKET request: fwd_peer_handle_control_socket creates an unconnected
\* stream socket that knows its counterpart, or answers with an error.
HandleSocket ==
    \E i \in Ids("local"), ok \in BOOLEAN :
        /\ Receive("remote", Socket(i))
        /\ IF ok
           THEN LET id == nextId["remote"] IN
                /\ entry' = [entry EXCEPT ![<<"remote", id>>] =
                                [Blank EXCEPT !.phase = "up", !.rid = i]]
                /\ nextId' = [nextId EXCEPT !["remote"] = id + 1]
                /\ Handled("remote", <<SocketDone(i, id)>>)
           ELSE /\ Handled("remote", <<SocketDone(i, 0)>>)
                /\ UNCHANGED <<entry, nextId>>
        /\ UNCHANGED <<listener, data, links, cause>>

\* Variant with a defect: it does not wait for the answer to CONNECT.
SocketCreatedReads ==
    \E i \in Ids("local"), rid \in Ids("remote") :
        /\ Receive("local", SocketDone(i, rid))
        /\ Up(<<"local", i>>)
        /\ entry' = [entry EXCEPT ![<<"local", i>>].rid = rid,
                                  ![<<"local", i>>].reading = TRUE,
                                  ![<<"local", i>>].pending = "CONNECT"]
        /\ links' = links \cup {<<i, rid>>}
        /\ Handled("local", <<Connect(rid, i)>>)
        /\ UNCHANGED <<listener, nextId, data, cause>>

\* fwd_op_connect_remote_socket_created; nothing if the call was cancelled.
SocketCreated ==
    \E i \in Ids("local"), rid \in Ids("remote") \cup {0} :
        /\ Receive("local", SocketDone(i, rid))
        /\ LET e == <<"local", i>> IN
           \/ /\ ~Up(e)
              /\ Handled("local", <<>>)
              /\ UNCHANGED <<entry, links, cause>>
           \/ /\ Up(e) /\ rid # 0
              /\ entry' = [entry EXCEPT ![e].rid = rid, ![e].pending = "CONNECT"]
              /\ links' = links \cup {<<i, rid>>}
              /\ Handled("local", <<Connect(rid, i)>>)
              /\ UNCHANGED cause
           \/ /\ Up(e) /\ rid = 0
              /\ Dispose(e, "error")
              /\ Handled("local", <<>>)
              /\ UNCHANGED links
        /\ UNCHANGED <<listener, nextId, data>>

\* The CONNECT request starts an asynchronous connect().
HandleConnect ==
    \E i \in Ids("remote"), from \in Ids("local") :
        /\ Receive("remote", Connect(i, from))
        /\ LET e == <<"remote", i>> IN
           \/ /\ Up(e)
              /\ entry' = [entry EXCEPT ![e].pending = "connect"]
              /\ Handled("remote", <<>>)
           \/ /\ ~Up(e)
              /\ Handled("remote", <<ConnectDone(from, FALSE)>>)
              /\ UNCHANGED entry
        /\ UNCHANGED <<listener, nextId, data, links, cause>>

\* fwd_op_connect_local_done: start reading, then answer.  After a failure
\* the entry stays until the caller closes it.
ConnectLocalDone(e, ok) ==
    /\ Up(e) /\ entry[e].pending = "connect"
    /\ entry' = [entry EXCEPT ![e].pending = "none",
                              ![e].io = @ \/ ok,
                              ![e].reading = @ \/ ok]
    /\ Send(e[1], <<ConnectDone(entry[e].rid, ok)>>)
    /\ UNCHANGED <<listener, nextId, data, links, cause>>

\* fwd_op_connect_remote_done; nothing if the call was cancelled.
ConnectRemoteDone ==
    \E i \in Ids("local"), ok \in BOOLEAN :
        /\ Receive("local", ConnectDone(i, ok))
        /\ LET e == <<"local", i>> IN
           \/ /\ ~Up(e)
              /\ Handled("local", <<>>)
              /\ UNCHANGED <<entry, cause>>
           \/ /\ Up(e) /\ ok
              /\ entry' = [entry EXCEPT ![e].reading = TRUE, ![e].pending = "none"]
              /\ Handled("local", <<>>)
              /\ UNCHANGED cause
           \/ /\ Up(e) /\ ~ok
              /\ Dispose(e, "error")
              /\ Handled("local", Closing(e))
        /\ UNCHANGED <<listener, nextId, data, links>>

-----------------------------------------------------------------------------
(* Transferring data *)

\* fwd_socket_io_handle_read and fwd_entry_stream_socket_io_receive: n more
\* bytes from the application go out in a DATA call.
Read(e, n) ==
    /\ Up(e) /\ entry[e].reading
    /\ taken[e] + n <= MaxBytes
    /\ taken' = [taken EXCEPT ![e] = @ + n]
    /\ Send(e[1], <<Data(entry[e].rid, taken[e] + 1, taken[e] + n)>>)
    /\ UNCHANGED <<listener, entry, nextId, given, links, cause>>

\* fwd_entry_stream_socket_data queues the data for the application.  The
\* request is not answered when there is no such entry, nor if the entry has
\* no I/O.
HandleData(p) ==
    \E i \in Ids(p), lo, hi \in 1 .. MaxBytes :
        /\ Receive(p, Data(i, lo, hi))
        /\ entry' = IF Up(<<p, i>>) /\ entry[<<p, i>>].io
                    THEN [entry EXCEPT ![<<p, i>>].wq =
                            Append(@, [lo |-> lo, hi |-> hi, sent |-> 0])]
                    ELSE entry
        /\ Handled(p, <<>>)
        /\ UNCHANGED <<listener, nextId, data, links, cause>>

\* Variant with a defect: it forgets what has been written of the buffer.
WriteFromStart(e, n) ==
    /\ Up(e) /\ entry[e].wq # <<>>
    /\ LET b == Head(entry[e].wq) IN
        /\ b.sent + n <= b.hi - b.lo + 1
        /\ given' = [given EXCEPT ![e] = @ \o [k \in 1 .. n |-> b.lo + k - 1]]
        /\ entry' = [entry EXCEPT ![e].wq =
                        IF b.lo + b.sent + n > b.hi THEN Tail(@)
                        ELSE <<[b EXCEPT !.sent = @ + n]>> \o Tail(@)]
    /\ UNCHANGED <<listener, nextId, chan, taken, links, cause>>

\* Variant with a defect: it compares the sizes wrongly.
WritePastEnd(e, n) ==
    /\ Up(e) /\ entry[e].wq # <<>>
    /\ LET b == Head(entry[e].wq)
           first == b.lo + b.sent
           last == first + n - 1
       IN /\ last <= b.hi + 1
          /\ given' = [given EXCEPT ![e] = @ \o [k \in 1 .. n |-> first + k - 1]]
          /\ entry' = [entry EXCEPT ![e].wq =
                          IF last > b.hi THEN Tail(@)
                          ELSE <<[b EXCEPT !.sent = @ + n]>> \o Tail(@)]
    /\ UNCHANGED <<listener, nextId, chan, taken, links, cause>>

\* fwd_socket_io_handle_write: the socket accepts n bytes of the first buffer.
Write(e, n) ==
    /\ Up(e) /\ entry[e].wq # <<>>
    /\ LET b == Head(entry[e].wq)
           first == b.lo + b.sent
           last == first + n - 1
       IN /\ last <= b.hi
          /\ given' = [given EXCEPT ![e] = @ \o [k \in 1 .. n |-> first + k - 1]]
          /\ entry' = [entry EXCEPT ![e].wq =
                          IF last = b.hi THEN Tail(@)
                          ELSE <<[b EXCEPT !.sent = @ + n]>> \o Tail(@)]
    /\ UNCHANGED <<listener, nextId, chan, taken, links, cause>>

\* The socket refuses the data: an error is the answer to the DATA call, and
\* the error callback removes the entry.
WriteError(e) ==
    /\ Up(e) /\ entry[e].wq # <<>>
    /\ Dispose(e, "error")
    /\ Send(e[1], <<DataError(entry[e].rid)>> \o Closing(e))
    /\ UNCHANGED <<listener, nextId, data, links>>

\* fwd_entry_stream_socket_io_remote_data_sent with an error.
DataFailed(p) ==
    \E i \in Ids(p) :
        /\ Receive(p, DataError(i))
        /\ LET e == <<p, i>> IN
           \/ /\ Up(e)
              /\ Dispose(e, "error")
              /\ Handled(p, Closing(e))
           \/ /\ ~Up(e)
              /\ Handled(p, <<>>)
              /\ UNCHANGED <<entry, cause>>
        /\ UNCHANGED <<listener, nextId, data, links>>

-----------------------------------------------------------------------------
(* Closing *)

\* The application closes its end after the last byte.
EndOfFile(e) == entry[e].reading /\ Remove(e, "eof")

\* The connection to the application breaks; noticed once the I/O exists.
Hangup(e) == entry[e].io /\ Remove(e, "error")

\* fwd_peer_remove_forwarder with the id of a connection.
RemoveConnection(e) == Remove(e, "api")

\* fwd_entry_stream_socket_close forgets the counterpart, so that no CLOSE
\* goes back, and removes the entry.
HandleClose(p) ==
    \E i \in Ids(p) :
        /\ Receive(p, Close(i))
        /\ LET e == <<p, i>> IN
           \/ Up(e) /\ Dispose(e, "peer")
           \/ ~Up(e) /\ UNCHANGED <<entry, cause>>
        /\ Handled(p, <<>>)
        /\ UNCHANGED <<listener, nextId, data, links>>

-----------------------------------------------------------------------------

Init ==
    /\ listener = "accepting"
    /\ entry = [e \in End |-> Blank]
    /\ nextId = FirstId
    /\ chan = [p \in Peers |-> <<>>]
    /\ taken = [e \in End |-> 0]
    /\ given = [e \in End |-> <<>>]
    /\ links = {}
    /\ cause = [e \in End |-> "none"]

\* What arrives is handled by one of these.
Deliver ==
    \/ HandleSocket \/ SocketCreated \/ HandleConnect \/ ConnectRemoteDone
    \/ \E p \in Peers : HandleData(p) \/ DataFailed(p) \/ HandleClose(p)

Next ==
    \/ Deliver
    \/ ConnectionAccepted \/ AcceptError \/ RemoveListener
    \/ \E e \in End :
        \/ \E ok \in BOOLEAN : ConnectLocalDone(e, ok)
        \/ \E n \in 1 .. MaxBytes : Read(e, n) \/ Write(e, n)
        \/ WriteError(e)
        \/ EndOfFile(e) \/ Hangup(e) \/ RemoveConnection(e)

Spec == Init /\ [][Next]_vars

\* The transport delivers; applications and users do what they like.
FairSpec == Spec /\ WF_vars(Deliver)

-----------------------------------------------------------------------------
(* Properties *)

Messages ==
    (UNION {{Close(i), DataError(i)} : i \in UNION {Ids(p) : p \in Peers}})
    \cup {Socket(i) : i \in Ids("local")}
    \cup {SocketDone(i, r) : i \in Ids("local"), r \in Ids("remote") \cup {0}}
    \cup {Connect(r, i) : i \in Ids("local"), r \in Ids("remote")}
    \cup {ConnectDone(i, ok) : i \in Ids("local"), ok \in BOOLEAN}
    \cup {Data(i, lo, hi) : i \in UNION {Ids(p) : p \in Peers},
                            lo, hi \in 1 .. MaxBytes}

TypeOK ==
    /\ listener \in {"accepting", "stalled", "gone"}
    /\ entry \in [End -> Entry]
    /\ nextId \in [Peers -> Nat]
    /\ chan \in [Peers -> Seq(Messages)]
    /\ taken \in [End -> 0 .. MaxBytes]
    /\ given \in [End -> Seq(1 .. MaxBytes)]
    /\ links \subseteq Ids("local") \X Ids("remote")
    /\ cause \in [End -> {"none", "eof", "error", "api", "peer"}]

\* Two entries that refer to each other's peer refer to each other: the rid
\* of an entry is never the id of somebody else's counterpart, although the
\* two peers number their sockets independently.
CounterpartsAgree ==
    \A e \in End : Up(e) /\ entry[e].rid # 0 =>
        LET f == <<Other(e[1]), entry[e].rid>> IN
        /\ f \in End
        /\ Up(f) => entry[f].rid = e[2] \/ entry[f].pending = "SOCKET"

\* GASSERT(self->io) of fwd_entry_stream_socket_data: when DATA arrives, its
\* entry has somewhere to write it.  It depends on both ends: nothing is read
\* before the answer to CONNECT, and that answer is sent after the I/O exists.
DataFindsIo ==
    \A p \in Peers : \A i \in Ids(p) :
        /\ chan[p] # <<>>
        /\ Head(chan[p]).type = "DATA" /\ Head(chan[p]).id = i
        /\ Up(<<p, i>>)
        => entry[<<p, i>>].io

\* The two applications see the pipe of StreamPipe: whatever happens to the
\* entries, each of them receives a prefix of what the other one has written,
\* through one connection that belongs to the two of them only.
Pipe == INSTANCE StreamPipe WITH
            Locals <- Ids("local"), Remotes <- Ids("remote"), Limit <- MaxBytes,
            phase <- [e \in End |-> entry[e].phase]
PipeSpec == Pipe!Spec

\* Once one of two linked entries is gone the other one goes too, whoever
\* closed first and whatever was under way.  (An entry that is removed while
\* its SOCKET call is pending is never linked: the answer is ignored and the
\* remote socket stays.)
ClosePropagates ==
    \A a \in Ids("local"), b \in Ids("remote") :
        (<<a, b>> \in links /\ ~(Up(<<"local", a>>) /\ Up(<<"remote", b>>)))
            ~> ~(Up(<<"local", a>>) \/ Up(<<"remote", b>>))

\* The comment in fwd_entry_stream_socket_io_receive: all the data that was
\* received from the local socket is forwarded.  Here: if an application
\* finishes normally and the other end is closed only because of that, then
\* the other application has received everything.
AllDataForwarded ==
    \A l \in links : \A e, f \in {<<"local", l[1]>>, <<"remote", l[2]>>} :
        (e # f /\ cause[e] = "eof" /\ cause[f] = "peer")
            => Len(given[f]) = taken[e]

=============================================================================
