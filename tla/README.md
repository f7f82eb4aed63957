# TLA+ models of libfwd

libfwd forwards TCP and UDP sockets between two processes ("peers") that are
connected by an RPC channel of libgiorpc. This directory has TLA+ modules for
the parts of the library that carry its logic, configurations that check them
with TLC, and theorems about eight of them that are checked by TLAPS.

Paths below are relative to the repository; `PROTOCOL` is its protocol document.

## The system

One `FwdPeer` wraps each end of the channel. It has a table of *entries*, one
per socket or forwarder, with a 28-bit id each. Requests of the other peer name
entries by id. Everything of one peer runs in one GLib main loop, so functions
are atomic with two exceptions: signal handlers run in the middle of some of
them and may call the API, and whatever waits for a call, a socket, an idle
callback or a timer is finished by a later event, when the world may have
changed. That, and the messages on their way in both directions, is what makes
this code hard.

| Component (src/src/) | State | Operations | Talks to |
|---|---|---|---|
| peer (`fwd_peer.c`) | `STARTING`/`STARTED`/`STOPPED`, the INFO call, table of entries, id counter | create, add a forwarder, remove, react to the transport, dispatch of CONNECT, ACCEPT, ACCEPTED, DATA, CLOSE, SOCKET | signals to the application, `start`/`dispose`/handlers of entries |
| local stream forwarder (`fwd_entry_stream_forward_local.c`) | listening socket | accept a client, make an entry for it | peer table, connect-remote operation |
| stream socket (`fwd_entry_stream_socket.c`, `fwd_socket_io.c`) | id of the counterpart, I/O with a write queue | read → DATA, DATA → write queue, CLOSE both ways | the counterpart at the other peer |
| connect operations (`fwd_op_connect_remote.c`, `fwd_op_connect_local.c`) | pending SOCKET or CONNECT call, pending `connect()` | SOCKET → CONNECT → start of the I/O | stream sockets of both peers |
| stream listening socket (`fwd_entry_stream_listen.c`) | queue of ACCEPT requests, one GCancellable | accept, cancel, complete | the caller at the other peer |
| remote stream forwarder (`fwd_entry_stream_forward_remote.c`) | id of the remote listening socket, two ACCEPT calls | SOCKET, ACCEPT (renewed), `connect()` to its target, ACCEPTED or CLOSE | stream listening socket |
| datagram listening socket (`fwd_entry_datagram_listen.c`, `fwd_entry_datagram_connection.c`) | queue of ACCEPTs, backlog, two maps of connections, inactivity timer; per connection: expiry, held packets, flush callback | receive, accept, cancel, expire, evict, flush, close | the caller at the other peer |
| remote datagram forwarder (`fwd_entry_datagram_forward_remote.c`) | id of the remote listening socket, two ACCEPT calls | SOCKET, ACCEPT (renewed), a socket for each connection, ACCEPTED or CLOSE | datagram listening socket |
| local datagram forwarder (`fwd_entry_datagram_forward_local.c`, `fwd_entry_datagram_connection.c`) | two maps of connections, inactivity timer; per connection: id of the far socket, pending call, held packets | receive, SOCKET → CONNECT → flush, expire, evict, DATA both ways, close | datagram sockets of the other peer |
| datagram socket (`fwd_entry_datagram_socket.c`) | id of the connection, target | CONNECT, DATA both ways, CLOSE both ways | the connection at the other peer |
| SOCKET request (`fwd_control_*.c`, constructors of entries) | none | API arguments → fields → socket → answer | remote forwarders, peer |
| command line tool (`tools/fwd/fwd.c`) | client: main loop, error, signal, exit status; server: listening socket | connect, check, forward, signal, exit; accept | two peers of its own |
| operations, references (`fwd_entry.c`, `fwd_op*.c`) | pending operations of an entry, reference counts | start, complete, cancel | part of the entries' actions |
| socket protocol (`fwd_socket_{client,service}.c`, `fwd_util.c`) | none | encoding and decoding of calls | messages of the models |
| libgiorpc | external | FIFO calls in both directions, cancellation | module `Transport` |

What makes each of them correct, in short: a peer's signals account for its
table and an entry is started once; the two ends of a stream connection belong
together, data is not mixed, repeated or reordered, and both ends close; ACCEPT
requests are completed in order and neither a client nor a request waits in
vain; each accepted connection is answered; the tables of datagram connections
agree, their limits hold, packets are forwarded once and to the address they
belong to, idle connections go away, at both peers; a listening socket has the
settings that were asked for; and a check of the connection tells the truth.

## The modules

| Module | Models |
|---|---|
| `FwdPeer` | one peer: INFO, start and stop, ids, the table, removals that take connections along, signals with handlers that call the API |
| `FwdPeerProofs` | theorems about it |
| `StreamPipe` | abstract: what applications at the two ends of forwarded connections see |
| `StreamForward` | a local forwarder and its connections at both peers, with the transport between them; implements `StreamPipe` |
| `StreamForwardProofs` | theorems about it: types, counterparts, data finds its socket, and that it implements `StreamPipe` |
| `StreamListen` | a stream listening socket opened for the other peer, for any caller of ACCEPT |
| `StreamListenProofs` | theorems about it |
| `StreamAccept` | a remote forwarder composed with `StreamListen` over the transport, and the accepted connections |
| `StreamAcceptProofs` | theorems about the composition |
| `DatagramListen` | a datagram listening socket, its backlog, connections and timer, and how each connection stands with the caller |
| `DatagramListenProofs` | theorems about it |
| `Transport` | the channels of the RPC connection, for the next two |
| `DatagramAccept` | a remote datagram forwarder composed with `DatagramListen` over `Transport`, and the sockets of accepted connections |
| `DatagramAcceptProofs` | theorems about the composition |
| `DatagramPipe` | abstract: what forwarded datagrams promise to the applications at both sides |
| `DatagramForward` | a local datagram forwarder, its connections and their sockets at the other peer; implements `DatagramPipe` |
| `DatagramForwardProofs` | theorems about it: its maps, its timer, types, the target of data, and that it implements `DatagramPipe` |
| `SocketRequest` | SOCKET from the arguments of the API to the settings of the socket, and the result |
| `FwdTool` | the command line tool as client and server, and other clients of that server, with `SocketRequest` |
| `FwdToolProofs` | theorems about both |
| `MC*` | instances for TLC |

Definitions named like their function or its purpose translate it; the comment
above gives the function, and `map` in `PROJECT.json` the lines. A definition
after "Variant with a defect" is not part of any specification: it is what a
mistake at that place would look like, and a property is shown to notice it.

### FwdPeer

`rpc` is the state of the transport, `state` that of the peer, `infoCall`
whether INFO is pending, `watching` whether the peer listens to the transport.
`kind` is the table (the type of the entry with that id, or none), `parent` says in
the maps of which entry a datagram connection is, `nextId` is the counter.
`frames` is the stack of functions that are suspended in a signal emission and have
something left to do:

- `fwd_entry_insert` ("insert") between SOCKET_ADDED and the start;
- the handler of CLOSE ("close") between the removal that `type->close` makes by
  itself and its own look at the table (`FinishClose`);
- a removal ("remove") of an entry that has connections. `g_hash_table_remove`
  disposes of the entry before SOCKET_REMOVED is emitted about it, and disposing of
  a datagram listener or a local datagram forwarder removes the connections in its
  maps (`rest`) one by one, each with a SOCKET_REMOVED of its own
  (`RemoveConnection`); the signal about the entry is the last (`FinishRemove`).
  `Remove` is common to `fwd_entry_remove`, `fwd_peer_remove_forwarder` and
  `fwd_peer_handle_socket_close`.

While the innermost frame is in an emission (`emitting`) the application's handlers
may add and remove entries (`AddForwarder`, `RemoveForwarder`), which nests further:
in the middle of a removal they may remove a connection that is about to be removed,
or get the id of one, or that of the entry, for a new entry. `starts` and `ledger`
are histories: how often an entry was started, and ADDED minus REMOVED signals per
id. `NextIdElsewhere` stands for other peers of the process, which share the counter.

The signals do not describe the table at every moment: while the connections of an
entry are being removed, it is out of the table and SOCKET_REMOVED has not been
emitted about it. `SignalsMatchTable` says that this is the only difference:
`ledger` is one for an id in the table, plus one for a suspended removal
(`BeingRemoved`), so that the signal that is owed comes, once. An application that
keeps a table of its own has to know this.

Not a step: a SOCKET_ADDED handler that removes the very entry being announced, or
the entry whose connection that is (`InUse`). The code then uses freed memory
(`fwd_peer.c:637-643`). Signals that come before an insertion in the same function
(an evicted connection, the state of an entry) have no frame: what a handler does
there is the same as a call just before the function, except if it removes the
entry that the function goes on to use, which again is not a step.

### StreamForward

Entries of both peers are records (`phase`, `rid` of the counterpart, `io`,
`reading`, the pending operation, the write queue); `chan[p]` has the messages
on their way to `p`. `ConnectionAccepted` runs the whole chain of the accept
callback, including the SOCKET call; `SocketCreated`, `HandleConnect`,
`ConnectLocalDone`, `ConnectRemoteDone` are the steps of the handshake; `Read`
and `HandleData` transfer, `Write` takes any part of the head of the queue;
`EndOfFile`, `Hangup`, `WriteError`, `DataFailed`, `RemoveConnection`,
`HandleClose` end it. Bytes are numbered, so "which bytes" is a pair of
numbers. `taken`, `given`, `links`, `cause` are histories.

`StreamPipe` is the promise: pairs of ends are made once and each end belongs to
one pair; each application gets the bytes of the other one, in order, no gaps.
`Pipe` in `StreamForward` is the refinement mapping (`phase` is the only
variable that is computed).

### StreamListen

`accept_reqs` is the queue; `cancel` whether there is a GCancellable, which
doubles as the flag that an asynchronous accept is pending. The code has no
count of asynchronous accepts, GIO has: `accepts` counts those started with the
present GCancellable (`own`), those whose GCancellable was dropped without being
cancelled (`stray`) and those that are about to report G_IO_ERROR_CANCELLED
(`cancelled`). `calls` records what became of each request and `resubmitted`
whether the caller has submitted one after cancelling another.

Not a step: an accept that gets a socket while the queue is empty. The code then
dereferences NULL; whether that can happen is the property `SomethingThere`.

### StreamAccept

The forwarder is at the peer "near", the listening socket at "far". The far
side's actions are those of `StreamListen` (`L!Accept(r)`, ...) joined with the
messages that trigger or follow them. `slots` are the two pending calls,
`sock[p][c]` the entries of the connection with the c-th client. The answer to a
call that is cancelled is dropped when it arrives. Requests that are released at
the disposal of the listening entry may or may not be answered with an error by
libgiorpc: both are steps. Not a step: the removal of a socket entry while its
`connect()` to the target runs, since the completion then uses an entry without
owner (`fwd_entry_stream_forward_remote.c:120`).

### DatagramListen

`accepts` and `backlog` are the two queues, `conns` and `idMap` the maps
`addr_map` and `id_map`, `table` the part of the peer's table. Times are ticks
that are left: a touched connection has `Timeout`, the timer counts down to
firing and is armed by `Schedule` exactly where the code arms it, with the value
the code computes. `Receive*`, `HandleAccept`, `HandleCancel`, `HandleAccepted`,
`Flush`, `HandleData`, `HandleClose`, `TimerFires`, `RemoveConnection`,
`RemoveListener` are the entry points. `caller` says how each connection stands
with the other peer. Two events are taken to read different times, so the
connection that was just made is never the "oldest" one that is evicted. The
lifetime of memory is not modelled (the connection's dispose omits the base one).

### DatagramAccept

The far side is an instance of `DatagramListen` (`L!...`): every step of it is
joined with what it tells the near peer (`Told`: CLOSE for the connections that
went, the answer to the ACCEPT that was completed). The near side has the
forwarder (`forwarder`, `rid`), its two calls (`slots`) and one socket for each
connection. DATA is not a message here, only the fact that it keeps a connection
alive: its way is the subject of `DatagramForward`. As in `StreamAccept`,
requests that are released with the listening socket may or may not be answered.

### DatagramForward

`conns` and `idMap` are the maps of the forwarder, `socks` the sockets at the far
peer. A connection that is touched expires after all that were touched before,
so its expiry is its place in `order`, and `TimerFires` lets any number of the
first ones be expired; there is no bound on time. `timer` is armed exactly where
the code looks (`ReceiveNew` looks before the connection is in the map). When several
connections go at once, their CLOSE calls are made in any order (the code goes
through a hash table).
`ReceiveKnown` sends or holds, `SocketCreated`, `SocketConnected` and `Flushed`
are the set-up, `HandleReply`, `DataFailed`, `HandleNearClose` and the far
peer's `Handle*` the rest. Packets are numbered; `origin`, `mate`, `known`,
`taken`, `given` are histories. `DataFailed` for a connection that is gone does
nothing; in the code its operation points to freed memory then.

`DatagramPipe` is the promise: each far socket speaks for one address; each packet
is given to the target at most once, by a socket that speaks for its address,
and each reply at most once, to the address for which its socket speaks. `Pipe`
is the refinement mapping: what is on its way is what connections hold and what
DATA messages carry, and the socket `s` speaks for `origin[mate[s]]`.

### SocketRequest and FwdTool

`Request` makes the fields from the arguments, `Accepts` is the validation of
`fwd_control_service_handle_socket`, `NewSocket` what `fwd_peer_handle_control_socket`
and the constructors of the listening entries make of the fields, `Completed` the
result at the caller. Numbers have the width of the C types: `ToUint` and `ToInt`
convert, and `Modulus` stands for 2^32, so that TLC takes a small one.

In `FwdTool` the client (`client`, `error`, `signal`, `ret`, `exit`, its peer) is
`main`, `fwd_client_run`, `fwd_client_connect_done` and `fwd_run_state_handler`;
`mode` is what its options ask for: check the connection, add a forwarder, or use
stdio. The server accepts until an error of accept makes it "deaf" (the code
does not accept again) or a signal ends it. With `mode = "other"` another program
sends the server any request of `Requests`. The tool takes no notice of a
forwarder that the server refuses: it keeps running.

## The runs

| Run | Bounds | What it shows |
|---|---|---|
| `peer` | ids 1..3 (mask 3), 3 entries, handlers nested twice, five types: the two that have connections, their connections, and stream sockets | `SignalsMatchTable`, `StartedOnce`, `StoppedWithTransport`, `StopIsFinal`: however INFO, failures, API calls inside handlers and remote requests interleave, signals account for the table, starts agree with it, and stop is final. `ForwardersGetStarted` (fair) |
| `stream` | 1 connection with 2 bytes each way, or 2 connections without data and with ids that overlap (`bound`) | `PipeSpec` (refinement), `DataFindsIo` (the assertion in `fwd_entry_stream_socket_data`), `CounterpartsAgree`: no id is mistaken for another connection's; `ClosePropagates` (fair) |
| `stream_loss` | 1 connection, 1 byte | **violated** `AllDataForwarded`: CLOSE drops the write queue |
| `slisten` | 5 ACCEPTs, 3 clients | `CompletedInOrder`, `FlagAgrees` (for callers that don't submit after cancelling), `ClientAccepted` (fair) |
| `saccept` | 2 clients, hence 4 ACCEPTs | `AcceptsPending`, `AnsweredUnlessRemoved`, `ListenSpec` (the forwarder is a caller that `FlagAgrees` applies to), `ListenerFollows` and `ClosePropagates` (fair) |
| `saccept_answer` | 2 clients | **violated** `AcceptedOrClosed`: forwarder removed while an answer is on its way |
| `dlisten` | 3 addresses, 3 ACCEPTs, 4 packets, 3 ids, backlog 3, 2 connections, timeout 2 | `MapsAgree`, `OneRoutePerAddress` (nobody waits in vain, no packet in two places), `LimitsHold`, `EndsAgree`, `CompletedInOrder`, `EachPacketOnce` |
| `dlisten_pending` | 1 of everything | **violated** `PendingExpire`: no timer for pending connections only |
| `dforward` | 2 addresses, 1 connection at a time, 2 connections made, 3 packets, 1 reply | `MapsAgree`, `DataFindsTarget` (the assertion in `fwd_entry_datagram_socket_data`), `SilenceIsNoticed`, `PipeSpec` (refinement), `EndsClose` (fair) |
| `daccept` | 2 addresses, 2 packets, hence 2 connections and 4 ACCEPTs, backlog 1, 1 connection at a time, timeout 1 | `AcceptsPending`, `SilentSocketCloses` and `ForwarderTakesAll` (fair) |
| `tool` | 400 forwarders, requests that lack any of six fields or have them out of range, a guint of 8 bits | `RequestsAsAllowed`, `SettingsInEffect`, `StatusRight` (the exit status of a check is what has happened), `CheckReports` (fair) |
| `tool_settings` | the same | **violated** `DefaultsInEffect`: a datagram forwarder that asks for the default backlog, timeout and limit, as the tool does, gets the greatest backlog |

Modules with rich state have one type invariant, `TypeOK`, checked by the first
run of the module; that of `StreamListen` is a theorem only.
`PROJECT.json` has, for each property of a passing run, a variant of one mapped
definition that makes TLC find that property violated.

**Bounds.** The number of clients, ACCEPTs, packets, bytes and ids bounds how
long a behaviour goes on, so deadlock is not checked where all of them can be
used up (`CHECK_DEADLOCK FALSE`); it is in `FwdPeer`, where other peers always
may take ids, and in `DatagramListen`, where time goes on. With as many ids as
entries the counter wraps around and skips ids in use. Three entries are the least
for an entry with two connections, so that a handler that runs when the first is
removed may remove the second, or add an entry, before the removal gets to it; two
nested emissions are the least for an insertion inside a removal inside a call. Two
bytes make a partial write; two connections with different first ids make every
confusion of local and remote ids visible. A second ACCEPT after a cancellation,
with a stale completion in between, takes two requests, and three more let
series overlap. In `MCStreamForward` the variable `bound` is chosen in the initial
state and limits what users and applications do, so that one run has an instance
with data and one with two connections. One connection that may be kept makes
every new address an eviction, in `dforward` while the evicted one may be in any
phase of its set-up; its third packet comes for an address whose connection is
new, being set up, or gone. In `daccept` a third connection would repeat the
second (both slots have been renewed by then). Settings go through two widths, so
values around the limits of each (a backlog of -2 to 1 or 127, a timeout of 0, 1 or
255 milliseconds, or of 25 or 26, whose product is just below and above a guint) are all that can differ. Three addresses with two allowed connections force an eviction
while another address is pending. In `DatagramListen` the addresses are
symmetric (no liveness is checked with symmetry).

**Fairness.** Transport: what has arrived is handled (`WF(Deliver)`; libgiorpc is
a main loop source and TCP or a pipe under it delivers). Main loop: suspended
functions resume when the handlers return; answers to INFO arrive; transports
that are starting or stopping get there. Those of `FwdPeer` are strong, since
other events may come in between any number of times. GIO: an asynchronous accept eventually gets a client that keeps waiting
(a listening socket is not overlooked) and cancellations are reported. GLib: time passes, timers that are due fire
and idle callbacks run. Applications and users are never assumed to do anything.

In `daccept` the ticks and the timer are separate, so the timer may be late, but
both go on. `FwdTool` assumes that main loops run and that TCP notices when the
other process ends; signals, errors of accept and the end of the server are never
assumed.

**What TLC found.** The four violated properties are quoted from comments, from a
header and from `PROTOCOL`; the findings in `PROJECT.json` give lines:

1. `fwd_socket_io_dispose` drops queued data when CLOSE arrives, so the end of a
   stream can overtake its last bytes if the receiver is slow.
2. The inactivity timer ignores pending datagram connections as long as there is
   no active one.
3. Removing a remote forwarder while the answer to an ACCEPT is on its way
   leaves the accepted connection open at the other peer, neither ACCEPTED nor
   closed.
4. `FWD_BACKLOG_DEFAULT` (-1) asks for the default backlog; for a remote datagram
   forwarder it arrives as 2^32 - 1, which is what the listening socket keeps (2^8 - 1 in the run, for a
   request with the numbers that the tool asks for if its options give none). A
   timeout of more than 2^32 microseconds wraps around in the same call.

Met while modelling, and true of the models, without a run of its own:

- A caller that cancels its ACCEPTs and submits another one can make a listening
  stream socket run two asynchronous accepts, the second of which finds the queue
  empty (`SomethingThere` of `StreamListen` fails then). The library's own
  forwarder never does that: `ListenSpec` of run `saccept`, `QueueNeverEmpty`.
- After an error of accept the server of the tool neither accepts again nor
  closes its socket; a client that checks the connection hangs (`CheckReports`
  excepts this case).
- The service takes requests that `PROTOCOL` excludes: a zero backlog, timeout or
  limit, and it refuses an address of another family than the one given, so a
  remote forwarder cannot listen on IPv6 for a target on IPv4
  (both are steps of `FwdTool`).
- ACCEPTED that comes after its connection has gone leaves the near socket
  without a counterpart until it sends something (`ForwarderTakesAll` excepts
  these); a SOCKET call that is cancelled leaves the far socket open, whichever
  entry made it.
- After an error of accept a local stream forwarder stays in the table and
  accepts nothing (`AcceptError`); a peer whose transport has stopped keeps its
  entries and their sockets.
- A full backlog loses its oldest entry before it is searched for the address of
  the packet, so a packet of a pending address may cost another one its place;
  what a connection holds until it knows its counterpart has no limit.
- The socket that a remote stream forwarder connects to its target is bound to the
  target's own address first (`fwd_entry_stream_forward_remote.c:325`), which only
  an address of the same host allows.
- The datagram socket is connected to its target inside `GASSERT`
  (`fwd_entry_datagram_socket.c:173`), hence in debug builds only.

## The proofs

TLAPS checks these for every value of the constants.

**FwdPeerProofs.** `IInv` is inductive: `TypeOK`, `SignalsMatchTable` and
`StartedOnce`, strengthened with `AnnouncedOnce` (a suspended insertion is about
an entry that is still in the table, not started, and of no other suspended
insertion: without it the start after SOCKET_ADDED could be a second one),
`Owned` (a connection's parent is in the table and of the type that has such
connections), `RemovedOnce` (an entry that is being removed has no connections left in
the table, no second suspended removal is about its id, and nothing that it will
still remove has connections or is what an older insertion is about: without it a
SOCKET_REMOVED could be owed twice, or an insertion go on with an entry that has gone),
`CloseOutermost` (requests are only dispatched from the main loop, so at most the
lowest frame is a CLOSE) and `Watched` (the peer listens to its transport until it
has stopped). Every function that removes an
entry rests on `RemoveStep`. There is a lemma per action, and the theorems `TypeCorrect`,
`SignalsCorrect`, `StartsCorrect`, `StopNoticed`; `StopFinal` is an action
property and follows from the same invariant.

**StreamListenProofs.** `OrderInv` is `TypeOK`, `QueueMatches` (the queue has
exactly the waiting requests, in increasing order), `ArrivedInOrder` and
`CompletedInOrder`; the removal from the middle of the queue needs
`RemoveAtFacts`, a lemma on `RemoveAt` of the community modules. It gives
`TypeCorrect` and `OrderCorrect`: requests are completed in order for *every*
caller. `OwnInv` adds `FlagAgrees` and `NoneAfterCancelled`: an accept that is
about to report its cancellation belongs to nobody, and the caller has used its
right to submit. This gives `FlagCorrect` and `QueueNeverEmpty` for callers that
do not submit after cancelling; for others it does not hold.

**StreamForwardProofs.** `DataFindsIo` and `CounterpartsAgree` compare entries of
two processes that only share messages, so neither is inductive. `SetupInv` is: it
follows a local id from the SOCKET request (`SocketOK`) to the answer
(`SocketDoneOK`) to the link (`LocalOK`), and says that it is in one of these at a
time. A remote entry is a `Pair` with a local id as soon as it is made, while its
answer is on the way, and for good once they are linked; `PairsMatch` is that
pairs are one to one. `SocketsInOrder` and `IdsInOrder` bound the ids of the
remote peer by those of the local one: otherwise it could make two entries for one
id, or more entries than there are ids. `ConnectOK` and `DataOK` say of each
CONNECT, its answer and each DATA call on the way that its two entries are linked,
and of the answer and of DATA that the remote entry has its I/O if it is still
there (the local one always has): that is the assertion in
`fwd_entry_stream_socket_data`. `BuffersOK` bounds the write queues, which type
correctness needs. Theorems: `SetupInvariant`, `TypeCorrect`, `CounterpartsRight`,
`DataAlwaysFindsIo`.

The refinement, in the same module: every step is a step of `StreamPipe` or leaves it
alone. The pipe gives an application the next bytes of the other one, so what has
to be known is that the head of a write queue is next: by `StreamsOK`, what has
been given to an application, then its write queue (`Queued`), then the DATA calls
on their way to it (`OnWay`) join without a gap up to what was taken at the other
end, for each entry that is up and linked. Entries without a counterpart have seen
no data; otherwise the parts would not join when two entries are linked. Each
action is one of three cases: it leaves data alone (most), it moves bytes from one
part to the next (`Read`, `HandleData`, `Write`), or it disposes of an entry,
about which nothing more is claimed. Theorems: `StreamsWhole`, `ImplementsPipe`.

**DatagramListenProofs.** `ListenInv` has four parts. `TablesOK`: `MapsAgree`, the limit on connections, and `CallersOK`, which
ties what the caller has been told to the tables and gives `EndsAgree`.
`QueuesOK`: `OneRoutePerAddress`, the limit on the backlog, whose entries are in
the order of their expiry, and `AnswersOK` (what has been answered is older than
what waits, and that is sorted), which gives `CompletedInOrder`. `PacketsOK` gives
`EachPacketOnce`; it is inductive only with a witness that says from which address
each packet came, since queues of different addresses must hold different packets
and the model keeps no history of that. `TimerOK` is the range of the timer; that
the least of a set of times exists rests on the well-foundedness of the naturals
(`LeastOf`). The ways in which a queue loses elements (cancellation, expiry,
purge) are one lemma about a `Part` of it, the limits are
cardinalities of finite sets. Theorems: `ListenInvariant`, `TypeCorrect`,
`MapsAlwaysAgree`, `OneRoute`, `LimitsAlwaysHold`, `EndsAlwaysAgree`,
`AnsweredInOrder`, `PacketsOnce`.

**DatagramForwardProofs.** `IInv` is `MapsAgree` and `SilenceIsNoticed` with the
types of `conns`, `origin` and `taken` and with `MapsInverse`: `id_map` leads from
the id of every connection back to its address, and has no id that is still to be
given. Without the first half a connection that goes could take the id of another
one along, without the second a new connection could replace one in `id_map`.
`ForgetStep`, `UpdateStep` and `NewStep` are about the three ways in which the
maps change; the lemmas of the actions reduce each of them to one of these. It
gives `MapsCorrect` and `SilenceCorrect`.

For the rest, in the same module, `FlowInv` is `IInv` and what the messages on their
way say that is still true when they arrive. For the target: of every DATA call
and of every connection that knows its far socket, that socket is gone, has its
target or has CONNECT on the way, ahead of the data (`TargetOK`); this is the
assertion in `fwd_entry_datagram_socket_data`. For the refinement: a far socket,
the answer to SOCKET, and the connection agree on who belongs to whom (`SocksOK`,
`LinksOK`, `MessagesFit`); a packet comes from the address for which its socket
speaks, is held or on its way but not both, and is in a channel once (`HeldOK`,
`Once`). SOCKET calls are in the order of their connections (`Rising`) and later
than all connections that have a socket, or else the far peer could make more
sockets than there are connections, which `Open` of the pipe does not allow. For
the types: `order` has each connection once (`OrderOK`), however many of the first
ones expire at once. Most actions only take away (connections, sockets, what is
held) and send CLOSE or errors; `PlainStep` and `QuietStep` are one lemma for all
of them. `SendStep` is the one about packets that leave. In the pipe `HandleData`
is `Give`, `HandleReply` is `GiveBack`, `HandleSocket` is `Open`, `ReceiveKnown`
and `ReceiveNew` are `Take`, `ReceiveReply` is `TakeBack`, and the rest is `Lose`,
which includes losing nothing. Theorems: `FlowInvariant`, `VariablesTyped`,
`DataHasTarget`, `ImplementsDatagramPipe`.

**StreamAcceptProofs.** `AcceptInv` follows an ACCEPT: from the call to the queue
of the listening socket and from there to the answer, in one of the two slots
until the forwarder is removed. `AcceptsPending` alone is not inductive: it places
the calls that the slots have, and says nothing of the other messages on their
way, which could be taken for these. `SetUp` and `Known` are about the time before and after the answer
to SOCKET; `Channels` about each message on its way (an ACCEPT that is still to
arrive has not been seen, a cancellation is one by the removal, an error is for a
call that is neither waiting nor answered with success) and about their order:
ACCEPTs in the order of their numbers and before all cancellations, answers in
the order of the clients. `CallPlaces` is the converse: a call that the
listening socket has not seen is on its way to it, and one that it has completed
is on its way back, as long as a slot has it. `NoneAfterRemoval` is that no
ACCEPT follows a cancellation, hence `~resubmitted`, the condition under which
`StreamListen` keeps `FlagAgrees`. `SlotsOK` and `ClientsInOrder` bound the
numbers of calls by those of clients, which type correctness needs. What the
queue looks like is not proved again: the far side's steps are steps of
`StreamListen`, so its invariant `OrderInv` holds here, taken from
`StreamListenProofs` (`P!OrderInv`). Each action has a lemma. Theorems: `AcceptInvariant`, `TypeCorrect`, `TwoAcceptsPending`,
`ConnectionsAnswered`, `ListenSocketUsed` (the composition implements the
specification of the listening socket together with `~resubmitted`) and, from
this and `QueueNeverEmpty`, `SomethingAlwaysThere`: the assertion in
`fwd_entry_stream_listen_accept_complete`.

**DatagramAcceptProofs.** The same question for datagrams, with an invariant that
claims less about the time after a removal, where `AcceptsPending` claims nothing.
`AcceptInv` has types, `OneSocketCall` and `NoneBefore` always; while both
ends listen, `CallsUnderway` (the calls that the listening socket has not
counted are on their way, in the order of their numbers, and nothing cancels
them), `AnswersUnderway`, `QueueHeld` (the others are in its queue or answered
and on the way back) and `SlotsOK`. It is proved next to `ListenInv` of
`DatagramListenProofs` (`P!ListenInv`), which gives that the queue is sorted, has no
call twice and none that has been answered. `Told` may tell of several CLOSEs and of one answer
in one step; `QuietStep` is one lemma for everything that neither sends nor
receives an ACCEPT or an answer, which is most. Theorems: `AcceptInvariant`,
`TwoAcceptsPending`, `ListenSocketUsed` (each step of the composition is a step
of `DatagramListen` or leaves it alone, so what that module takes its caller to
do is what the library's own caller does) and `ListenerKeepsPromises`.

**FwdToolProofs.** `ToolInv` has `CallOK`, which says of each step of a SOCKET
call (request, answer, result) which outcomes are possible for the arguments of
the API; `OtherOK`, that what another client gets is an outcome of its request; and
`StatusOK`, how the client, the INFO call and the status that it has so far fit
together. The rest is arithmetic: a backlog survives the way from int to guint
and back (`IntSurvives`), a timeout in range its product with a thousand, and a
field that is left out since it is zero means what a zero means. Theorems:
`ToolInvariant`, `SettingsArrive`, `RequestsMeetProtocol`, `StatusIsRight`.

**Assumptions.** The named assumptions on the constants and nothing else: limits,
timeouts and numbers of ids are positive, bounds are natural numbers, ids start at
1 or later, a peer has no more entries than there are ids (or
`fwd_peer_next_id` would not return), `DatagramAccept` has no more packets than
ids (a connection takes a packet, so the bound on ids never stops anything),
arguments of the API are in the range of their C types (`ForwardersAssumption`),
the default timeout in microseconds fits a guint, and error codes of a
failed SOCKET are not that of a refused one (`ErrorsAssumption`).

**Only model-checked.** Every liveness property (`ForwardersGetStarted`,
`ClientAccepted`, `ListenerFollows`, `ClosePropagates`, `SilentSocketCloses`,
`ForwarderTakesAll`, `EndsClose`, `CheckReports`): fairness and ENABLED are beyond
the prover. All other properties of the passing runs are theorems. Induction over
data is beyond it too; the models declare no RECURSIVE operator, and the proofs
describe sums along a queue by a function of its positions (`Queued`, `OnWay`)
instead.

## Not modelled, and the plan

- Memory: reference counts of entries and operations, and what the code does with
  those that have been freed. The steps after which it would are listed with the
  modules above and in the hazards.
- Byte encodings (`fwd_util.c`): varints, addresses and TLVs are pure functions
  with unit tests; only their ranges matter here. The fields of the calls between
  sockets, which these peers never get wrong, and of INFO and ECHO.
- Several forwarders of one client of the tool, the exit status of the server, and
  what the options say; the second address that a socket is bound to if the first
  is taken (`fwd_socket_new`): one of the ways in which SOCKET succeeds.
- Logging and formatting, unit tests, packaging; the inside of libgiorpc, GLib and
  the kernel, which appear as the events they cause.

- What becomes of entries whose calls were cancelled or whose counterpart went
  first (the SOCKET call of a removed forwarder, ACCEPTED that comes late): the
  models have these states, and the properties that they would break except them
  in their hypotheses: `rid` in `ListenerFollows`, `known` in `EndsClose`, the
  state of `caller` in `ForwarderTakesAll`. For a version of the code that leaves
  nothing behind, these would be dropped.
- `StreamAccept` and `DatagramAccept` have one forwarder. Entries share nothing but the
  table of ids, which `FwdPeer` has, and the FIFO order between their
  messages, of which no entry makes use.
