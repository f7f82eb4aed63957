------------------------------- MODULE FwdPeer -------------------------------
(***************************************************************************)
(* FwdPeerObject (src/src/fwd_peer.c): the state of the connection to the  *)
(* remote peer, the table of socket entries, the allocation of socket ids  *)
(* and the signals by which the application follows the table.             *)
(*                                                                         *)
(* Everything runs on one GLib main context.  Concurrency comes from       *)
(* callbacks: the library emits a signal, the application's handler calls  *)
(* back into the library, and only then does the emitting function         *)
(* continue.  "frames" is the stack of library functions that are          *)
(* suspended in an emission and have something left to do: an insertion,   *)
(* a CLOSE request, and the removal of an entry whose connections are      *)
(* being removed with it.  A signal that its function emits last needs no  *)
(* frame: a handler that runs there is the same as a call made afterwards. *)
(*                                                                         *)
(* What an entry does for itself (sockets, queues, calls) is the subject   *)
(* of the other modules; here an entry is its type and its life cycle.     *)
(***************************************************************************)
EXTENDS Integers, Sequences, FiniteSets

CONSTANTS
    Kinds,        \* the entry types considered, a subset of AllKinds
    IdMask,       \* FWD_SOCKET_ID_MASK
    MaxSockets,   \* bound: number of entries in the table
    MaxNesting    \* bound: depth of handlers calling back into the library

StreamForwarders == {"stream_forward_local", "stream_forward_remote"}
DatagramForwarders == {"datagram_forward_local", "datagram_forward_remote"}

\* Entries created by fwd_peer_add_*_forwarder.
ApiKinds == StreamForwarders \cup DatagramForwarders

\* Entries created by a SOCKET request of the remote peer.
ControlKinds == {"stream_listen", "stream_socket",
                 "datagram_listen", "datagram_socket"}

\* Entries for the source addresses of datagrams.  They are in the maps of
\* the entry that receives the datagrams, and are removed with it.
ConnectionKinds == {"datagram_connection_local", "datagram_connection_remote"}

\* Entries that other entries create: for an accepted or a connecting stream,
\* for an accepted datagram connection, for a source address.
ChildKinds == {"stream_socket", "datagram_socket"} \cup ConnectionKinds

AllKinds == ApiKinds \cup ControlKinds \cup ChildKinds

ASSUME KindsAssumption == Kinds \subseteq AllKinds
ASSUME BoundsAssumption ==
    /\ IdMask \in Nat
    /\ MaxSockets \in 1 .. IdMask  \* or fwd_peer_next_id would not return
    /\ MaxNesting \in Nat

\* type->start and type->close are not NULL.
HasStart(k) == k \notin {"stream_listen", "stream_socket",
                         "datagram_connection_remote"}
HasClose(k) == k \notin ApiKinds

\* type->close always removes the entry by itself; it does so for the other
\* types only if the entry knows its counterpart.
ClosesItself(k) == k \in {"stream_listen", "stream_socket", "datagram_socket"}

\* The type of the connections in the maps of an entry.
None == "none"
ConnectionKind(k) ==
    CASE k = "datagram_forward_local" -> "datagram_connection_local"
      [] k = "datagram_listen"        -> "datagram_connection_remote"
      [] OTHER                        -> None

Ids == 1 .. IdMask

VARIABLES
    rpc,       \* state of the GIoRpcPeer underneath
    state,     \* FwdPeer.state
    watching,  \* the state handler of the GIoRpcPeer is installed
    infoCall,  \* an INFO call is outstanding
    alive,     \* the last reference has not been dropped
    nextId,    \* next_id, modulo IdMask + 1
    kind,      \* the table: for each id, the type of its entry or "none"
    parent,    \* for each id, the entry in whose maps it is, or 0
    starts,    \* history: how many times type->start ran for the entry
    ledger,    \* history: SOCKET_ADDED minus SOCKET_REMOVED signals of an id
    frames     \* functions suspended in a signal emission, innermost last

connVars == <<rpc, state, watching, infoCall, alive>>
tableVars == <<nextId, kind, parent, starts, ledger>>
vars == <<connVars, tableVars, frames>>

-----------------------------------------------------------------------------
(* The table *)

Sockets == {i \in Ids : kind[i] # None}

Children(id) == {c \in Sockets : parent[c] = id}

\* A suspended function: what it does and to which entry; for a removal, the
\* connections that it still has to remove; whether it is in an emission.
Frame == [fn : {"insert", "close", "remove"}, id : Ids,
          rest : SUBSET Ids, emitting : BOOLEAN]

TypeOK ==
    /\ rpc \in {"STARTING", "STARTED", "STOPPING", "STOPPED"}
    /\ state \in {"STARTING", "STARTED", "STOPPED"}
    /\ watching \in BOOLEAN
    /\ infoCall \in BOOLEAN
    /\ alive \in BOOLEAN
    /\ nextId \in 0 .. IdMask
    /\ kind \in [Ids -> Kinds \cup {None}]
    /\ parent \in [Ids -> Ids \cup {0}]
    /\ starts \in [Ids -> Nat]
    /\ ledger \in [Ids -> Int]
    /\ frames \in Seq(Frame)

\* Ids that the loop of fwd_peer_next_id steps over: zero and those in use.
Skipped(id) == id = 0 \/ id \in Sockets

\* Variant with a defect: the mask is not applied.
AdvanceUnmasked(d) == nextId + d

\* The counter advances once for the id returned and once for every id that
\* it steps over.
Advance(d) == (nextId + d) % (IdMask + 1)
NextId(id) ==
    \E d \in 0 .. IdMask :
        /\ id = Advance(d)
        /\ ~Skipped(id)
        /\ \A e \in 0 .. d - 1 : Skipped(Advance(e))
        /\ nextId' = Advance(d + 1)

\* Another peer of the process (possibly on another thread) takes an id.
NextIdElsewhere ==
    /\ nextId' = Advance(1)
    /\ UNCHANGED <<connVars, kind, parent, starts, ledger, frames>>

-----------------------------------------------------------------------------
(* Insertion.  fwd_entry_insert puts the entry in the table, emits          *)
(* SOCKET_ADDED, and when the handlers have returned starts the entry if    *)
(* the INFO call has completed.                                             *)

Idle == alive /\ frames = <<>>                    \* in the main loop
Top == frames[Len(frames)]
Popped == SubSeq(frames, 1, Len(frames) - 1)
Returning(fn) == frames # <<>> /\ Top.fn = fn
InHandler == alive /\ Len(frames) \in 1 .. MaxNesting /\ Top.emitting

\* A function that emits a signal about an entry and goes on afterwards.
Emitting(fn, id) == [fn |-> fn, id |-> id, rest |-> {}, emitting |-> TRUE]

Insert(k, p) ==
    /\ Cardinality(Sockets) < MaxSockets
    /\ \E id \in Ids :
        /\ NextId(id)
        /\ kind' = [kind EXCEPT ![id] = k]
        /\ parent' = [parent EXCEPT ![id] = p]
        /\ starts' = [starts EXCEPT ![id] = 0]
        /\ ledger' = [ledger EXCEPT ![id] = @ + 1]
        /\ frames' = Append(frames, Emitting("insert", id))
    /\ UNCHANGED connVars

\* fwd_peer_add_*_forwarder, from the main loop or from a signal handler.
AddForwarder(k) == (Idle \/ InHandler) /\ k \in ApiKinds /\ Insert(k, 0)

\* A SOCKET request for which the socket could be created.
HandleControlSocket(k) == Idle /\ k \in ControlKinds /\ Insert(k, 0)

\* An entry creates another one in a callback of its own; datagrams are
\* received by entries that have been started.
Parents(k) == IF k \in ConnectionKinds
              THEN {p \in Sockets : ConnectionKind(kind[p]) = k /\ starts[p] = 1}
              ELSE {0}
InsertChild(k) ==
    /\ Idle /\ Sockets # {} /\ k \in ChildKinds
    /\ \E p \in Parents(k) : Insert(k, p)

\* Variant with a defect: the entry is started without waiting for INFO.
FinishInsertEarly ==
    /\ Returning("insert")
    /\ starts' = IF HasStart(kind[Top.id])
                 THEN [starts EXCEPT ![Top.id] = @ + 1]
                 ELSE starts
    /\ frames' = Popped
    /\ UNCHANGED <<connVars, nextId, kind, parent, ledger>>

FinishInsert ==
    /\ Returning("insert")
    /\ starts' = IF state = "STARTED" /\ HasStart(kind[Top.id])
                 THEN [starts EXCEPT ![Top.id] = @ + 1]
                 ELSE starts
    /\ frames' = Popped
    /\ UNCHANGED <<connVars, nextId, kind, parent, ledger>>

-----------------------------------------------------------------------------
(* Removal *)

\* The entry leaves the table and is disposed of; if it has connections, its
\* maps are emptied.
TakeOut(id) ==
    /\ kind' = [kind EXCEPT ![id] = None]
    /\ starts' = [starts EXCEPT ![id] = 0]
    /\ parent' = [i \in Ids |-> IF i = id \/ parent[i] = id THEN 0 ELSE parent[i]]

SignalRemoved(id) == ledger' = [ledger EXCEPT ![id] = @ - 1]

Removing(id, rest, emitting) ==
    [fn |-> "remove", id |-> id, rest |-> rest, emitting |-> emitting]

\* A function removes an entry and returns to the functions of the stack.
\* g_hash_table_remove disposes of the entry before SOCKET_REMOVED is emitted
\* about it, and disposing of an entry removes its connections one by one,
\* each with a signal of its own.
Remove(id, stack) ==
    /\ TakeOut(id)
    /\ IF Children(id) = {}
       THEN SignalRemoved(id) /\ frames' = stack
       ELSE /\ frames' = Append(stack, Removing(id, Children(id), FALSE))
            /\ UNCHANGED ledger

\* Variant with a defect: the result of g_hash_table_remove is not looked at.
RemoveConnectionUnchecked(c) ==
    /\ Returning("remove")
    /\ c \in Top.rest
    /\ TakeOut(c)
    /\ SignalRemoved(c)
    /\ frames' = Append(Popped, Removing(Top.id, Top.rest \ {c}, TRUE))
    /\ UNCHANGED <<connVars, nextId>>

\* The maps go through their connections in any order.  One that a handler
\* has removed in the meantime is passed over without a signal.
RemoveConnection(c) ==
    /\ Returning("remove")
    /\ c \in Top.rest
    /\ IF c \in Sockets THEN TakeOut(c) /\ SignalRemoved(c)
                        ELSE UNCHANGED <<kind, parent, starts, ledger>>
    /\ frames' = Append(Popped, Removing(Top.id, Top.rest \ {c}, c \in Sockets))
    /\ UNCHANGED <<connVars, nextId>>

\* The entry has been disposed of.  The signal about it comes last.
FinishRemove ==
    /\ Returning("remove")
    /\ Top.rest = {}
    /\ SignalRemoved(Top.id)
    /\ frames' = Popped
    /\ UNCHANGED <<connVars, nextId, kind, parent, starts>>

\* fwd_entry_insert and its callers keep using the entry and its parent after
\* the emission without holding a reference, so the application must not
\* remove the socket that it is being told about or the one it belongs to.
BeingAnnounced(id) == \E n \in DOMAIN frames :
    frames[n].fn = "insert" /\ frames[n].id = id
InUse(id) == BeingAnnounced(id) \/ \E c \in Children(id) : BeingAnnounced(c)

\* The entry has left the table and its connections are being removed.
BeingRemoved(id) == \E n \in DOMAIN frames :
    frames[n].fn = "remove" /\ frames[n].id = id

\* fwd_peer_remove_forwarder, which accepts the id of any entry.
RemoveForwarder(id) ==
    /\ Idle \/ InHandler
    /\ id \in Sockets
    /\ ~InUse(id)
    /\ Remove(id, frames)
    /\ UNCHANGED <<connVars, nextId>>

\* fwd_entry_remove: an entry gives up by itself, e.g. on an I/O error.
EntryRemove(id) ==
    /\ Idle
    /\ id \in Sockets
    /\ Remove(id, frames)
    /\ UNCHANGED <<connVars, nextId>>

\* A CLOSE request.  If type->close removes the entry itself, the function
\* comes back to the table when the handlers have seen that; otherwise it
\* removes the entry.
HandleSocketClose(id, itself) ==
    /\ Idle
    /\ id \in Sockets
    /\ HasClose(kind[id])
    /\ ClosesItself(kind[id]) => itself
    /\ Remove(id, IF itself THEN <<Emitting("close", id)>> ELSE frames)
    /\ UNCHANGED <<connVars, nextId>>

FinishClose ==
    /\ Returning("close")
    /\ IF Top.id \in Sockets
       THEN Remove(Top.id, Popped)
       ELSE frames' = Popped /\ UNCHANGED <<kind, parent, starts, ledger>>
    /\ UNCHANGED <<connVars, nextId>>

-----------------------------------------------------------------------------
(* The connection *)

Rank(s) == CASE s = "STARTING" -> 0 [] s = "STARTED" -> 1 [] s = "STOPPED" -> 2

\* Variant with a defect: any different state is accepted.
SetStateAnyOrder(s) ==
    IF s # state
    THEN /\ state' = s
         /\ starts' = IF s = "STARTED"
                      THEN [i \in Ids |-> IF i \in Sockets /\ HasStart(kind[i])
                                          THEN starts[i] + 1 ELSE starts[i]]
                      ELSE starts
    ELSE UNCHANGED <<state, starts>>

\* Variant with a defect: no postponed start.
SetStateNoStart(s) ==
    /\ state' = IF Rank(s) > Rank(state) THEN s ELSE state
    /\ UNCHANGED starts

\* fwd_peer_set_state: the state only advances, and reaching STARTED starts
\* every entry that has been waiting for it.
SetState(s) ==
    IF Rank(s) > Rank(state)
    THEN /\ state' = s
         /\ starts' = IF s = "STARTED"
                      THEN [i \in Ids |-> IF i \in Sockets /\ HasStart(kind[i])
                                          THEN starts[i] + 1 ELSE starts[i]]
                      ELSE starts
    ELSE UNCHANGED <<state, starts>>

\* fwd_control_call_info_done.  The call holds a weak reference, which is
\* NULL once the peer is gone.
InfoDone(ok) ==
    /\ infoCall /\ frames = <<>>
    /\ infoCall' = FALSE
    /\ IF alive THEN SetState(IF ok THEN "STARTED" ELSE "STOPPED")
                ELSE UNCHANGED <<state, starts>>
    /\ UNCHANGED <<rpc, watching, alive, nextId, kind, parent, ledger, frames>>

\* The GIoRpcPeer makes progress or stops; its states only advance.
RpcAdvances(s) ==
    CASE rpc = "STARTING" -> s \in {"STARTED", "STOPPING", "STOPPED"}
      [] rpc = "STARTED"  -> s \in {"STOPPING", "STOPPED"}
      [] rpc = "STOPPING" -> s = "STOPPED"
      [] OTHER            -> FALSE

\* Variant with a defect: a transport that fails without STOPPING is missed.
HandlePeerStateOrderly(s) ==
    /\ frames = <<>>
    /\ RpcAdvances(s)
    /\ rpc' = s
    /\ infoCall' = IF watching /\ s = "STARTED" THEN TRUE ELSE infoCall
    /\ IF watching /\ s = "STOPPING"
       THEN SetState("STOPPED") /\ watching' = FALSE
       ELSE UNCHANGED <<state, starts, watching>>
    /\ UNCHANGED <<alive, nextId, kind, parent, ledger, frames>>

\* fwd_control_handle_peer_state, if it is still installed.
HandlePeerState(s) ==
    /\ frames = <<>>
    /\ RpcAdvances(s)
    /\ rpc' = s
    /\ infoCall' = IF watching /\ s = "STARTED" THEN TRUE ELSE infoCall
    /\ IF watching /\ s \in {"STOPPING", "STOPPED"}
       THEN SetState("STOPPED") /\ watching' = FALSE
       ELSE UNCHANGED <<state, starts, watching>>
    /\ UNCHANGED <<alive, nextId, kind, parent, ledger, frames>>

\* The last reference is dropped: the table is emptied without signals and
\* the state handler is removed.
Unref ==
    /\ Idle
    /\ alive' = FALSE
    /\ watching' = FALSE
    /\ kind' = [i \in Ids |-> None]
    /\ parent' = [i \in Ids |-> 0]
    /\ starts' = [i \in Ids |-> 0]
    /\ UNCHANGED <<rpc, state, infoCall, nextId, ledger, frames>>

\* fwd_peer_new_with_rpc, for each state the GIoRpcPeer may already be in.
Init ==
    /\ rpc \in {"STARTING", "STARTED", "STOPPING", "STOPPED"}
    /\ state = IF rpc = "STOPPED" THEN "STOPPED" ELSE "STARTING"
    /\ watching = (rpc # "STOPPED")
    /\ infoCall = (rpc = "STARTED")
    /\ alive = TRUE
    /\ nextId \in 0 .. IdMask
    /\ kind = [i \in Ids |-> None]
    /\ parent = [i \in Ids |-> 0]
    /\ starts = [i \in Ids |-> 0]
    /\ ledger = [i \in Ids |-> 0]
    /\ frames = <<>>

Next ==
    \/ NextIdElsewhere
    \/ \E k \in Kinds : AddForwarder(k) \/ HandleControlSocket(k) \/ InsertChild(k)
    \/ FinishInsert
    \/ \E id \in Ids : RemoveForwarder(id) \/ EntryRemove(id)
    \/ \E id \in Ids, b \in BOOLEAN : HandleSocketClose(id, b)
    \/ FinishClose
    \/ \E c \in Ids : RemoveConnection(c)
    \/ FinishRemove
    \/ \E ok \in BOOLEAN : InfoDone(ok)
    \/ \E s \in {"STARTED", "STOPPING", "STOPPED"} : HandlePeerState(s)
    \/ Unref

Spec == Init /\ [][Next]_vars

\* What a suspended function does next.
Continue == \/ FinishInsert
            \/ FinishClose
            \/ \E c \in Ids : RemoveConnection(c)
            \/ FinishRemove

\* A handler returns, however many calls it makes; the main loop dispatches
\* what is pending; giorpc finishes its handshake or fails, and completes the
\* calls that it has accepted.
Fairness ==
    /\ \A n \in 1 .. MaxNesting + 2 : SF_vars(Len(frames) = n /\ Continue)
    /\ SF_vars(\E ok \in BOOLEAN : InfoDone(ok))
    /\ SF_vars(rpc \in {"STARTING", "STOPPING"}
               /\ \E s \in {"STARTED", "STOPPING", "STOPPED"} : HandlePeerState(s))

FairSpec == Spec /\ Fairness

-----------------------------------------------------------------------------
(* Properties *)

\* The signals account for the table: each id has been announced once more
\* than its removal if and only if it is in the table, whichever of CLOSE, the
\* API, the entry itself and the disposal of its parent removes it, in whatever
\* order handlers nest, and although ids are recycled.  The one exception is
\* an entry whose connections are being removed with it: it has left the table
\* and the signal about it is owed until they are gone, and it is owed once.
\* When no function is suspended, the signals describe the table exactly.
SignalsMatchTable ==
    alive => \A id \in Ids :
        ledger[id] = (IF id \in Sockets THEN 1 ELSE 0)
                     + (IF BeingRemoved(id) THEN 1 ELSE 0)

\* Every entry with a start callback is started once: by fwd_entry_insert or
\* by the postponed start of fwd_peer_set_state, never by both, never before
\* the INFO call has completed, and in the STARTED state without exception
\* (except while its own insertion is being announced).
StartedOnce ==
    \A id \in Sockets :
        /\ starts[id] \in {0, 1}
        /\ starts[id] = 1 => HasStart(kind[id]) /\ state # "STARTING"
        /\ state = "STARTED" /\ HasStart(kind[id]) /\ ~BeingAnnounced(id)
              => starts[id] = 1

\* The peer never outlives its transport, however the transport went down and
\* whatever state it was in when the peer was created.
StoppedWithTransport == alive /\ rpc = "STOPPED" => state = "STOPPED"

\* Once STOPPED, always STOPPED: a late answer to the INFO call neither
\* revives the peer nor starts its entries.
StopIsFinal ==
    [][state = "STOPPED" => /\ state' = "STOPPED"
                            /\ \A id \in Ids : starts'[id] <= starts[id]]_vars

\* No forwarder waits forever: it is started, unless it is removed or the
\* peer stops first.
ForwardersGetStarted ==
    \A id \in Ids :
        (id \in Sockets /\ HasStart(kind[id]))
            ~> (starts[id] = 1 \/ id \notin Sockets \/ state = "STOPPED")

-----------------------------------------------------------------------------
(* The inductive invariant of the proofs *)

\* A suspended insertion is about an entry that is in the table and has not
\* been started, and no other suspended insertion is about the same entry.
AnnouncedOnce ==
    \A n \in DOMAIN frames :
        frames[n].fn = "insert" =>
            /\ frames[n].id \in Sockets
            /\ starts[frames[n].id] = 0
            /\ \A m \in DOMAIN frames :
                   frames[m].fn = "insert" /\ frames[m].id = frames[n].id => m = n

\* Connections belong to an entry in the table, and have none of their own.
Owned ==
    \A c \in Sockets :
        parent[c] # 0 => /\ parent[c] \in Sockets
                         /\ ConnectionKind(kind[parent[c]]) = kind[c]

\* A suspended removal is about an entry that has no connections any more, and
\* no other suspended removal is about the same id.  It will not remove an
\* entry that an older suspended insertion is about, and what it will remove
\* has no connections, so that one removal frame is enough.
RemovedOnce ==
    \A n \in DOMAIN frames :
        frames[n].fn = "remove" =>
            /\ \A c \in Sockets : parent[c] \notin frames[n].rest \cup {frames[n].id}
            /\ \A m \in DOMAIN frames :
                   /\ frames[m].fn = "remove" /\ frames[m].id = frames[n].id => m = n
                   /\ m < n /\ frames[m].fn = "insert" => frames[m].id \notin frames[n].rest

\* The transport is watched until the peer has stopped, and a transport that
\* has stopped is not watched any more.
Watched ==
    /\ alive => watching \/ state = "STOPPED"
    /\ rpc = "STOPPED" => ~watching

\* Requests come from the main loop, not from handlers.
CloseOutermost == \A n \in DOMAIN frames : frames[n].fn = "close" => n = 1

IInv ==
    /\ TypeOK
    /\ SignalsMatchTable
    /\ StartedOnce
    /\ AnnouncedOnce
    /\ Owned
    /\ RemovedOnce
    /\ CloseOutermost
    /\ Watched

=============================================================================
