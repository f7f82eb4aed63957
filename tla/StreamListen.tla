------------------------------ MODULE StreamListen ------------------------------
(***************************************************************************)
(* A listening stream socket opened by the remote side, as implemented by  *)
(* fwd_entry_stream_listen.c: a queue of ACCEPT requests and the           *)
(* asynchronous accept that completes them with incoming connections.      *)
(*                                                                         *)
(* The GCancellable of the entry doubles as the flag that an asynchronous  *)
(* accept is pending, but there can be others, that were started with an   *)
(* earlier GCancellable: those that have been cancelled and are about to   *)
(* say so, and those whose GCancellable was only dropped.                  *)
(***************************************************************************)
EXTENDS Integers, Sequences, SequencesExt

CONSTANTS
    MaxAccepts,  \* bound: ACCEPT requests
    MaxClients   \* bound: clients that connect to the socket

ASSUME ParametersAssumption ==
    /\ MaxAccepts \in Nat
    /\ MaxClients \in Nat

Requests == 1 .. MaxAccepts

VARIABLES
    listener,     \* "new": no socket yet, "open": in the table of its peer, "gone"
    accept_reqs,  \* the queue of requests
    cancel,       \* is there a GCancellable?
    accepts,      \* number of asynchronous accepts of each kind
    clients,      \* connections that wait in the kernel
    arrived,      \* history: number of clients so far
    calls,        \* history: what happened to each request
    resubmitted   \* history: has the caller submitted one after a cancellation?
vars == <<listener, accept_reqs, cancel, accepts, clients, arrived, calls, resubmitted>>

-----------------------------------------------------------------------------

Counts == [own : Nat, stray : Nat, cancelled : Nat]

\* g_socket_listener_accept_socket_async with the current GCancellable.
Started(a) == [a EXCEPT !.own = @ + 1]
\* The GCancellable is cancelled, or is dropped and the accepts that use it
\* are left running.
Cancelled(a) == [own |-> 0, stray |-> a.stray, cancelled |-> a.cancelled + a.own]
Dropped(a) == [own |-> 0, stray |-> a.stray + a.own, cancelled |-> a.cancelled]

Init ==
    /\ listener = "new"
    /\ accept_reqs = <<>>
    /\ cancel = FALSE
    /\ accepts = [own |-> 0, stray |-> 0, cancelled |-> 0]
    /\ clients = 0
    /\ arrived = 0
    /\ calls = [r \in Requests |-> "new"]
    /\ resubmitted = FALSE

\* fwd_entry_stream_listen_new.
Listen ==
    /\ listener = "new"
    /\ listener' = "open"
    /\ UNCHANGED <<accept_reqs, cancel, accepts, clients, arrived, calls, resubmitted>>

\* Somebody connects to the socket.
ClientConnects ==
    /\ listener = "open"
    /\ arrived < MaxClients
    /\ arrived' = arrived + 1
    /\ clients' = clients + 1
    /\ UNCHANGED <<listener, accept_reqs, cancel, accepts, calls, resubmitted>>

\* Requests are numbered in the order of their arrival.
Submits(r) == calls[r] = "new" /\ \A s \in Requests : calls[s] = "new" => r <= s

AfterCancellation == resubmitted \/ \E s \in Requests : calls[s] = "cancelled"

\* Variant with a defect: the request goes to the head of the queue.
AcceptPushesHead(r) ==
    /\ listener = "open"
    /\ Submits(r)
    /\ accept_reqs' = <<r>> \o accept_reqs
    /\ calls' = [calls EXCEPT ![r] = "waiting"]
    /\ resubmitted' = AfterCancellation
    /\ cancel' = TRUE
    /\ accepts' = IF cancel THEN accepts ELSE Started(accepts)
    /\ UNCHANGED <<listener, clients, arrived>>

\* fwd_entry_stream_listen_accept.
Accept(r) ==
    /\ listener = "open"
    /\ Submits(r)
    /\ accept_reqs' = Append(accept_reqs, r)
    /\ calls' = [calls EXCEPT ![r] = "waiting"]
    /\ resubmitted' = AfterCancellation
    /\ cancel' = TRUE
    /\ accepts' = IF cancel THEN accepts ELSE Started(accepts)
    /\ UNCHANGED <<listener, clients, arrived>>

\* Variant with a defect: the asynchronous accept outlives the requests.
RequestCancelledOnly(r) ==
    /\ \E i \in DOMAIN accept_reqs :
        accept_reqs[i] = r /\ accept_reqs' = RemoveAt(accept_reqs, i)
    /\ calls' = [calls EXCEPT ![r] = "cancelled"]
    /\ UNCHANGED <<listener, cancel, accepts, clients, arrived, resubmitted>>

\* fwd_entry_stream_accept_req_cancelled: the last one takes the
\* asynchronous accept with it.
RequestCancelled(r) ==
    /\ \E i \in DOMAIN accept_reqs :
        accept_reqs[i] = r /\ accept_reqs' = RemoveAt(accept_reqs, i)
    /\ calls' = [calls EXCEPT ![r] = "cancelled"]
    /\ IF accept_reqs' = <<>>
       THEN cancel' = FALSE /\ accepts' = Cancelled(accepts)
       ELSE UNCHANGED <<cancel, accepts>>
    /\ UNCHANGED <<listener, clients, arrived, resubmitted>>

\* Variant with a defect: one asynchronous accept per series of requests.
ContinueNot(reqs, a) ==
    IF cancel /\ reqs # <<>>
    THEN accepts' = a /\ cancel' = TRUE
    ELSE accepts' = Dropped(a) /\ cancel' = FALSE

\* The end of fwd_entry_stream_listen_accept_complete: as long as the flag is
\* set and there are requests, the next accept is started.
Continue(reqs, a) ==
    IF cancel /\ reqs # <<>>
    THEN accepts' = Started(a) /\ cancel' = TRUE
    ELSE accepts' = Dropped(a) /\ cancel' = FALSE

\* One asynchronous accept less.
Complete(kind) == [accepts EXCEPT ![kind] = @ - 1]

\* An asynchronous accept completes with a socket: the first request gets it.
\* Without a request the code dereferences NULL; that is not a step.
AcceptSucceeds(kind) ==
    /\ listener = "open"
    /\ accepts[kind] > 0 /\ clients > 0
    /\ accept_reqs # <<>>
    /\ calls' = [calls EXCEPT ![Head(accept_reqs)] = "ok"]
    /\ accept_reqs' = Tail(accept_reqs)
    /\ clients' = clients - 1
    /\ Continue(Tail(accept_reqs), Complete(kind))
    /\ UNCHANGED <<listener, arrived, resubmitted>>

\* It completes with an error, such as a client that is not there any more or
\* a listener that has been closed; the requests stay.
AcceptFails(kind) ==
    /\ accepts[kind] > 0
    /\ Continue(accept_reqs, Complete(kind))
    /\ UNCHANGED <<listener, accept_reqs, clients, arrived, calls, resubmitted>>

\* It has been cancelled: the same, for an accept that isn't "the" accept.
AcceptCancelled == AcceptFails("cancelled")

\* fwd_entry_stream_listen_dispose.
Dispose ==
    /\ listener = "open"
    /\ listener' = "gone"
    /\ accept_reqs' = <<>>
    /\ calls' = [r \in Requests |-> IF calls[r] = "waiting" THEN "dropped" ELSE calls[r]]
    /\ cancel' = FALSE
    /\ accepts' = Cancelled(accepts)
    /\ clients' = 0
    /\ UNCHANGED <<arrived, resubmitted>>

AcceptKinds == {"own", "stray"}

Next ==
    \/ Listen \/ ClientConnects
    \/ \E r \in Requests : Accept(r) \/ RequestCancelled(r)
    \/ \E k \in AcceptKinds : AcceptSucceeds(k) \/ AcceptFails(k)
    \/ AcceptCancelled
    \/ Dispose

Spec == Init /\ [][Next]_vars

\* A client that keeps waiting is not missed forever by an asynchronous accept
\* that runs; cancellations are reported.
FairSpec ==
    /\ Spec
    /\ WF_vars(\E k \in AcceptKinds : AcceptSucceeds(k))
    /\ WF_vars(AcceptCancelled)

-----------------------------------------------------------------------------
(* Properties *)

TypeOK ==
    /\ listener \in {"new", "open", "gone"}
    /\ accept_reqs \in Seq(Requests)
    /\ cancel \in BOOLEAN
    /\ accepts \in Counts
    /\ arrived \in 0 .. MaxClients
    /\ clients \in 0 .. arrived
    /\ calls \in [Requests -> {"new", "waiting", "ok", "cancelled", "dropped"}]
    /\ resubmitted \in BOOLEAN

\* fwd_entry_stream_listen_accept_complete: "Something must be there in the
\* accept queue" when an asynchronous accept gets a socket.
SomethingThere ==
    (listener = "open" /\ clients > 0 /\ \E k \in AcceptKinds : accepts[k] > 0)
        => accept_reqs # <<>>

\* fwd_entry_stream_listen_accept: the GCancellable tells whether an
\* asynchronous accept is pending, and so there is one exactly when there is
\* somebody to accept for.  It does, for a caller that submits no ACCEPT after
\* having cancelled one.
FlagAgrees ==
    ~resubmitted =>
        /\ accepts.stray = 0
        /\ accepts.own = (IF cancel THEN 1 ELSE 0)
        /\ cancel <=> accept_reqs # <<>>

\* PROTOCOL, ACCEPT: calls "will be completed in the order in which they are
\* submitted", whatever is cancelled in between.
CompletedInOrder ==
    \A r, s \in Requests :
        (r < s /\ calls[s] = "ok") => calls[r] # "waiting"

\* A client and an ACCEPT do not wait for each other forever.
ClientAccepted ==
    (clients > 0 /\ accept_reqs # <<>>)
        ~> (clients = 0 \/ accept_reqs = <<>>)

-----------------------------------------------------------------------------
(* The inductive invariant of the proofs *)

\* The queue has the waiting requests, the oldest first.
QueueMatches ==
    /\ \A r \in Requests :
        calls[r] = "waiting" <=> \E i \in DOMAIN accept_reqs : accept_reqs[i] = r
    /\ \A i, j \in DOMAIN accept_reqs : i < j => accept_reqs[i] < accept_reqs[j]

\* Requests arrive one after the other.
ArrivedInOrder ==
    \A r, s \in Requests : (r < s /\ calls[r] = "new") => calls[s] = "new"

OrderInv == TypeOK /\ QueueMatches /\ ArrivedInOrder /\ CompletedInOrder

\* With a caller that stops after cancelling: an accept that is about to
\* report its cancellation belongs to nobody any more, and there won't be
\* another request.
NoneAfterCancelled ==
    accepts.cancelled > 0 /\ ~resubmitted =>
        /\ ~cancel
        /\ listener # "gone" => \E r \in Requests : calls[r] = "cancelled"

OwnInv == TypeOK /\ QueueMatches /\ FlagAgrees /\ NoneAfterCancelled

=============================================================================
