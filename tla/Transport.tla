------------------------------- MODULE Transport -------------------------------
(***************************************************************************)
(* The RPC connection of two peers (libgiorpc) as the forwarding code uses *)
(* it: calls, responses and cancellations reach the other peer once and in *)
(* the order in which they were sent.  The peers are named for the side    *)
(* that they are on: the forwarder is at the "near" one.                   *)
(***************************************************************************)
EXTENDS Sequences

VARIABLE chan  \* for each peer, the messages on their way to it

Peers == {"near", "far"}
Other(p) == IF p = "near" THEN "far" ELSE "near"

Silence == [p \in Peers |-> <<>>]

Underway(p, m) == \E i \in DOMAIN chan[p] : chan[p][i] = m

\* p sends msgs.
Send(p, msgs) == chan' = [chan EXCEPT ![Other(p)] = @ \o msgs]

\* p handles the message m, the first one on its way, and sends msgs.
Receive(p, m) == chan[p] # <<>> /\ m = Head(chan[p])
Handled(p, msgs) ==
    chan' = [chan EXCEPT ![p] = Tail(@), ![Other(p)] = @ \o msgs]

=============================================================================
