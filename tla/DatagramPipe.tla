------------------------------ MODULE DatagramPipe ------------------------------
(***************************************************************************)
(* What forwarded datagrams promise to the applications at both sides.  A  *)
(* socket speaks for one address, for good.  A packet from an address is   *)
(* given to the target at most once, by a socket that speaks for it; what  *)
(* comes back to a socket is given at most once to the address for which   *)
(* it speaks.  Packets get lost, and overtake each other.                  *)
(***************************************************************************)
EXTENDS Integers, Sequences

CONSTANTS Addresses, Sockets

VARIABLES
    speaks,   \* the addresses for which the sockets speak
    there,    \* packets on their way to the target
    back,     \* packets on their way to the addresses
    taken,    \* the number of packets that were taken from each side
    given     \* the packets given to the target and to the addresses, in order
vars == <<speaks, there, back, taken, given>>

Init ==
    /\ speaks = <<>>
    /\ there = {} /\ back = {}
    /\ taken = [there |-> 0, back |-> 0]
    /\ given = [there |-> <<>>, back |-> <<>>]

Lost(way, way1) == way1 \subseteq way

\* The next socket, for the address a.
Open(a) ==
    /\ Len(speaks) < Sockets
    /\ speaks' = Append(speaks, a)
    /\ UNCHANGED <<there, back, taken, given>>

\* A packet is taken from the address a; others may be dropped for it.
Take(a) ==
    /\ taken' = [taken EXCEPT !.there = @ + 1]
    /\ Lost(there \cup {[from |-> a, n |-> taken'.there]}, there')
    /\ UNCHANGED <<speaks, back, given>>

TakeBack(s) ==
    /\ s \in DOMAIN speaks
    /\ taken' = [taken EXCEPT !.back = @ + 1]
    /\ Lost(back \cup {[from |-> s, n |-> taken'.back]}, back')
    /\ UNCHANGED <<speaks, there, given>>

\* A packet is given to the target by the socket s, or to the address a.
Give(p, s) ==
    /\ p \in there /\ s \in DOMAIN speaks /\ speaks[s] = p.from
    /\ given' = [given EXCEPT !.there = Append(@, <<s, p.n>>)]
    /\ Lost(there \ {p}, there')
    /\ UNCHANGED <<speaks, back, taken>>

GiveBack(p, a) ==
    /\ p \in back /\ speaks[p.from] = a
    /\ given' = [given EXCEPT !.back = Append(@, <<a, p.n>>)]
    /\ Lost(back \ {p}, back')
    /\ UNCHANGED <<speaks, there, taken>>

Lose ==
    /\ Lost(there, there') /\ Lost(back, back')
    /\ UNCHANGED <<speaks, taken, given>>

Next ==
    \/ \E a \in Addresses : Open(a) \/ Take(a)
    \/ \E s \in 1 .. Sockets : TakeBack(s)
    \/ \E p \in there, s \in 1 .. Sockets : Give(p, s)
    \/ \E p \in back, a \in Addresses : GiveBack(p, a)
    \/ Lose

Spec == Init /\ [][Next]_vars

=============================================================================
