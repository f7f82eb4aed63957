------------------------------ MODULE StreamPipe ------------------------------
(***************************************************************************)
(* What forwarded stream connections promise to the applications at their  *)
(* ends: each of them receives the bytes that the other one has written,   *)
(* in order, without gaps or duplicates, until its end is shut, for good.  *)
(***************************************************************************)
EXTENDS Integers, Sequences

CONSTANTS
    Locals, Remotes,  \* the ends at the two peers
    Limit             \* bound: bytes that an application writes to its end

End == ({"local"} \X Locals) \cup ({"remote"} \X Remotes)

VARIABLES
    phase,  \* of an end: "new", "up" or "gone"
    links,  \* pairs of ends that make a connection
    taken,  \* the number of bytes that the connection took from an application
    given   \* the bytes that it gave to one
vars == <<phase, links, taken, given>>

Init ==
    /\ phase = [e \in End |-> "new"]
    /\ links = {}
    /\ taken = [e \in End |-> 0]
    /\ given = [e \in End |-> <<>>]

Open(e) ==
    /\ phase[e] = "new"
    /\ phase' = [phase EXCEPT ![e] = "up"]
    /\ UNCHANGED <<links, taken, given>>

\* Two ends become a connection; each belongs to one connection only.  The
\* remote end may be shut before the local one hears of it.
Link(a, b) ==
    /\ phase[<<"local", a>>] = "up" /\ phase[<<"remote", b>>] # "new"
    /\ \A l \in links : l[1] # a /\ l[2] # b
    /\ links' = links \cup {<<a, b>>}
    /\ UNCHANGED <<phase, taken, given>>

Mates(e, f) ==
    \E l \in links : {e, f} = {<<"local", l[1]>>, <<"remote", l[2]>>}

\* The connection takes n more bytes from the application at e.
Take(e, n) ==
    /\ phase[e] = "up"
    /\ \E f \in End : Mates(e, f)
    /\ taken[e] + n <= Limit
    /\ taken' = [taken EXCEPT ![e] = @ + n]
    /\ UNCHANGED <<phase, links, given>>

\* The application at e gets the next n bytes of those taken from its mate.
Give(e, n) ==
    /\ phase[e] = "up"
    /\ \E f \in End : Mates(e, f) /\ Len(given[e]) + n <= taken[f]
    /\ given' = [given EXCEPT ![e] = @ \o [k \in 1 .. n |-> Len(given[e]) + k]]
    /\ UNCHANGED <<phase, links, taken>>

Shut(e) ==
    /\ phase[e] = "up"
    /\ phase' = [phase EXCEPT ![e] = "gone"]
    /\ UNCHANGED <<links, taken, given>>

Next ==
    \/ \E e \in End :
        \/ Open(e) \/ Shut(e)
        \/ \E n \in 1 .. Limit : Take(e, n) \/ Give(e, n)
    \/ \E a \in Locals, b \in Remotes : Link(a, b)

Spec == Init /\ [][Next]_vars

=============================================================================
