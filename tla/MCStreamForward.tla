--------------------------- MODULE MCStreamForward ---------------------------
(* Small instances of StreamForward.  The peers count sockets from different *)
(* values, so that an id of one is not the id of its counterpart.  The       *)
(* variable bound keeps an instance small in one of two ways: one connection *)
(* that transfers data, or several that do not.  Only users and applications *)
(* are bound by it.                                                          *)
EXTENDS StreamForward, TLC

VARIABLE bound
MCFirstId == [p \in Peers |-> IF p = "local" THEN 1 ELSE 2]

Bounds == {[conns |-> 1, bytes |-> MaxBytes], [conns |-> MaxConn, bytes |-> 0]}
WithinBound ==
    /\ nextId'["local"] <= MCFirstId["local"] + bound.conns
    /\ \A e \in End : taken'[e] <= bound.bytes

MCInit == Init /\ bound \in Bounds
MCNext == Next /\ WithinBound /\ UNCHANGED bound
MCVars == <<vars, bound>>
MCSpec == MCInit /\ [][MCNext]_MCVars /\ WF_MCVars(Deliver /\ UNCHANGED bound)
=============================================================================
