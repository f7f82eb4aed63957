------------------------------ MODULE MCFwdTool ------------------------------
(* A small instance of FwdTool: a guint has 8 bits, and a millisecond has 10 *)
(* microseconds, so that 25 milliseconds fit and 26 do not.                  *)
EXTENDS FwdTool

MCForwarders ==
    [type : {"stream", "datagram"}, backlog : {Default - 1, Default, 0, 1, 127},
     timeout : {0, 1, 25, 26, 255}, limit : {0, 3},
     family : {"inet", "inet6"}, to : {"inet", "inet6"}]

\* Requests that lack any of the fields.
Without(t, fields) == [f \in DOMAIN t \ fields |-> t[f]]
MCRequests ==
    {Without(t, fields) :
        t \in [id : {0, 1, IdMax, IdMax + 1}, family : {"inet6", "bad"},
               address : {"inet", "inet6"}, type : {"datagram", "other"},
               flags : {{"listen"}, {"reuse"}}, backlog : {0, 1, Modulus},
               timeout : {1}, maxconn : {1, Modulus}],
        fields \in SUBSET {"id", "family", "address", "type", "flags", "backlog"}}
=============================================================================
