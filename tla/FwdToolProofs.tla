----------------------------- MODULE FwdToolProofs -----------------------------
(***************************************************************************)
(* Theorems about the SOCKET request and the command line tool, for every  *)
(* width of an integer, every default and every request.  What is in       *)
(* effect at the far socket depends on the arguments of the API through    *)
(* the call: CallOK follows it from the request to the answer to the       *)
(* result.                                                                 *)
(***************************************************************************)
EXTENDS FwdTool, TLAPS

-----------------------------------------------------------------------------
(* Integers of other types *)

\* An int survives being passed as a guint and read as an int again.
LEMMA IntSurvives ==
    ASSUME NEW b \in Int, -Modulus <= 2 * b, 2 * b < Modulus
    PROVE  ToInt(ToUint(b)) = b
<1>1. Modulus \in Nat \ {0}
  BY WidthAssumption
<1>2. CASE 0 <= b
  <2>1. b % Modulus = b
    BY <1>1, <1>2
  <2> QED
    BY <1>1, <2>1 DEF ToInt, ToUint
<1>3. CASE b < 0
  <2>1. b % Modulus = b + Modulus
    BY <1>1, <1>3
  <2> QED
    BY <1>1, <1>3, <2>1 DEF ToInt, ToUint
<1> QED
  BY <1>2, <1>3

\* A guint is not changed by being read as one.
LEMMA UintSurvives ==
    ASSUME NEW n \in Nat, n < Modulus
    PROVE  ToUint(n) = n
<1>1. Modulus \in Nat \ {0}
  BY WidthAssumption
<1>2. n % Modulus = n
  BY <1>1
<1> QED
  BY <1>2 DEF ToUint

LEMMA ProductFacts ==
    ASSUME NEW a \in Nat \ {0}, NEW b \in Nat \ {0}
    PROVE  a * b \in Nat \ {0} /\ a * b = b * a
OBVIOUS

-----------------------------------------------------------------------------
(* The request *)

LEMMA ForwarderFacts ==
    ASSUME NEW f \in Forwarders
    PROVE  /\ f.type \in {"stream", "datagram"}
           /\ f.backlog \in Int /\ -Modulus <= 2 * f.backlog /\ 2 * f.backlog < Modulus
           /\ f.timeout \in 0 .. Modulus - 1 /\ f.limit \in 0 .. Modulus - 1
           /\ f.family \in {"inet", "inet6"} /\ f.to \in {"inet", "inet6"}
           /\ f # None
BY ForwardersAssumption DEF None

\* The fields of a request, a number that is zero being left out.
LEMMA RequestFields ==
    ASSUME NEW id, NEW f \in Forwarders
    PROVE  LET t == Request(id, f)
               timeout == IF f.timeout = 0 THEN TimeoutDefault ELSE f.timeout
           IN /\ {"id", "family", "type", "address", "flags"} \subseteq DOMAIN t
              /\ t.id = id /\ t.family = f.to /\ t.type = f.type
              /\ t.address = f.family /\ t.flags = {"listen"}
              /\ Get(t, "backlog", 0) = ToUint(f.backlog)
              /\ Get(t, "timeout", 0) = IF f.type = "datagram" THEN timeout ELSE 0
              /\ Get(t, "maxconn", 0) = IF f.type = "datagram" THEN f.limit ELSE 0
<1> DEFINE timeout == IF f.timeout = 0 THEN TimeoutDefault ELSE f.timeout
           t == Request(id, f)
           fixed == [id |-> id, family |-> f.to, type |-> f.type,
                     address |-> f.family, flags |-> {"listen"}]
           number == [backlog |-> ToUint(f.backlog),
                      timeout |-> IF f.type = "datagram" THEN timeout ELSE 0,
                      maxconn |-> IF f.type = "datagram" THEN f.limit ELSE 0]
           given == {n \in DOMAIN number : number[n] # 0}
<1>1. t = [n \in DOMAIN fixed \cup given |-> IF n \in DOMAIN fixed THEN fixed[n] ELSE number[n]]
  BY DEF Request
<1>2. DOMAIN fixed = {"id", "family", "type", "address", "flags"}
  OBVIOUS
<1>3. DOMAIN number = {"backlog", "timeout", "maxconn"}
  OBVIOUS
<1>4. DOMAIN t = DOMAIN fixed \cup given
  BY <1>1
<1>5. \A n \in DOMAIN fixed : t[n] = fixed[n]
  BY <1>1
<1>6. \A n \in {"backlog", "timeout", "maxconn"} : Get(t, n, 0) = number[n]
  <2> SUFFICES ASSUME NEW n \in {"backlog", "timeout", "maxconn"}
               PROVE  Get(t, n, 0) = number[n]
    OBVIOUS
  <2>1. n \notin DOMAIN fixed
    BY <1>2
  <2>2. n \in DOMAIN t <=> number[n] # 0
    BY <1>3, <1>4, <2>1
  <2>3. n \in DOMAIN t => t[n] = number[n]
    BY <1>1, <1>4, <2>1
  <2> QED
    BY <2>2, <2>3 DEF Get, Has
<1>7. /\ number["backlog"] = ToUint(f.backlog)
      /\ number["timeout"] = IF f.type = "datagram" THEN timeout ELSE 0
      /\ number["maxconn"] = IF f.type = "datagram" THEN f.limit ELSE 0
  OBVIOUS
<1>8. /\ fixed["id"] = id /\ fixed["family"] = f.to /\ fixed["type"] = f.type
      /\ fixed["address"] = f.family /\ fixed["flags"] = {"listen"}
  OBVIOUS
<1> HIDE DEF t, fixed, number, given
<1>9. /\ t.id = id /\ t.family = f.to /\ t.type = f.type
      /\ t.address = f.family /\ t.flags = {"listen"}
  BY <1>2, <1>5, <1>8
<1> QED
  BY <1>2, <1>4, <1>6, <1>7, <1>9 DEF t

-----------------------------------------------------------------------------
(* What the far peer makes of a request *)

\* The four kinds of outcome that a request may have.
LEMMA OutcomeCases ==
    ASSUME NEW t, NEW o \in Outcomes(t)
    PROVE  \/ /\ Accepts(t)
              /\ o = Outcome(NewSocket(t), [id |-> SocketId, address |-> Family(t)])
           \/ Accepts(t) /\ \E e \in Errors : o = Outcome(None, [error |-> e])
           \/ Accepts(t) /\ o \in {Outcome(None, None), Outcome(None, [failed |-> TRUE])}
           \/ ~Accepts(t) /\ o = Outcome(None, [error |-> EINVAL])
BY DEF Outcomes, Made

LEMMA NewSocketFields ==
    ASSUME NEW t
    PROVE  /\ NewSocket(t) # None
           /\ NewSocket(t).rid = t.id
           /\ NewSocket(t).type = Get(t, "type", "stream")
           /\ NewSocket(t).family = Family(t)
<1>1. "rid" \in DOMAIN NewSocket(t)
  BY DEF NewSocket
<1>2. "rid" \notin DOMAIN None
  BY DEF None
<1> QED
  BY <1>1, <1>2 DEF NewSocket

\* What makes an answer one that gives an id.
LEMMA AnswerKinds ==
    /\ ~Has(None, "id") /\ ~Has([failed |-> TRUE], "id")
    /\ \A e : ~Has([error |-> e], "id")
    /\ \A i, a : Has([id |-> i, address |-> a], "id")
BY DEF Has, None

\* A request that PROTOCOL allows is accepted.
LEMMA AllowedAccepted ==
    ASSUME NEW t, Allowed(t)
    PROVE  Accepts(t) /\ Family(t) = Get(t, "family", "inet")
<1>1. Has(t, "id") /\ IsId(t.id)
  BY DEF Allowed, IsId
<1>2. Has(t, "address") => t.address = Get(t, "family", "inet")
  BY DEF Allowed
<1>3. Family(t) = Get(t, "family", "inet")
  BY <1>2 DEF Family, Get
<1>4. /\ Has(t, "family") => t.family # "bad"
      /\ Has(t, "family") /\ Has(t, "address") => t.family = t.address
      /\ Family(t) \in {"inet", "inet6"}
  BY <1>2, <1>3 DEF Allowed, Get
<1>5. \A f \in {"backlog", "timeout", "maxconn"} : Has(t, f) => IsUint(t[f])
  <2> SUFFICES ASSUME NEW f \in {"backlog", "timeout", "maxconn"}, Has(t, f)
               PROVE  IsUint(t[f])
    OBVIOUS
  <2>1. t[f] \in 1 .. Modulus - 1
    BY DEF Allowed
  <2>2. Modulus \in Nat
    BY WidthAssumption
  <2> QED
    BY <2>1, <2>2 DEF IsUint
<1> QED
  BY <1>1, <1>3, <1>4, <1>5 DEF Allowed, Accepts

\* The request for a forwarder is accepted.
LEMMA OwnRequestSettings ==
    ASSUME asked \in Forwarders
    PROVE  LET t == Request(ListenerId, asked) IN
           /\ Family(t) \in {"inet", "inet6"}
           /\ InRange => NewSocket(t).settings = Expected
<1> DEFINE t == Request(ListenerId, asked)
           timeout == IF asked.timeout = 0 THEN TimeoutDefault ELSE asked.timeout
<1>1. /\ {"id", "family", "type", "address", "flags"} \subseteq DOMAIN t
      /\ t.id = ListenerId /\ t.family = asked.to /\ t.type = asked.type
      /\ t.address = asked.family /\ t.flags = {"listen"}
      /\ Get(t, "backlog", 0) = ToUint(asked.backlog)
      /\ Get(t, "timeout", 0) = IF asked.type = "datagram" THEN timeout ELSE 0
      /\ Get(t, "maxconn", 0) = IF asked.type = "datagram" THEN asked.limit ELSE 0
  BY RequestFields
<1>2. /\ asked.type \in {"stream", "datagram"}
      /\ asked.backlog \in Int /\ -Modulus <= 2 * asked.backlog
      /\ 2 * asked.backlog < Modulus
      /\ asked.timeout \in 0 .. Modulus - 1 /\ asked.limit \in 0 .. Modulus - 1
      /\ asked.family \in {"inet", "inet6"}
  BY ForwarderFacts
<1>3. /\ Modulus \in Nat \ {0} /\ Milli \in Nat \ {0} /\ BacklogDefault \in Nat \ {0}
      /\ TimeoutDefault \in Nat \ {0} /\ LimitDefault \in Nat \ {0}
      /\ TimeoutDefault * Milli < Modulus
  BY WidthAssumption
<1> HIDE DEF t
<1>4. /\ Family(t) = asked.family
      /\ Get(t, "type", "stream") = asked.type
      /\ Get(t, "flags", {}) = {"listen"}
  BY <1>1 DEF Family, Get, Has
<1>5. CASE asked.type = "stream"
  <2>1. ToInt(Get(t, "backlog", 0)) = asked.backlog
    BY <1>1, <1>2, IntSurvives
  <2>2. NewSocket(t).settings = StreamSettings(t)
    BY <1>4, <1>5 DEF NewSocket
  <2>3. (asked.backlog >= 0) <=> ~(asked.backlog < 0)
    BY <1>2
  <2>4. StreamSettings(t) = [backlog |-> IF asked.backlog < 0 THEN Default ELSE asked.backlog]
    BY <2>1, <2>3 DEF StreamSettings
  <2> QED
    BY <1>2, <1>4, <1>5, <2>2, <2>4 DEF Expected, t
<1>6. CASE asked.type = "datagram"
  <2> SUFFICES ASSUME InRange
               PROVE  NewSocket(t).settings = Expected
    BY <1>2, <1>4 DEF t
  <2>1. NewSocket(t).settings = DatagramSettings(t)
    BY <1>4, <1>6 DEF NewSocket
  <2>2. asked.backlog >= 0 /\ asked.timeout * Milli < Modulus
    BY <1>6 DEF InRange
  <2>3. OrDefault(Get(t, "backlog", 0), BacklogDefault)
            = IF asked.backlog > 0 THEN asked.backlog ELSE BacklogDefault
    <3>1. ToUint(asked.backlog) = asked.backlog
      BY <1>2, <1>3, <2>2, UintSurvives
    <3> QED
      BY <1>1, <1>2, <2>2, <3>1 DEF OrDefault
  <2>4. timeout \in Nat \ {0} /\ timeout * Milli < Modulus
    BY <1>2, <1>3, <2>2
  <2>5. timeout = OrDefault(asked.timeout, TimeoutDefault)
    BY DEF OrDefault
  <2>6. /\ timeout * Milli \in Nat \ {0}
        /\ timeout * Milli = Milli * timeout
    BY <1>3, <2>4, ProductFacts
  <2>7. ToUint(timeout * Milli) = timeout * Milli
    BY <2>4, <2>6, UintSurvives
  <2>8. OrDefault(ToUint(Get(t, "timeout", 0) * Milli), TimeoutDefault * Milli)
            = Milli * OrDefault(asked.timeout, TimeoutDefault)
    <3>1. Get(t, "timeout", 0) = timeout
      BY <1>1, <1>6
    <3> QED
      BY <2>5, <2>6, <2>7, <3>1 DEF OrDefault
  <2>9. OrDefault(Get(t, "maxconn", 0), LimitDefault) = OrDefault(asked.limit, LimitDefault)
    BY <1>1, <1>6
  <2> QED
    BY <1>6, <2>1, <2>3, <2>4, <2>8, <2>9 DEF DatagramSettings, Expected
<1> QED
  BY <1>2, <1>5, <1>6

\* What the caller makes of an answer to its request.
LEMMA CompletedRight ==
    ASSUME asked \in Forwarders,
           NEW o \in Outcomes(Request(ListenerId, asked)), o.answer # None
    PROVE  /\ (Completed(o.answer) > 0) <=> (o.made # None)
           /\ InRange => (o.made # None => o.made.settings = Expected)
<1> DEFINE t == Request(ListenerId, asked)
           accepted == [id |-> SocketId, address |-> Family(t)]
<1>1. Family(t) \in {"inet", "inet6"} /\ (InRange => NewSocket(t).settings = Expected)
  BY OwnRequestSettings
<1> HIDE DEF t
<1>2. CASE o = Outcome(NewSocket(t), accepted)
  <2>1. o.made = NewSocket(t) /\ o.answer = accepted
    BY <1>2 DEF Outcome
  <2>2. DOMAIN accepted = {"id", "address"} /\ accepted.id = SocketId
                                          /\ accepted.address = Family(t)
    OBVIOUS
  <2>3. SocketId \in 1 .. IdMax /\ IdMax \in Nat
    BY ForwardersAssumption, WidthAssumption
  <2>4. Completed(accepted) = SocketId
    BY <1>1, <2>2, <2>3 DEF Completed, IsId
  <2> QED
    BY <1>1, <2>1, <2>3, <2>4, NewSocketFields
<1>3. CASE \E e \in Errors \cup {EINVAL} : o = Outcome(None, [error |-> e])
  <2> PICK e \in Errors \cup {EINVAL} : o = Outcome(None, [error |-> e])
    BY <1>3
  <2>1. o.made = None /\ o.answer = [error |-> e]
    BY DEF Outcome
  <2>2. e \in Nat
    BY ErrorsAssumption DEF EINVAL
  <2>3. DOMAIN [error |-> e] = {"error"} /\ [error |-> e].error = e
    OBVIOUS
  <2>4. Completed([error |-> e]) \in {0, -e}
    BY <2>3 DEF Completed
  <2> QED
    BY <2>1, <2>2, <2>4
<1>4. CASE o = Outcome(None, [failed |-> TRUE])
  <2>1. o.made = None /\ o.answer = [failed |-> TRUE]
    BY <1>4 DEF Outcome
  <2>2. DOMAIN [failed |-> TRUE] = {"failed"}
    OBVIOUS
  <2>3. Completed([failed |-> TRUE]) = 0
    BY <2>2 DEF Completed
  <2> QED
    BY <2>1, <2>3
<1>5. o # Outcome(None, None)
  BY DEF Outcome
<1> QED
  BY <1>2, <1>3, <1>4, <1>5, OutcomeCases DEF t

-----------------------------------------------------------------------------
(* The invariant *)

Idle == {"parsing", "connecting"}

\* What has come of the SOCKET call.  An answer is one that the far peer gives
\* to the request for the forwarder, and comes with the socket that was made.
CallOK ==
    LET request == Request(ListenerId, asked) IN
    /\ asked = None \/ asked \in Forwarders
    /\ client \in Idle \/ peer = "STARTING" => call.step = "none"
    /\ call.step \in {"none", "request"} => socket = None
    /\ call.step \in {"request", "answer", "result"} => asked \in Forwarders
    /\ call.step = "request" => call.value = request
    /\ call.step = "answer" =>
        \E o \in Outcomes(request) :
            socket = o.made /\ o.answer # None /\ call.value = o.answer
    /\ call.step = "result" =>
        \E o \in Outcomes(request) :
            socket = o.made /\ o.answer # None /\ call.value = Completed(o.answer)

\* What has come of the other request is what the far peer makes of one.
OtherOK ==
    other # None =>
        \E t : \E o \in Outcomes(t) : other = [request |-> t, outcome |-> o]

\* The status that the client has so far, and what it is about to end with.
StatusOK ==
    /\ client \in Idle => info = "none" /\ ~answered /\ ret = "OK"
    /\ client \in Idle \cup {"running"} => exit = "none"
    /\ client = "running" /\ mode = "check" => ret = "OK"
    /\ answered \in BOOLEAN
    /\ answered => info # "called"
    /\ info = "answered" => answered
    /\ ret \in {"OK", "ERR"}
    /\ ret = "ERR" => peer = "STOPPED"
    /\ client = "quit" /\ mode = "check" /\ ret = "OK" /\ ~error /\ ~signal => answered
    /\ StatusRight

ToolInv == CallOK /\ OtherOK /\ StatusOK

LEMMA InitCall == Init => CallOK
BY ForwarderFacts DEF Init, CallOK, CallAt, Idle

\* Only InfoDone, SocketComplete and HandleClientSocket touch the call; the
\* others may not go back to where it has not been made.
LEMMA CallUntouched ==
    ASSUME CallOK, asked' = asked, call' = call, socket' = socket,
           client' \in Idle => client \in Idle \/ call.step = "none",
           peer' = "STARTING" => peer = "STARTING" \/ call.step = "none"
    PROVE  CallOK'
BY DEF CallOK, Outcomes, Made, InRange

LEMMA CallStep == ToolInv /\ [Next]_vars => CallOK'
<1> SUFFICES ASSUME CallOK, [Next]_vars
             PROVE  CallOK'
  BY DEF ToolInv
<1> USE DEF process, calls, far, Idle
<1>1. CASE ParseFails
  BY <1>1, CallUntouched DEF ParseFails
<1>2. CASE ClientRun
  BY <1>2, CallUntouched DEF ClientRun
<1>3. CASE StdioRun
  <2>1. call.step = "none"
    BY <1>3 DEF StdioRun, CallOK
  <2> QED
    BY <1>3, <2>1, CallUntouched DEF StdioRun
<1>4. CASE ConnectFails
  BY <1>4, CallUntouched DEF ConnectFails
<1>5. CASE ConnectDone
  <2>1. call.step = "none"
    BY <1>5 DEF ConnectDone, CallOK
  <2> QED
    BY <1>5, <2>1, CallUntouched DEF ConnectDone
<1>6. CASE InfoDone
  <2>1. /\ client = "running" /\ peer = "STARTING" /\ peer' \in {"STARTED", "STOPPED"}
        /\ client' \in {"running", "quit"}
        /\ asked' = asked /\ socket' = socket
    BY <1>6 DEF InfoDone, StateHandler
  <2>2. call.step = "none" /\ socket = None
    BY <2>1 DEF CallOK
  <2>3. CASE call' = call
    BY <2>1, <2>2, <2>3, CallUntouched
  <2>4. CASE asked # None /\ call' = CallAt("request", Request(ListenerId, asked))
    <3>1. call'.step = "request" /\ call'.value = Request(ListenerId, asked)
      BY <2>4 DEF CallAt
    <3>2. asked \in Forwarders
      BY <2>4 DEF CallOK
    <3> QED
      BY <2>1, <2>2, <3>1, <3>2 DEF CallOK
  <2> QED
    BY <1>6, <2>3, <2>4 DEF InfoDone
<1>7. CASE PeerStops
  BY <1>7, CallUntouched DEF PeerStops, StateHandler
<1>8. CASE SocketComplete
  <2>1. /\ client = "running" /\ call.step = "answer"
        /\ call'.step = "result" /\ call'.value = Completed(call.value)
        /\ asked' = asked /\ socket' = socket /\ client' = client /\ peer' = peer
    BY <1>8 DEF SocketComplete, CallAt
  <2>2. asked \in Forwarders /\ peer # "STARTING"
    BY <2>1 DEF CallOK
  <2> DEFINE request == Request(ListenerId, asked)
  <2>3. PICK o \in Outcomes(request) :
            socket = o.made /\ o.answer # None /\ call.value = o.answer
    BY <2>1 DEF CallOK
  <2>4. socket' = o.made /\ o.answer # None /\ call'.value = Completed(o.answer)
    BY <2>1, <2>3
  <2> QED
    BY <2>1, <2>2, <2>4 DEF CallOK
<1>9. CASE HandleClientSocket
  <2> DEFINE request == Request(ListenerId, asked)
  <2>1. /\ asked \in Forwarders /\ call.step = "request" /\ call.value = request
        /\ client \notin Idle /\ peer # "STARTING"
    BY <1>9 DEF HandleClientSocket, CallOK
  <2>2. PICK o \in Outcomes(request) :
            /\ socket' = o.made
            /\ call' = CallAt(IF o.answer = None THEN "unanswered" ELSE "answer", o.answer)
    BY <1>9, <2>1 DEF HandleClientSocket
  <2>3. asked' = asked /\ client' = client /\ peer' = peer
    BY <1>9 DEF HandleClientSocket
  <2>4. /\ call'.step \in {"unanswered", "answer"}
        /\ call'.step = "answer" => o.answer # None
        /\ call'.value = o.answer
    BY <2>2 DEF CallAt
  <2> QED
    BY <2>1, <2>2, <2>3, <2>4 DEF CallOK
<1>10. CASE Signal
  BY <1>10, CallUntouched DEF Signal
<1>11. CASE Exit
  BY <1>11, CallUntouched DEF Exit
<1>12. CASE AcceptDone \/ AcceptError \/ ServerEnds \/ HandleInfo
  BY <1>12, CallUntouched DEF AcceptDone, AcceptError, ServerEnds, HandleInfo
<1>13. CASE \E t \in Requests : HandleOtherSocket(t)
  BY <1>13, CallUntouched DEF HandleOtherSocket
<1>14. CASE UNCHANGED vars
  BY <1>14, CallUntouched DEF vars
<1> QED
  BY <1>1, <1>2, <1>3, <1>4, <1>5, <1>6, <1>7, <1>8, <1>9, <1>10, <1>11, <1>12, <1>13,
     <1>14 DEF Next, Proceed

LEMMA OtherStep == ToolInv /\ [Next]_vars => OtherOK'
<1> SUFFICES ASSUME OtherOK, [Next]_vars
             PROVE  OtherOK'
  BY DEF ToolInv
<1>1. CASE other' = other
  BY <1>1 DEF OtherOK, Outcomes, Made
<1>2. CASE \E t \in Requests : HandleOtherSocket(t)
  BY <1>2 DEF OtherOK, HandleOtherSocket
<1> QED
  BY <1>1, <1>2 DEF Next, Proceed, ParseFails, ClientRun, StdioRun, ConnectFails,
     ConnectDone, InfoDone, PeerStops, SocketComplete, Exit, AcceptDone, HandleInfo,
     HandleClientSocket, Signal, AcceptError, ServerEnds, vars, far

LEMMA StatusStep == ToolInv /\ [Next]_vars => StatusOK'
<1> SUFFICES ASSUME StatusOK, [Next]_vars
             PROVE  StatusOK'
  BY DEF ToolInv
<1> USE DEF process, calls, far, Idle, StatusOK, StatusRight
<1>1. CASE ParseFails
  BY <1>1 DEF ParseFails
<1>2. CASE ClientRun
  BY <1>2 DEF ClientRun
<1>3. CASE StdioRun
  BY <1>3 DEF StdioRun
<1>4. CASE ConnectFails
  BY <1>4 DEF ConnectFails
<1>5. CASE ConnectDone
  BY <1>5 DEF ConnectDone
<1>6. CASE InfoDone
  BY <1>6 DEF InfoDone, StateHandler
<1>7. CASE PeerStops
  BY <1>7 DEF PeerStops, StateHandler
<1>8. CASE SocketComplete
  BY <1>8 DEF SocketComplete
<1>9. CASE HandleClientSocket
  BY <1>9 DEF HandleClientSocket
<1>10. CASE Signal
  BY <1>10 DEF Signal
<1>11. CASE Exit
  BY <1>11 DEF Exit
<1>12. CASE AcceptDone \/ AcceptError \/ ServerEnds
  BY <1>12 DEF AcceptDone, AcceptError, ServerEnds
<1>13. CASE HandleInfo
  BY <1>13 DEF HandleInfo
<1>14. CASE (\E t \in Requests : HandleOtherSocket(t)) \/ UNCHANGED vars
  BY <1>14 DEF HandleOtherSocket, vars
<1> QED
  BY <1>1, <1>2, <1>3, <1>4, <1>5, <1>6, <1>7, <1>8, <1>9, <1>10, <1>11, <1>12, <1>13,
     <1>14 DEF Next, Proceed

\* The invariant holds in every state of the tool and its server.
THEOREM ToolInvariant == Spec => []ToolInv
<1>1. Init => ToolInv
  <2>1. Init => StatusOK
    BY DEF Init, StatusOK, StatusRight, Idle
  <2>2. Init => OtherOK
    BY DEF Init, OtherOK
  <2> QED
    BY <2>1, <2>2, InitCall DEF ToolInv
<1>2. ToolInv /\ [Next]_vars => ToolInv'
  BY CallStep, OtherStep, StatusStep DEF ToolInv
<1> QED
  BY <1>1, <1>2, PTL DEF Spec

-----------------------------------------------------------------------------
(* What follows from it *)

\* No request that PROTOCOL allows is refused by
\* fwd_control_service_handle_socket, and the socket is the one that it
\* describes.
THEOREM RequestsMeetProtocol == Spec => []RequestsAsAllowed
<1>1. OtherOK => RequestsAsAllowed
  <2> SUFFICES ASSUME OtherOK, other # None
               PROVE  RequestsAsAllowed
    BY DEF RequestsAsAllowed
  <2>1. PICK t : \E o \in Outcomes(t) : other = [request |-> t, outcome |-> o]
    BY DEF OtherOK
  <2>2. PICK o \in Outcomes(t) : other = [request |-> t, outcome |-> o]
    BY <2>1
  <2>3. other.request = t /\ other.outcome = o
    BY <2>2
  <2>4. \/ /\ Accepts(t) /\ o.made = NewSocket(t)
           /\ o.answer = [id |-> SocketId, address |-> Family(t)]
        \/ /\ Accepts(t) /\ o.made = None
           /\ \/ \E e \in Errors : o.answer = [error |-> e]
              \/ o.answer \in {None, [failed |-> TRUE]}
        \/ ~Accepts(t) /\ o.made = None /\ o.answer = [error |-> EINVAL]
    BY OutcomeCases DEF Outcome
  <2>5. Allowed(t) => Accepts(t) /\ Family(t) = Get(t, "family", "inet")
    BY AllowedAccepted
  <2>6. /\ \A e \in Errors : [error |-> e] # [error |-> EINVAL]
        /\ None # [error |-> EINVAL] /\ [failed |-> TRUE] # [error |-> EINVAL]
        /\ \A i, a : [id |-> i, address |-> a] # [error |-> EINVAL]
    <3>1. \A e \in Errors : [error |-> e].error # [error |-> EINVAL].error
      BY ErrorsAssumption
    <3>2. /\ \A e : "error" \in DOMAIN [error |-> e]
          /\ "error" \notin DOMAIN None /\ "error" \notin DOMAIN [failed |-> TRUE]
          /\ \A i, a : "error" \notin DOMAIN [id |-> i, address |-> a]
      BY DEF None
    <3> QED
      BY <3>1, <3>2
  <2>7. Allowed(t) => o.answer # [error |-> EINVAL]
    BY <2>4, <2>5, <2>6
  <2>8. o.made # None /\ Allowed(t) =>
            /\ o.made.rid = t.id
            /\ o.made.family = Get(t, "family", "inet")
            /\ o.made.type = Get(t, "type", "stream")
    BY <2>4, <2>5, NewSocketFields
  <2>9. (o.made # None) <=> Has(o.answer, "id")
    BY <2>4, NewSocketFields, AnswerKinds
  <2> QED
    BY <2>3, <2>7, <2>8, <2>9 DEF RequestsAsAllowed
<1> QED
  BY <1>1, ToolInvariant, PTL DEF ToolInv

\* The id that fwd_entry_datagram_forward_remote_socket_complete and its stream
\* twin get stands for a socket, and this has the settings that the caller of
\* the API has asked for, if these are in range.
THEOREM SettingsArrive == Spec => []SettingsInEffect
<1>1. CallOK => SettingsInEffect
  <2> SUFFICES ASSUME CallOK, call.step = "result"
               PROVE  /\ (call.value > 0) <=> (socket # None)
                      /\ InRange => InEffect
    BY DEF SettingsInEffect
  <2>1. asked \in Forwarders
    BY DEF CallOK
  <2>2. PICK o \in Outcomes(Request(ListenerId, asked)) :
            socket = o.made /\ o.answer # None /\ call.value = Completed(o.answer)
    BY DEF CallOK
  <2>3. /\ (Completed(o.answer) > 0) <=> (o.made # None)
        /\ InRange => (o.made # None => o.made.settings = Expected)
    BY <2>1, <2>2, CompletedRight
  <2> QED
    BY <2>2, <2>3 DEF InEffect
<1> QED
  BY <1>1, ToolInvariant, PTL DEF ToolInv

\* The exit status of a check, which main takes from what
\* fwd_run_state_handler has noted, is what has happened at both ends.
THEOREM StatusIsRight == Spec => []StatusRight
<1>1. ToolInv => StatusRight
  BY DEF ToolInv, StatusOK
<1> QED
  BY <1>1, ToolInvariant, PTL

=============================================================================
