--------------------------- MODULE StreamListenProofs ---------------------------
(***************************************************************************)
(* Theorems about StreamListen: for any number of requests and of clients, *)
(* requests are completed in order; and with a caller that submits nothing *)
(* after having cancelled, the asynchronous accept always has a request to *)
(* complete.                                                               *)
(***************************************************************************)
EXTENDS StreamListen, SequenceTheorems, TLAPS

\* What a removal at the place i does to a queue.
LEMMA RemoveAtFacts ==
    ASSUME NEW STATE q, q \in Seq(Requests), NEW i \in DOMAIN q
    PROVE  /\ RemoveAt(q, i) \in Seq(Requests)
           /\ Len(RemoveAt(q, i)) = Len(q) - 1
           /\ \A j \in 1 .. Len(q) - 1 :
                RemoveAt(q, i)[j] = IF j < i THEN q[j] ELSE q[j + 1]
<1> DEFINE a == SubSeq(q, 1, i - 1)
           b == SubSeq(q, i + 1, Len(q))
<1>1. /\ a \in Seq(Requests) /\ Len(a) = i - 1
      /\ \A j \in 1 .. i - 1 : a[j] = q[j]
  OBVIOUS
<1>2. /\ b \in Seq(Requests) /\ Len(b) = Len(q) - i
      /\ \A j \in 1 .. Len(q) - i : b[j] = q[i + j]
  OBVIOUS
<1>3. /\ a \o b \in Seq(Requests)
      /\ Len(a \o b) = Len(q) - 1
      /\ \A j \in 1 .. Len(q) - 1 : (a \o b)[j] = IF j < i THEN a[j] ELSE b[j - i + 1]
  <2> HIDE DEF a, b
  <2>1. Len(q) \in Nat /\ i \in 1 .. Len(q)
    OBVIOUS
  <2>2. /\ a \o b \in Seq(Requests)
        /\ Len(a \o b) = Len(a) + Len(b)
        /\ \A j \in 1 .. Len(a) + Len(b) :
                (a \o b)[j] = IF j <= Len(a) THEN a[j] ELSE b[j - Len(a)]
    BY <1>1, <1>2, ConcatProperties
  <2>3. Len(a) + Len(b) = Len(q) - 1
    BY <1>1, <1>2, <2>1
  <2>4. ASSUME NEW j \in 1 .. Len(q) - 1
        PROVE  (a \o b)[j] = IF j < i THEN a[j] ELSE b[j - i + 1]
    <3>1. (a \o b)[j] = IF j <= i - 1 THEN a[j] ELSE b[j - (i - 1)]
      BY <1>1, <2>2, <2>3
    <3>2. (j <= i - 1 <=> j < i) /\ j - (i - 1) = j - i + 1
      BY <2>1
    <3> QED
      BY <3>1, <3>2
  <2> QED
    BY <2>2, <2>3, <2>4
<1>4. \A j \in 1 .. Len(q) - 1 : j >= i => b[j - i + 1] = q[j + 1]
  <2> HIDE DEF b
  <2> QED
    BY <1>2
<1>5. RemoveAt(q, i) = a \o b
  BY DEF RemoveAt
<1> QED
  <2> HIDE DEF a, b
  <2> QED
    BY <1>1, <1>3, <1>4, <1>5

\* The numbers of asynchronous accepts remain numbers.
LEMMA CountsFacts ==
    ASSUME NEW STATE a, a \in Counts
    PROVE  Started(a) \in Counts /\ Cancelled(a) \in Counts /\ Dropped(a) \in Counts
<1>1. a.own \in Nat /\ a.stray \in Nat /\ a.cancelled \in Nat
  BY DEF Counts
<1>2. a.own + 1 \in Nat /\ a.stray + a.own \in Nat /\ a.cancelled + a.own \in Nat
  BY <1>1
<1>3. Started(a) \in Counts
  BY <1>2 DEF Started, Counts
<1>4. Cancelled(a) \in Counts /\ Dropped(a) \in Counts
  BY <1>1, <1>2 DEF Cancelled, Dropped, Counts
<1> QED
  BY <1>3, <1>4

LEMMA ContinueType ==
    ASSUME NEW STATE q, NEW STATE a, a \in Counts, Continue(q, a)
    PROVE  accepts' \in Counts /\ cancel' \in BOOLEAN
  BY CountsFacts DEF Continue

LEMMA CompleteType ==
    ASSUME TypeOK, NEW kind \in {"own", "stray", "cancelled"}, accepts[kind] > 0
    PROVE  Complete(kind) \in Counts
<1>1. accepts.own \in Nat /\ accepts.stray \in Nat /\ accepts.cancelled \in Nat
  BY DEF TypeOK, Counts
<1> QED
  BY <1>1 DEF Complete, TypeOK, Counts

\* What it leaves of the other kinds.
LEMMA CompleteCounts ==
    ASSUME TypeOK
    PROVE  /\ Complete("own").own = accepts.own - 1
           /\ Complete("own").stray = accepts.stray
           /\ Complete("own").cancelled = accepts.cancelled
           /\ Complete("cancelled").own = accepts.own
           /\ Complete("cancelled").stray = accepts.stray
           /\ Complete("cancelled").cancelled = accepts.cancelled - 1
  BY DEF Complete, TypeOK, Counts

\* Each step keeps the types.
LEMMA TypeStep == TypeOK /\ [Next]_vars => TypeOK'
<1> SUFFICES ASSUME TypeOK, [Next]_vars PROVE TypeOK'
  OBVIOUS
<1> USE ParametersAssumption
<1>1. CASE Listen
  BY <1>1 DEF Listen, TypeOK
<1>2. CASE ClientConnects
  BY <1>2 DEF ClientConnects, TypeOK
<1>3. ASSUME NEW r \in Requests, Accept(r)
      PROVE  TypeOK'
  <2>1. resubmitted' \in BOOLEAN
    BY <1>3 DEF Accept, AfterCancellation, TypeOK
  <2>2. accepts' \in Counts /\ cancel' \in BOOLEAN
    BY <1>3, CountsFacts DEF Accept, TypeOK
  <2>3. accept_reqs' \in Seq(Requests)
    BY <1>3 DEF Accept, TypeOK
  <2> QED
    BY <1>3, <2>1, <2>2, <2>3 DEF Accept, TypeOK
<1>4. ASSUME NEW r \in Requests, RequestCancelled(r)
      PROVE  TypeOK'
  <2>1. accept_reqs' \in Seq(Requests)
    BY <1>4, RemoveAtFacts DEF RequestCancelled, TypeOK
  <2>2. calls' \in [Requests -> {"new", "waiting", "ok", "cancelled", "dropped"}]
    BY <1>4 DEF RequestCancelled, TypeOK
  <2>3. accepts' \in Counts /\ cancel' \in BOOLEAN
    BY <1>4, CountsFacts DEF RequestCancelled, TypeOK
  <2> QED
    BY <1>4, <2>1, <2>2, <2>3 DEF RequestCancelled, TypeOK
<1>5. ASSUME NEW k \in AcceptKinds, AcceptSucceeds(k)
      PROVE  TypeOK'
  <2>1. Complete(k) \in Counts
    BY <1>5, CompleteType DEF AcceptSucceeds, AcceptKinds
  <2>2. accepts' \in Counts /\ cancel' \in BOOLEAN
    BY <1>5, <2>1, ContinueType DEF AcceptSucceeds
  <2>3. accept_reqs' \in Seq(Requests)
    BY <1>5 DEF AcceptSucceeds, TypeOK
  <2>4. calls' \in [Requests -> {"new", "waiting", "ok", "cancelled", "dropped"}]
    BY <1>5 DEF AcceptSucceeds, TypeOK
  <2> QED
    BY <1>5, <2>2, <2>3, <2>4 DEF AcceptSucceeds, TypeOK
<1>6. ASSUME NEW k \in AcceptKinds \cup {"cancelled"}, AcceptFails(k)
      PROVE  TypeOK'
  <2>1. Complete(k) \in Counts
    BY <1>6, CompleteType DEF AcceptFails, AcceptKinds
  <2>2. accepts' \in Counts /\ cancel' \in BOOLEAN
    BY <1>6, <2>1, ContinueType DEF AcceptFails
  <2> QED
    BY <1>6, <2>2 DEF AcceptFails, TypeOK
<1>7. CASE AcceptCancelled
  BY <1>6, <1>7 DEF AcceptCancelled
<1>8. CASE Dispose
  <2>1. calls' \in [Requests -> {"new", "waiting", "ok", "cancelled", "dropped"}]
    BY <1>8 DEF Dispose, TypeOK
  <2>2. accepts' \in Counts
    BY <1>8, CountsFacts DEF Dispose, TypeOK
  <2>3. /\ listener' = "gone" /\ accept_reqs' = <<>> /\ cancel' = FALSE
        /\ clients' = 0 /\ arrived' = arrived /\ resubmitted' = resubmitted
    BY <1>8 DEF Dispose
  <2>4. arrived' \in 0 .. MaxClients /\ clients' \in 0 .. arrived'
    BY <2>3 DEF TypeOK
  <2>5. accept_reqs' \in Seq(Requests)
    BY <2>3
  <2> QED
    BY <2>1, <2>2, <2>3, <2>4, <2>5 DEF TypeOK
<1>9. CASE UNCHANGED vars
  BY <1>9 DEF vars, TypeOK
<1> QED
  BY <1>1, <1>2, <1>3, <1>4, <1>5, <1>6, <1>7, <1>8, <1>9 DEF Next

\* The queue, place by place.
LEMMA QueueFacts ==
    ASSUME TypeOK, QueueMatches
    PROVE  /\ DOMAIN accept_reqs = 1 .. Len(accept_reqs)
           /\ Len(accept_reqs) \in Nat
           /\ \A i \in DOMAIN accept_reqs :
                accept_reqs[i] \in Requests /\ calls[accept_reqs[i]] = "waiting"
           /\ \A i, j \in DOMAIN accept_reqs : i # j => accept_reqs[i] # accept_reqs[j]
<1>1. /\ DOMAIN accept_reqs = 1 .. Len(accept_reqs)
      /\ Len(accept_reqs) \in Nat
      /\ \A i \in DOMAIN accept_reqs : accept_reqs[i] \in Requests
  BY DEF TypeOK
<1>2. \A i \in DOMAIN accept_reqs : calls[accept_reqs[i]] = "waiting"
  BY <1>1 DEF QueueMatches
<1>3. ASSUME NEW i \in DOMAIN accept_reqs, NEW j \in DOMAIN accept_reqs, i # j
      PROVE  accept_reqs[i] # accept_reqs[j]
  <2>1. i \in Int /\ j \in Int /\ accept_reqs[i] \in Int /\ accept_reqs[j] \in Int
    BY <1>1, <1>3 DEF Requests
  <2>2. accept_reqs[i] < accept_reqs[j] \/ accept_reqs[j] < accept_reqs[i]
    BY <1>3, <2>1 DEF QueueMatches
  <2> QED
    BY <2>1, <2>2
<1> QED
  BY <1>1, <1>2, <1>3

\* Each step keeps the queue in line with the requests.
LEMMA QueueStep == TypeOK /\ QueueMatches /\ ArrivedInOrder /\ [Next]_vars => QueueMatches'
<1> SUFFICES ASSUME TypeOK, QueueMatches, ArrivedInOrder, [Next]_vars
             PROVE  QueueMatches'
  OBVIOUS
<1> USE DEF Requests
<1>1. ASSUME NEW r \in Requests, Accept(r)
      PROVE  QueueMatches'
  <2>1. /\ accept_reqs' \in Seq(Requests)
        /\ DOMAIN accept_reqs' = 1 .. Len(accept_reqs) + 1
        /\ accept_reqs'[Len(accept_reqs) + 1] = r
        /\ \A i \in DOMAIN accept_reqs : accept_reqs'[i] = accept_reqs[i]
    BY <1>1 DEF Accept, TypeOK
  <2>2. \A i \in DOMAIN accept_reqs : accept_reqs[i] < r
    <3> SUFFICES ASSUME NEW i \in DOMAIN accept_reqs PROVE accept_reqs[i] < r
      OBVIOUS
    <3>1. accept_reqs[i] \in Requests /\ calls[accept_reqs[i]] = "waiting"
      BY QueueFacts
    <3>2. calls[r] = "new"
      BY <1>1 DEF Accept, Submits
    <3>3. ~(r < accept_reqs[i]) /\ r # accept_reqs[i]
      BY <3>1, <3>2 DEF ArrivedInOrder
    <3> QED
      BY <3>1, <3>3
  <2>3. calls' = [calls EXCEPT ![r] = "waiting"]
    BY <1>1 DEF Accept
  <2>4. ASSUME NEW s \in Requests
        PROVE  calls'[s] = "waiting" <=> \E i \in DOMAIN accept_reqs' : accept_reqs'[i] = s
    <3>1. CASE s = r
      <4>1. Len(accept_reqs) + 1 \in DOMAIN accept_reqs'
        BY <2>1, QueueFacts
      <4>2. calls'[s] = "waiting"
        BY <2>3, <3>1 DEF TypeOK
      <4> QED
        BY <2>1, <3>1, <4>1, <4>2
    <3>2. CASE s # r
      <4>1. calls'[s] = calls[s]
        BY <2>3, <3>2 DEF TypeOK
      <4>2. (\E i \in DOMAIN accept_reqs' : accept_reqs'[i] = s)
                <=> \E i \in DOMAIN accept_reqs : accept_reqs[i] = s
        BY <2>1, <3>2, QueueFacts
      <4> QED
        BY <4>1, <4>2 DEF QueueMatches
    <3> QED
      BY <3>1, <3>2
  <2>5. ASSUME NEW i \in DOMAIN accept_reqs', NEW j \in DOMAIN accept_reqs', i < j
        PROVE  accept_reqs'[i] < accept_reqs'[j]
    <3>1. i \in DOMAIN accept_reqs
      BY <2>1, <2>5, QueueFacts
    <3>2. CASE j \in DOMAIN accept_reqs
      BY <2>1, <2>5, <3>1, <3>2 DEF QueueMatches
    <3>3. CASE j = Len(accept_reqs) + 1
      BY <2>1, <2>2, <3>1, <3>3
    <3> QED
      BY <2>1, <3>2, <3>3, QueueFacts
  <2> QED
    BY <2>4, <2>5 DEF QueueMatches
<1>2. ASSUME NEW r \in Requests, RequestCancelled(r)
      PROVE  QueueMatches'
  <2>1. PICK i \in DOMAIN accept_reqs :
            accept_reqs[i] = r /\ accept_reqs' = RemoveAt(accept_reqs, i)
    BY <1>2 DEF RequestCancelled
  <2>2. /\ Len(accept_reqs') = Len(accept_reqs) - 1
        /\ accept_reqs' \in Seq(Requests)
        /\ \A j \in 1 .. Len(accept_reqs) - 1 :
                accept_reqs'[j] = IF j < i THEN accept_reqs[j] ELSE accept_reqs[j + 1]
    BY <2>1, RemoveAtFacts DEF TypeOK
  <2>3. calls' = [calls EXCEPT ![r] = "cancelled"]
    BY <1>2 DEF RequestCancelled
  <2>4. \A j, k \in DOMAIN accept_reqs' : j < k => accept_reqs'[j] < accept_reqs'[k]
    <3> SUFFICES ASSUME NEW j \in DOMAIN accept_reqs', NEW k \in DOMAIN accept_reqs',
                        j < k
                 PROVE  accept_reqs'[j] < accept_reqs'[k]
      OBVIOUS
    <3> DEFINE a == IF j < i THEN j ELSE j + 1
               b == IF k < i THEN k ELSE k + 1
    <3>0. j \in 1 .. Len(accept_reqs) - 1 /\ k \in 1 .. Len(accept_reqs) - 1
      BY <2>2, QueueFacts
    <3>1. /\ a \in DOMAIN accept_reqs /\ b \in DOMAIN accept_reqs /\ a < b
          /\ accept_reqs'[j] = accept_reqs[a] /\ accept_reqs'[k] = accept_reqs[b]
      <4>1. i \in 1 .. Len(accept_reqs)
        BY QueueFacts
      <4>2. a \in 1 .. Len(accept_reqs) /\ b \in 1 .. Len(accept_reqs) /\ a < b
        BY <3>0, <4>1
      <4>3. accept_reqs'[j] = accept_reqs[a] /\ accept_reqs'[k] = accept_reqs[b]
        BY <2>2, <3>0
      <4> QED
        BY <4>2, <4>3, QueueFacts
    <3>2. accept_reqs[a] < accept_reqs[b]
      <4> HIDE DEF a, b
      <4> QED
        BY <3>1 DEF QueueMatches
    <3> QED
      <4> HIDE DEF a, b
      <4> QED
        BY <3>1, <3>2
  <2>5. ASSUME NEW s \in Requests, calls'[s] = "waiting"
        PROVE  \E j \in DOMAIN accept_reqs' : accept_reqs'[j] = s
    <3>1. s # r /\ calls[s] = "waiting"
      BY <2>3, <2>5 DEF TypeOK
    <3>2. PICK j \in DOMAIN accept_reqs : accept_reqs[j] = s
      BY <3>1 DEF QueueMatches
    <3>3. CASE j < i
      BY <2>1, <2>2, <3>2, <3>3 DEF TypeOK
    <3>4. CASE j > i
      <4>1. j - 1 \in DOMAIN accept_reqs' /\ accept_reqs'[j - 1] = s
        BY <2>1, <2>2, <3>2, <3>4 DEF TypeOK
      <4> QED
        BY <4>1
    <3> QED
      BY <2>1, <3>1, <3>2, <3>3, <3>4 DEF TypeOK
  <2>6. ASSUME NEW j \in DOMAIN accept_reqs'
        PROVE  calls'[accept_reqs'[j]] = "waiting"
    <3> DEFINE k == IF j < i THEN j ELSE j + 1
    <3>0. j \in 1 .. Len(accept_reqs) - 1
      BY <2>2, <2>6, QueueFacts
    <3>1. k \in DOMAIN accept_reqs /\ k # i /\ accept_reqs'[j] = accept_reqs[k]
      BY <2>2, <3>0, QueueFacts
    <3>2. /\ accept_reqs[k] # r /\ calls[accept_reqs[k]] = "waiting"
          /\ accept_reqs[k] \in Requests
      <4> HIDE DEF k
      <4> QED
        BY <2>1, <3>1, QueueFacts
    <3> QED
      BY <2>3, <3>1, <3>2 DEF TypeOK
  <2> QED
    BY <2>4, <2>5, <2>6 DEF QueueMatches
<1>3. ASSUME NEW k \in AcceptKinds, AcceptSucceeds(k)
      PROVE  QueueMatches'
  <2>1. /\ accept_reqs # <<>>
        /\ accept_reqs' = Tail(accept_reqs)
        /\ calls' = [calls EXCEPT ![accept_reqs[1]] = "ok"]
    BY <1>3 DEF AcceptSucceeds, TypeOK
  <2>2. /\ accept_reqs' \in Seq(Requests)
        /\ DOMAIN accept_reqs' = 1 .. Len(accept_reqs) - 1
        /\ \A i \in 1 .. Len(accept_reqs) - 1 : accept_reqs'[i] = accept_reqs[i + 1]
    BY <2>1 DEF TypeOK
  <2>3. \A i, j \in DOMAIN accept_reqs' : i < j => accept_reqs'[i] < accept_reqs'[j]
    <3> SUFFICES ASSUME NEW i \in DOMAIN accept_reqs', NEW j \in DOMAIN accept_reqs',
                        i < j
                 PROVE  accept_reqs'[i] < accept_reqs'[j]
      OBVIOUS
    <3>1. i + 1 \in DOMAIN accept_reqs /\ j + 1 \in DOMAIN accept_reqs /\ i + 1 < j + 1
      BY <2>2, QueueFacts
    <3>2. accept_reqs[i + 1] < accept_reqs[j + 1]
      BY <3>1 DEF QueueMatches
    <3> QED
      BY <2>2, <3>2
  <2>4. ASSUME NEW s \in Requests, calls'[s] = "waiting"
        PROVE  \E j \in DOMAIN accept_reqs' : accept_reqs'[j] = s
    <3>1. s # accept_reqs[1] /\ calls[s] = "waiting"
      BY <2>1, <2>4 DEF TypeOK
    <3>2. PICK j \in DOMAIN accept_reqs : accept_reqs[j] = s
      BY <3>1 DEF QueueMatches
    <3>3. j - 1 \in DOMAIN accept_reqs' /\ accept_reqs'[j - 1] = s
      BY <2>2, <3>1, <3>2 DEF TypeOK
    <3> QED
      BY <3>3
  <2>5. ASSUME NEW j \in DOMAIN accept_reqs'
        PROVE  calls'[accept_reqs'[j]] = "waiting"
    <3>1. /\ 1 \in DOMAIN accept_reqs /\ j + 1 \in DOMAIN accept_reqs /\ j + 1 # 1
          /\ accept_reqs'[j] = accept_reqs[j + 1]
      BY <2>2, <2>5, QueueFacts
    <3>2. accept_reqs[1] # accept_reqs[j + 1]
      BY <3>1, QueueFacts
    <3>3. accept_reqs[j + 1] \in Requests /\ calls[accept_reqs[j + 1]] = "waiting"
      BY <3>1, QueueFacts
    <3> QED
      BY <2>1, <3>1, <3>2, <3>3 DEF TypeOK
  <2> QED
    BY <2>3, <2>4, <2>5 DEF QueueMatches
<1>4. CASE Dispose
  BY <1>4 DEF Dispose, TypeOK, QueueMatches
<1>5. ASSUME UNCHANGED <<accept_reqs, calls>>
      PROVE  QueueMatches'
  BY <1>5 DEF QueueMatches
<1>6. Listen \/ ClientConnects \/ (\E k \in AcceptKinds : AcceptFails(k))
      \/ AcceptCancelled \/ UNCHANGED vars
        => UNCHANGED <<accept_reqs, calls>>
  BY DEF Listen, ClientConnects, AcceptFails, AcceptCancelled, vars
<1> QED
  BY <1>1, <1>2, <1>3, <1>4, <1>5, <1>6 DEF Next

\* The status of a request only changes when it arrives, is cancelled, is at
\* the head of the queue of a successful accept, or waits when the entry is
\* disposed of.
LEMMA CallSteps ==
    ASSUME TypeOK, QueueMatches, [Next]_vars, NEW r \in Requests
    PROVE  \/ calls'[r] = calls[r]
           \/ calls[r] = "new" /\ calls'[r] = "waiting" /\ Submits(r)
           \/ calls[r] = "waiting" /\ calls'[r] \in {"cancelled", "dropped"}
           \/ /\ calls[r] = "waiting" /\ calls'[r] = "ok"
              /\ \A s \in Requests : calls[s] = "waiting" => r <= s
<1>1. ASSUME NEW s \in Requests, Accept(s)
      PROVE  calls'[r] = calls[r] \/
             (calls[r] = "new" /\ calls'[r] = "waiting" /\ Submits(r))
  BY <1>1 DEF Accept, Submits, TypeOK
<1>2. ASSUME NEW s \in Requests, RequestCancelled(s)
      PROVE  calls'[r] = calls[r] \/ (calls[r] = "waiting" /\ calls'[r] = "cancelled")
  <2>1. calls[s] = "waiting"
    BY <1>2, QueueFacts DEF RequestCancelled
  <2> QED
    BY <1>2, <2>1 DEF RequestCancelled, TypeOK
<1>3. ASSUME NEW k \in AcceptKinds, AcceptSucceeds(k)
      PROVE  \/ calls'[r] = calls[r]
             \/ /\ calls[r] = "waiting" /\ calls'[r] = "ok"
                /\ \A s \in Requests : calls[s] = "waiting" => r <= s
  <2>1. /\ 1 \in DOMAIN accept_reqs
        /\ calls' = [calls EXCEPT ![accept_reqs[1]] = "ok"]
    BY <1>3 DEF AcceptSucceeds, TypeOK
  <2>2. CASE r # accept_reqs[1]
    BY <2>1, <2>2, QueueFacts DEF TypeOK
  <2>3. CASE r = accept_reqs[1]
    <3>1. ASSUME NEW s \in Requests, calls[s] = "waiting"
          PROVE  r <= s
      <4>1. PICK i \in DOMAIN accept_reqs : accept_reqs[i] = s
        BY <3>1 DEF QueueMatches
      <4>2. CASE i = 1
        BY <2>3, <4>1, <4>2 DEF Requests
      <4>3. CASE i # 1
        <5>1. 1 < i
          BY <4>3, QueueFacts
        <5>2. accept_reqs[1] < accept_reqs[i]
          BY <2>1, <5>1 DEF QueueMatches
        <5> QED
          BY <2>3, <4>1, <5>2 DEF Requests
      <4> QED
        BY <4>2, <4>3
    <3>2. calls[r] = "waiting" /\ calls'[r] = "ok"
      BY <2>1, <2>3, QueueFacts DEF TypeOK
    <3> QED
      BY <3>1, <3>2
  <2> QED
    BY <2>2, <2>3
<1>4. CASE Dispose
  BY <1>4 DEF Dispose, TypeOK
<1>5. Listen \/ ClientConnects \/ (\E k \in AcceptKinds : AcceptFails(k))
      \/ AcceptCancelled \/ UNCHANGED vars
        => calls' = calls
  BY DEF Listen, ClientConnects, AcceptFails, AcceptCancelled, vars
<1> QED
  BY <1>1, <1>2, <1>3, <1>4, <1>5 DEF Next

\* Each step keeps the order of the requests, whatever the caller cancels.
LEMMA OrderStep == OrderInv /\ [Next]_vars => OrderInv'
<1> SUFFICES ASSUME OrderInv, [Next]_vars PROVE OrderInv'
  OBVIOUS
<1> USE DEF OrderInv
<1>1. TypeOK'
  BY TypeStep
<1>2. QueueMatches'
  BY QueueStep
<1>3. ASSUME NEW r \in Requests, NEW s \in Requests, r < s, calls'[r] = "new"
      PROVE  calls'[s] = "new"
  <2>1. calls[r] = "new" /\ calls[s] = "new"
    BY <1>3, CallSteps DEF ArrivedInOrder
  <2>2. ~Submits(s)
    BY <1>3, <2>1 DEF Submits, Requests
  <2> QED
    BY <2>1, <2>2, CallSteps
<1>4. ASSUME NEW r \in Requests, NEW s \in Requests, r < s, calls'[s] = "ok"
      PROVE  calls'[r] # "waiting"
  <2>1. CASE calls[s] = "ok"
    <3>1. calls[r] # "waiting" /\ calls[r] # "new"
      BY <1>4, <2>1 DEF CompletedInOrder, ArrivedInOrder
    <3> QED
      BY <3>1, CallSteps
  <2>2. CASE calls[s] # "ok"
    <3>1. /\ calls[s] = "waiting"
          /\ \A t \in Requests : calls[t] = "waiting" => s <= t
      BY <1>4, <2>2, CallSteps
    <3>2. calls[r] # "waiting" /\ calls[r] # "new"
      BY <1>4, <3>1 DEF ArrivedInOrder, Requests
    <3> QED
      BY <3>2, CallSteps
  <2> QED
    BY <2>1, <2>2
<1> QED
  BY <1>1, <1>2, <1>3, <1>4 DEF ArrivedInOrder, CompletedInOrder

LEMMA Initial == Init => OrderInv
<1> SUFFICES ASSUME Init PROVE OrderInv
  OBVIOUS
<1>1. TypeOK
  <2>1. accepts \in Counts
    BY DEF Init, Counts
  <2>2. accept_reqs \in Seq(Requests)
    BY DEF Init
  <2>3. calls \in [Requests -> {"new", "waiting", "ok", "cancelled", "dropped"}]
    BY DEF Init
  <2>4. arrived \in 0 .. MaxClients /\ clients \in 0 .. arrived
    BY ParametersAssumption DEF Init
  <2> QED
    BY <2>1, <2>2, <2>3, <2>4 DEF Init, TypeOK
<1>2. DOMAIN accept_reqs = {} /\ \A r \in Requests : calls[r] = "new"
  BY DEF Init
<1> QED
  BY <1>1, <1>2 DEF OrderInv, QueueMatches, ArrivedInOrder, CompletedInOrder

LEMMA OrderInvariant == Spec => []OrderInv
  BY Initial, OrderStep, PTL DEF Spec

\* Every variable of the listening entry keeps its type; in particular the
\* asynchronous accepts that are accounted for never get fewer than none.
THEOREM TypeCorrect == Spec => []TypeOK
<1>1. OrderInv => TypeOK
  BY DEF OrderInv
<1> QED
  BY <1>1, OrderInvariant, PTL

\* The ACCEPT requests of one listening socket (accept_reqs) are completed in
\* the order in which they arrive, for any number of requests and clients and
\* whatever is cancelled.
THEOREM OrderCorrect == Spec => []CompletedInOrder
<1>1. OrderInv => CompletedInOrder
  BY DEF OrderInv
<1> QED
  BY <1>1, OrderInvariant, PTL

-----------------------------------------------------------------------------
(* A caller that stops after having cancelled *)

\* Each step keeps the flag, the asynchronous accepts and the queue in line.
LEMMA FlagStep ==
    ASSUME OwnInv, [Next]_vars, ~resubmitted'
    PROVE  FlagAgrees' /\ NoneAfterCancelled'
<1> USE DEF OwnInv
<1>0. ~resubmitted
  BY DEF Next, Listen, ClientConnects, Accept, AfterCancellation, RequestCancelled,
         AcceptSucceeds, AcceptFails, AcceptCancelled, Dispose, vars
<1>1. /\ accepts.own \in Nat /\ accepts.stray = 0 /\ accepts.cancelled \in Nat
      /\ accepts = [own |-> accepts.own, stray |-> 0, cancelled |-> accepts.cancelled]
      /\ accepts.own = (IF cancel THEN 1 ELSE 0)
      /\ cancel <=> accept_reqs # <<>>
  BY <1>0 DEF TypeOK, Counts, FlagAgrees
<1>2. ASSUME NEW r \in Requests, Accept(r)
      PROVE  FlagAgrees' /\ NoneAfterCancelled'
  <2>0. ~\E s \in Requests : calls[s] = "cancelled"
    <3>1. ~AfterCancellation
      BY <1>2 DEF Accept
    <3> QED
      BY <3>1 DEF AfterCancellation
  <2>1. accepts.cancelled = 0
    BY <1>0, <1>1, <1>2, <2>0 DEF Accept, NoneAfterCancelled
  <2>2. /\ accepts'.own = 1 /\ accepts'.stray = 0
        /\ accepts'.cancelled = accepts.cancelled /\ cancel' = TRUE
    BY <1>1, <1>2 DEF Accept, Started
  <2>3. accept_reqs' # <<>>
    BY <1>2 DEF Accept, TypeOK
  <2> QED
    BY <1>0, <2>1, <2>2, <2>3 DEF FlagAgrees, NoneAfterCancelled
<1>3. ASSUME NEW r \in Requests, RequestCancelled(r)
      PROVE  FlagAgrees' /\ NoneAfterCancelled'
  <2>1. accept_reqs # <<>> /\ cancel
    BY <1>1, <1>3 DEF RequestCancelled
  <2>2. calls'[r] = "cancelled"
    BY <1>3 DEF RequestCancelled, TypeOK
  <2>3. CASE accept_reqs' = <<>>
    BY <1>0, <1>1, <1>3, <2>2, <2>3 DEF RequestCancelled, Cancelled, FlagAgrees, NoneAfterCancelled
  <2>4. CASE accept_reqs' # <<>>
    BY <1>0, <1>1, <1>3, <2>1, <2>4 DEF RequestCancelled, FlagAgrees, NoneAfterCancelled
  <2> QED
    BY <2>3, <2>4
<1>4. ASSUME NEW k \in AcceptKinds, AcceptSucceeds(k)
      PROVE  FlagAgrees' /\ NoneAfterCancelled'
  <2>1. k = "own" /\ cancel /\ accepts.own = 1 /\ accepts.cancelled = 0
    BY <1>0, <1>1, <1>4 DEF AcceptSucceeds, AcceptKinds, NoneAfterCancelled
  <2>2. /\ Complete(k).own = 0 /\ Complete(k).stray = 0 /\ Complete(k).cancelled = 0
        /\ Complete(k) \in Counts
    BY <1>1, <2>1, CompleteCounts, CompleteType
  <2>3. accept_reqs' = Tail(accept_reqs)
    BY <1>4 DEF AcceptSucceeds
  <2>4. CASE accept_reqs' # <<>>
    <3>1. accepts' = Started(Complete(k)) /\ cancel' = TRUE
      BY <1>4, <2>1, <2>3, <2>4 DEF AcceptSucceeds, Continue
    <3> QED
      BY <1>0, <2>2, <2>4, <3>1 DEF Started, Counts, FlagAgrees, NoneAfterCancelled
  <2>5. CASE accept_reqs' = <<>>
    <3>1. accepts' = Dropped(Complete(k)) /\ cancel' = FALSE
      BY <1>4, <2>1, <2>3, <2>5 DEF AcceptSucceeds, Continue
    <3> QED
      BY <1>0, <2>2, <2>5, <3>1 DEF Dropped, FlagAgrees, NoneAfterCancelled
  <2> QED
    BY <2>4, <2>5
<1>5. ASSUME NEW k \in AcceptKinds, AcceptFails(k)
      PROVE  FlagAgrees' /\ NoneAfterCancelled'
  <2>1. k = "own" /\ cancel /\ accepts.own = 1 /\ accepts.cancelled = 0
    BY <1>0, <1>1, <1>5 DEF AcceptFails, AcceptKinds, NoneAfterCancelled
  <2>2. /\ Complete(k).own = 0 /\ Complete(k).stray = 0 /\ Complete(k).cancelled = 0
        /\ Complete(k) \in Counts
    BY <1>1, <2>1, CompleteCounts, CompleteType
  <2>3. accepts' = Started(Complete(k)) /\ cancel' = TRUE /\ accept_reqs' = accept_reqs
    BY <1>1, <1>5, <2>1 DEF AcceptFails, Continue
  <2> QED
    BY <1>0, <1>1, <2>1, <2>2, <2>3 DEF Started, Counts, FlagAgrees, NoneAfterCancelled
<1>6. CASE AcceptCancelled
  <2>1. accepts.cancelled > 0 /\ ~cancel /\ accept_reqs = <<>>
    BY <1>0, <1>1, <1>6 DEF AcceptCancelled, AcceptFails, NoneAfterCancelled
  <2>2. Complete("cancelled").own = 0 /\ Complete("cancelled").stray = 0
    BY <1>1, <2>1, CompleteCounts
  <2>3. /\ accepts' = Dropped(Complete("cancelled")) /\ cancel' = FALSE
        /\ UNCHANGED <<listener, accept_reqs, calls>>
    BY <1>6, <2>1 DEF AcceptCancelled, AcceptFails, Continue
  <2> QED
    BY <1>0, <2>1, <2>2, <2>3 DEF Dropped, FlagAgrees, NoneAfterCancelled
<1>7. CASE Dispose
  BY <1>0, <1>1, <1>7 DEF Dispose, Cancelled, FlagAgrees, NoneAfterCancelled
<1>8. CASE Listen
  BY <1>0, <1>1, <1>8 DEF Listen, FlagAgrees, NoneAfterCancelled
<1>9. CASE ClientConnects \/ UNCHANGED vars
  BY <1>0, <1>1, <1>9 DEF ClientConnects, vars, FlagAgrees, NoneAfterCancelled
<1> QED
  BY <1>2, <1>3, <1>4, <1>5, <1>6, <1>7, <1>8, <1>9 DEF Next


LEMMA OwnStep == OrderInv /\ OwnInv /\ [Next]_vars => OwnInv'
<1> SUFFICES ASSUME OrderInv, OwnInv, [Next]_vars PROVE OwnInv'
  OBVIOUS
<1>1. TypeOK' /\ QueueMatches'
  BY TypeStep, QueueStep DEF OrderInv
<1>2. resubmitted' \/ (FlagAgrees' /\ NoneAfterCancelled')
  BY FlagStep
<1>3. resubmitted' => FlagAgrees' /\ NoneAfterCancelled'
  BY DEF FlagAgrees, NoneAfterCancelled
<1> QED
  BY <1>1, <1>2, <1>3 DEF OwnInv

LEMMA OwnInitial == Init => OwnInv
<1> SUFFICES ASSUME Init PROVE OwnInv
  OBVIOUS
<1>1. TypeOK /\ QueueMatches
  BY Initial DEF OrderInv
<1>2. /\ accepts.own = 0 /\ accepts.stray = 0 /\ accepts.cancelled = 0
      /\ cancel = FALSE /\ accept_reqs = <<>>
  BY DEF Init
<1> QED
  BY <1>1, <1>2 DEF OwnInv, FlagAgrees, NoneAfterCancelled

LEMMA OwnInvariant == Spec => []OwnInv
  BY OrderInvariant, OwnInitial, OwnStep, PTL DEF Spec

\* With a caller that submits nothing after having cancelled an ACCEPT, as the
\* remote forwarding entry of this library, the GCancellable of the listening
\* entry is what fwd_entry_stream_listen_accept takes it for: there is one
\* exactly when one asynchronous accept is pending, and exactly when there is
\* a request to accept for.
THEOREM FlagCorrect == Spec => []FlagAgrees
<1>1. OwnInv => FlagAgrees
  BY DEF OwnInv
<1> QED
  BY <1>1, OwnInvariant, PTL

\* With such a caller the accept queue is never empty when an asynchronous
\* accept gets a socket, as fwd_entry_stream_listen_accept_complete assumes.
THEOREM QueueNeverEmpty == Spec => [](~resubmitted => SomethingThere)
<1>1. OwnInv => (~resubmitted => SomethingThere)
  BY DEF OwnInv, TypeOK, Counts, FlagAgrees, SomethingThere, AcceptKinds
<1> QED
  BY <1>1, OwnInvariant, PTL

=============================================================================
