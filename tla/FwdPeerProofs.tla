---------------------------- MODULE FwdPeerProofs ----------------------------
(***************************************************************************)
(* The safety properties of FwdPeer, for every set of entry types, every   *)
(* width of the id counter, every number of sockets and every depth of     *)
(* nested handlers.                                                        *)
(***************************************************************************)
EXTENDS FwdPeer, TLAPS

-----------------------------------------------------------------------------
(* Lemmas about the operators *)

LEMMA AdvanceType ==
    ASSUME nextId \in 0 .. IdMask, NEW d \in Nat
    PROVE  Advance(d) \in 0 .. IdMask
  BY BoundsAssumption DEF Advance

\* The id returned by fwd_peer_next_id is not in use.
LEMMA NextIdFresh ==
    ASSUME TypeOK, NEW id \in Ids, NextId(id)
    PROVE  id \notin Sockets /\ nextId' \in 0 .. IdMask
<1>1. PICK d \in 0 .. IdMask : ~Skipped(id) /\ nextId' = Advance(d + 1)
  BY DEF NextId
<1>2. d + 1 \in Nat /\ nextId \in 0 .. IdMask
  BY BoundsAssumption DEF TypeOK
<1> QED
  BY <1>1, <1>2, AdvanceType DEF Skipped

LEMMA AppendFacts ==
    ASSUME NEW stack \in Seq(Frame), NEW f \in Frame
    PROVE  /\ Append(stack, f) \in Seq(Frame)
           /\ DOMAIN Append(stack, f) = DOMAIN stack \cup {Len(stack) + 1}
           /\ Len(stack) + 1 \notin DOMAIN stack
           /\ \A n \in DOMAIN stack : Append(stack, f)[n] = stack[n] /\ n < Len(stack) + 1
           /\ Append(stack, f)[Len(stack) + 1] = f
  OBVIOUS

LEMMA PopFacts ==
    ASSUME TypeOK, frames # <<>>
    PROVE  /\ Popped \in Seq(Frame)
           /\ Len(Popped) = Len(frames) - 1
           /\ DOMAIN Popped = DOMAIN frames \ {Len(frames)}
           /\ Len(frames) \in DOMAIN frames
           /\ Top \in Frame
           /\ \A n \in DOMAIN Popped : Popped[n] = frames[n] /\ n < Len(frames)
<1>1. frames \in Seq(Frame)
  BY DEF TypeOK
<1>2. Len(frames) \in DOMAIN frames /\ Len(frames) \in Nat \ {0}
  BY <1>1
<1>3. Top \in Frame
  BY <1>1, <1>2 DEF Top
<1> DEFINE k == Len(frames) - 1
<1>4. /\ Popped \in Seq(Frame)
      /\ Len(Popped) = k
      /\ \A n \in 1 .. k : Popped[n] = frames[n]
  <2>1. k \in Nat /\ k <= Len(frames) /\ \A n \in 1 .. k : frames[n] \in Frame
    BY <1>1, <1>2
  <2>2. Popped = [n \in 1 .. k |-> frames[n]]
    BY <1>1, <2>1 DEF Popped
  <2>3. [n \in 1 .. k |-> frames[n]] \in [1 .. k -> Frame]
    BY <2>1
  <2> HIDE DEF k
  <2> QED
    BY <2>1, <2>2, <2>3
<1>5. DOMAIN Popped = 1 .. Len(frames) - 1 /\ DOMAIN frames = 1 .. Len(frames)
  BY <1>1, <1>4
<1> QED
  BY <1>2, <1>3, <1>4, <1>5

LEMMA FramesTyped ==
    ASSUME TypeOK
    PROVE  \A n \in DOMAIN frames :
               /\ frames[n] \in Frame
               /\ frames[n].id \in Ids
               /\ frames[n].rest \subseteq Ids
               /\ 0 \notin frames[n].rest \cup {frames[n].id}
<1>1. \A n \in DOMAIN frames : frames[n] \in Frame
  BY DEF TypeOK
<1>2. \A f \in Frame : f.id \in Ids /\ f.rest \subseteq Ids
  BY DEF Frame
<1>3. 0 \notin Ids
  BY DEF Ids
<1> QED
  BY <1>1, <1>2, <1>3

LEMMA EmittingType ==
    ASSUME NEW fn \in {"insert", "close"}, NEW id \in Ids
    PROVE  /\ Emitting(fn, id) \in Frame
           /\ Emitting(fn, id).fn = fn /\ Emitting(fn, id).id = id
  BY DEF Emitting, Frame

LEMMA KindsAreKinds == ASSUME NEW k \in Kinds PROVE k # None
  BY KindsAssumption DEF None, AllKinds, ApiKinds, ControlKinds, ChildKinds,
     ConnectionKinds, StreamForwarders, DatagramForwarders

\* A connection has no connections.
LEMMA ChildrenOfChildren ==
    ASSUME TypeOK, Owned, NEW id \in Ids, NEW c \in Children(id)
    PROVE  \A d \in Sockets : parent[d] # c
<1> SUFFICES ASSUME NEW d \in Sockets, parent[d] = c PROVE FALSE
  OBVIOUS
<1>1. c \in Sockets /\ d \in Sockets /\ parent[c] = id /\ parent[d] = c /\ c \in Ids
  BY DEF Children, Sockets
<1>2. parent[c] # 0 /\ parent[d] # 0
  BY <1>1 DEF Ids
<1>3. ConnectionKind(kind[id]) = kind[c] /\ ConnectionKind(kind[c]) = kind[d]
  BY <1>1, <1>2 DEF Owned
<1>4. kind[d] # None
  BY <1>1 DEF Sockets
<1> QED
  BY <1>3, <1>4 DEF ConnectionKind, None

\* Steps that leave the table alone.
LEMMA SameTable ==
    ASSUME UNCHANGED <<kind, parent>>
    PROVE  /\ Sockets' = Sockets
           /\ Owned => Owned'
  BY DEF Sockets, Owned

\* What taking an entry out of the table does to the families.
LEMMA TakeOutFacts ==
    ASSUME TypeOK, Owned, NEW id \in Ids, TakeOut(id)
    PROVE  /\ kind' \in [Ids -> Kinds \cup {None}]
           /\ parent' \in [Ids -> Ids \cup {0}]
           /\ starts' \in [Ids -> Nat]
           /\ \A i \in Ids : i # id => kind'[i] = kind[i] /\ starts'[i] = starts[i]
           /\ starts'[id] = 0
           /\ Sockets' = Sockets \ {id}
           /\ \A i \in Ids : parent'[i] # id /\ parent'[i] \in {0, parent[i]}
           /\ Owned'
<1>1. /\ kind' = [kind EXCEPT ![id] = None]
      /\ starts' = [starts EXCEPT ![id] = 0]
      /\ parent' = [i \in Ids |-> IF i = id \/ parent[i] = id THEN 0 ELSE parent[i]]
  BY DEF TakeOut
<1>2. /\ kind' \in [Ids -> Kinds \cup {None}]
      /\ parent' \in [Ids -> Ids \cup {0}]
      /\ starts' \in [Ids -> Nat]
      /\ \A i \in Ids : i # id => kind'[i] = kind[i] /\ starts'[i] = starts[i]
      /\ starts'[id] = 0
  BY <1>1 DEF TypeOK
<1>3. Sockets' = Sockets \ {id}
  BY <1>1 DEF TypeOK, Sockets
<1>4. \A i \in Ids : parent'[i] # id /\ parent'[i] \in {0, parent[i]}
  BY <1>1 DEF Ids
<1>5. Owned'
  <2> SUFFICES ASSUME NEW c \in Sockets', parent'[c] # 0
               PROVE  /\ parent'[c] \in Sockets'
                      /\ ConnectionKind(kind'[parent'[c]]) = kind'[c]
    BY DEF Owned
  <2>1. c \in Sockets /\ c # id /\ c \in Ids
    BY <1>3 DEF Sockets
  <2>2. parent'[c] = parent[c] /\ parent[c] # id
    BY <1>4, <2>1
  <2>3. parent[c] \in Sockets /\ ConnectionKind(kind[parent[c]]) = kind[c]
    BY <2>1, <2>2 DEF Owned
  <2>4. parent[c] \in Ids
    BY <2>3 DEF Sockets
  <2> QED
    BY <1>2, <1>3, <2>1, <2>2, <2>3, <2>4
<1> QED
  BY <1>2, <1>3, <1>4, <1>5

-----------------------------------------------------------------------------
(* The steps *)

LEMMA InsertStep ==
    ASSUME IInv, NEW k \in Kinds, NEW p, Insert(k, p),
           \/ p = 0
           \/ frames = <<>> /\ p \in Sockets /\ ConnectionKind(kind[p]) = k
    PROVE  IInv'
<1>1. PICK id \in Ids :
        /\ NextId(id)
        /\ kind' = [kind EXCEPT ![id] = k]
        /\ parent' = [parent EXCEPT ![id] = p]
        /\ starts' = [starts EXCEPT ![id] = 0]
        /\ ledger' = [ledger EXCEPT ![id] = @ + 1]
        /\ frames' = Append(frames, Emitting("insert", id))
  BY DEF Insert
<1>2. UNCHANGED connVars
  BY DEF Insert
<1>3. id \notin Sockets /\ nextId' \in 0 .. IdMask
  BY <1>1, NextIdFresh DEF IInv
<1> DEFINE f == Emitting("insert", id)
<1>4. f \in Frame /\ f.fn = "insert" /\ f.id = id
  BY EmittingType
<1>5. /\ frames' \in Seq(Frame)
      /\ DOMAIN frames' = DOMAIN frames \cup {Len(frames) + 1}
      /\ Len(frames) + 1 \notin DOMAIN frames
      /\ \A n \in DOMAIN frames : frames'[n] = frames[n] /\ n < Len(frames) + 1
      /\ frames'[Len(frames) + 1] = f
  <2>1. frames \in Seq(Frame)
    BY DEF IInv, TypeOK
  <2> QED
    BY <2>1, <1>1, <1>4, AppendFacts
<1> HIDE DEF f
<1>6. k # None
  BY KindsAreKinds
<1>7. p \in Ids \cup {0}
  BY DEF Sockets
<1>8. TypeOK'
  BY <1>1, <1>2, <1>3, <1>5, <1>7 DEF IInv, TypeOK, connVars
<1>9. /\ Sockets' = Sockets \cup {id}
      /\ \A i \in Ids : i # id => kind'[i] = kind[i] /\ parent'[i] = parent[i]
      /\ kind'[id] = k /\ parent'[id] = p
  BY <1>1, <1>6 DEF IInv, TypeOK, Sockets
<1>10. \A i \in Ids : BeingRemoved(i)' <=> BeingRemoved(i)
  BY <1>4, <1>5 DEF BeingRemoved
<1>11. SignalsMatchTable'
  BY <1>1, <1>2, <1>3, <1>9, <1>10 DEF IInv, TypeOK, SignalsMatchTable, connVars
<1>12. BeingAnnounced(id)' /\ \A i \in Ids : BeingAnnounced(i) => BeingAnnounced(i)'
  BY <1>4, <1>5 DEF BeingAnnounced
<1>13. StartedOnce'
  <2> SUFFICES ASSUME NEW i \in Sockets'
               PROVE  /\ starts'[i] \in {0, 1}
                      /\ starts'[i] = 1 => HasStart(kind'[i]) /\ state' # "STARTING"
                      /\ state' = "STARTED" /\ HasStart(kind'[i])
                             /\ ~BeingAnnounced(i)' => starts'[i] = 1
    BY DEF StartedOnce
  <2>1. CASE i = id
    BY <2>1, <1>1, <1>12 DEF IInv, TypeOK
  <2>2. CASE i # id
    <3>1. i \in Sockets /\ i \in Ids
      BY <2>2, <1>9 DEF Sockets
    <3>2. starts'[i] = starts[i] /\ kind'[i] = kind[i] /\ state' = state
      BY <2>2, <3>1, <1>1, <1>2 DEF IInv, TypeOK, connVars
    <3> QED
      BY <3>1, <3>2, <1>12 DEF IInv, StartedOnce
  <2> QED
    BY <2>1, <2>2
<1>14. AnnouncedOnce'
  BY <1>1, <1>3, <1>4, <1>5, <1>9 DEF IInv, TypeOK, AnnouncedOnce
<1>15. Owned'
  <2> SUFFICES ASSUME NEW c \in Sockets', parent'[c] # 0
               PROVE  /\ parent'[c] \in Sockets'
                      /\ ConnectionKind(kind'[parent'[c]]) = kind'[c]
    BY DEF Owned
  <2>1. CASE c = id
    <3>1. p \in Sockets /\ ConnectionKind(kind[p]) = k /\ p # id /\ p \in Ids
      BY <2>1, <1>3, <1>9 DEF Sockets
    <3> QED
      BY <2>1, <3>1, <1>9
  <2>2. CASE c # id
    <3>1. c \in Sockets /\ c \in Ids /\ parent'[c] = parent[c] /\ kind'[c] = kind[c]
      BY <2>2, <1>9 DEF Sockets
    <3>2. parent[c] \in Sockets /\ ConnectionKind(kind[parent[c]]) = kind[c]
      BY <3>1 DEF IInv, Owned
    <3>3. parent[c] \in Ids /\ parent[c] # id
      BY <3>2, <1>3 DEF Sockets
    <3> QED
      BY <3>1, <3>2, <3>3, <1>9
  <2> QED
    BY <2>1, <2>2
<1>16. RemovedOnce'
  <2>1. CASE p = 0
    <3>1. \A c \in Sockets' : parent'[c] = 0 \/ (c \in Sockets /\ parent'[c] = parent[c])
      BY <2>1, <1>9 DEF Sockets
    <3>2. \A n \in DOMAIN frames : 0 \notin frames[n].rest \cup {frames[n].id}
      BY FramesTyped DEF IInv
    <3> QED
      BY <1>4, <1>5, <3>1, <3>2 DEF IInv, RemovedOnce
  <2>2. CASE frames = <<>>
    BY <2>2, <1>4, <1>5 DEF RemovedOnce
  <2> QED
    BY <2>1, <2>2
<1>17. CloseOutermost'
  BY <1>4, <1>5 DEF IInv, CloseOutermost
<1>18. Watched'
  BY <1>2 DEF IInv, Watched, connVars
<1> QED
  BY <1>8, <1>11, <1>13, <1>14, <1>15, <1>16, <1>17, <1>18 DEF IInv

LEMMA FinishInsertStep ==
    ASSUME IInv, FinishInsert
    PROVE  IInv'
<1> DEFINE top == frames[Len(frames)].id
<1>1. /\ frames # <<>> /\ frames[Len(frames)].fn = "insert"
      /\ starts' = IF state = "STARTED" /\ HasStart(kind[top])
                   THEN [starts EXCEPT ![top] = @ + 1] ELSE starts
      /\ UNCHANGED <<rpc, state, watching, infoCall, alive, nextId, kind, parent, ledger>>
      /\ frames' = Popped
  BY DEF FinishInsert, Returning, Top, connVars
<1>2. /\ frames' \in Seq(Frame)
      /\ DOMAIN frames' = DOMAIN frames \ {Len(frames)}
      /\ Len(frames) \in DOMAIN frames
      /\ \A n \in DOMAIN frames' : frames'[n] = frames[n]
  BY <1>1, PopFacts DEF IInv
<1>3. top \in Sockets /\ top \in Ids /\ starts[top] = 0
  BY <1>1, <1>2 DEF IInv, AnnouncedOnce, Sockets
<1>4. TypeOK'
  BY <1>1, <1>2, <1>3 DEF IInv, TypeOK
<1>5. Sockets' = Sockets /\ Owned'
  BY <1>1, SameTable DEF IInv
<1>6. \A i \in Ids : BeingRemoved(i)' <=> BeingRemoved(i)
  BY <1>1, <1>2 DEF BeingRemoved
<1>7. SignalsMatchTable'
  BY <1>1, <1>5, <1>6 DEF IInv, SignalsMatchTable
<1>8. \A i \in Ids : i # top /\ BeingAnnounced(i) => BeingAnnounced(i)'
  BY <1>2 DEF BeingAnnounced
<1>9. StartedOnce'
  BY <1>1, <1>3, <1>5, <1>8 DEF IInv, TypeOK, StartedOnce, Sockets
<1>10. \A n \in DOMAIN frames' :
          frames'[n].fn = "insert" => frames'[n].id # top
  BY <1>1, <1>2 DEF IInv, AnnouncedOnce
<1>11. AnnouncedOnce'
  BY <1>1, <1>2, <1>3, <1>5, <1>10 DEF IInv, TypeOK, AnnouncedOnce, Sockets
<1>12. CloseOutermost'
  BY <1>2 DEF IInv, CloseOutermost
<1>13. RemovedOnce'
  BY <1>1, <1>2, <1>5 DEF IInv, RemovedOnce
<1>14. Watched'
  BY <1>1 DEF IInv, Watched
<1> QED
  BY <1>4, <1>5, <1>7, <1>9, <1>11, <1>12, <1>13, <1>14 DEF IInv

\* Removing an entry that nothing announced depends on.  The functions of
\* "stack" are those suspended, save for a CLOSE request that begins or ends.
LEMMA RemoveStep ==
    ASSUME IInv, NEW id \in Sockets, ~InUse(id),
           NEW stack \in Seq(Frame), Remove(id, stack), UNCHANGED <<connVars, nextId>>,
           \A n \in DOMAIN stack : \/ n \in DOMAIN frames /\ stack[n] = frames[n]
                                   \/ n = 1 /\ stack[n].fn = "close",
           \A n \in DOMAIN frames : frames[n].fn # "close"
                                       => n \in DOMAIN stack /\ stack[n] = frames[n]
    PROVE  IInv'
<1>1. id \in Ids /\ TakeOut(id) /\ TypeOK /\ Owned
  BY DEF Remove, Sockets, IInv
<1>2. /\ kind' \in [Ids -> Kinds \cup {None}]
      /\ parent' \in [Ids -> Ids \cup {0}]
      /\ starts' \in [Ids -> Nat]
      /\ \A i \in Ids : i # id => kind'[i] = kind[i] /\ starts'[i] = starts[i]
      /\ Sockets' = Sockets \ {id}
      /\ \A i \in Ids : parent'[i] # id /\ parent'[i] \in {0, parent[i]}
      /\ Owned'
  BY <1>1, TakeOutFacts
<1>3. UNCHANGED <<rpc, state, watching, infoCall, alive, nextId>>
  BY DEF connVars
<1>4. Watched'
  BY <1>3 DEF IInv, Watched
<1>5. \A n \in DOMAIN frames : frames[n].fn = "insert" =>
          frames[n].id # id /\ frames[n].id \notin Children(id)
  BY DEF InUse, BeingAnnounced
<1>6. \A n \in DOMAIN frames : /\ frames[n].id \in Ids
                               /\ frames[n].rest \subseteq Ids
                               /\ 0 \notin frames[n].rest \cup {frames[n].id}
  BY FramesTyped DEF IInv
<1>7. Sockets' \subseteq Sockets /\ Sockets \subseteq Ids
  BY <1>2 DEF Sockets
<1>8. \A c \in Sockets', n \in DOMAIN frames :
           frames[n].fn = "remove" => parent'[c] \notin frames[n].rest \cup {frames[n].id}
  BY <1>2, <1>6, <1>7 DEF IInv, RemovedOnce
<1>9. \A n \in DOMAIN frames : frames[n].fn = "insert" =>
           /\ frames[n].id \in Sockets' /\ starts'[frames[n].id] = 0
           /\ \A m \in DOMAIN frames :
                  frames[m].fn = "insert" /\ frames[m].id = frames[n].id => m = n
  BY <1>2, <1>5, <1>6 DEF IInv, AnnouncedOnce
<1>10. CASE Children(id) = {}
  <2>1. frames' = stack /\ ledger' = [ledger EXCEPT ![id] = @ - 1]
    BY <1>10 DEF Remove, SignalRemoved
  <2>2. TypeOK'
    <3>1. ledger' \in [Ids -> Int] /\ frames' \in Seq(Frame)
      BY <1>1, <2>1 DEF TypeOK
    <3> QED
      BY <1>2, <1>3, <3>1 DEF IInv, TypeOK
  <2>3. \A i \in Ids : /\ BeingRemoved(i)' <=> BeingRemoved(i)
                       /\ BeingAnnounced(i)' <=> BeingAnnounced(i)
    BY <2>1 DEF BeingRemoved, BeingAnnounced
  <2>4. SignalsMatchTable'
    BY <1>1, <1>2, <1>3, <2>1, <2>3 DEF IInv, TypeOK, SignalsMatchTable
  <2>5. StartedOnce'
    BY <1>2, <1>3, <2>3 DEF IInv, StartedOnce, Sockets
  <2>6. AnnouncedOnce'
    BY <1>9, <2>1 DEF AnnouncedOnce
  <2>7. RemovedOnce'
    BY <1>6, <1>8, <2>1 DEF IInv, RemovedOnce
  <2>8. CloseOutermost'
    BY <2>1 DEF IInv, CloseOutermost
  <2> QED
    BY <1>2, <1>4, <2>2, <2>4, <2>5, <2>6, <2>7, <2>8 DEF IInv
<1>11. CASE Children(id) # {}
  <2> DEFINE f == Removing(id, Children(id), FALSE)
  <2>1. frames' = Append(stack, f) /\ ledger' = ledger
    BY <1>11 DEF Remove
  <2>2. f \in Frame /\ f.fn = "remove" /\ f.id = id /\ f.rest = Children(id)
    <3>1. Children(id) \in SUBSET Ids
      BY DEF Children, Sockets
    <3> QED
      BY <1>1, <3>1 DEF Removing, Frame
  <2> HIDE DEF f
  <2> DEFINE last == Len(stack) + 1
  <2>3. /\ frames' \in Seq(Frame)
        /\ DOMAIN frames' = DOMAIN stack \cup {last}
        /\ last \notin DOMAIN stack
        /\ \A n \in DOMAIN stack : frames'[n] = stack[n] /\ n < last
        /\ frames'[last] = f
    BY <2>1, <2>2, AppendFacts
  <2> HIDE DEF last
  <2>4. TypeOK'
    BY <1>2, <1>3, <2>1, <2>3 DEF IInv, TypeOK
  <2>5. /\ \A i \in Ids : i # id => (BeingRemoved(i)' <=> BeingRemoved(i))
        /\ BeingRemoved(id)'
    BY <2>2, <2>3 DEF BeingRemoved
  <2>6. ~BeingRemoved(id)
    BY <1>11 DEF BeingRemoved, IInv, RemovedOnce, Children
  <2>7. \A i \in Ids : BeingAnnounced(i)' <=> BeingAnnounced(i)
    BY <2>2, <2>3 DEF BeingAnnounced
  <2>8. SignalsMatchTable'
    BY <1>1, <1>2, <1>3, <2>1, <2>5, <2>6 DEF IInv, TypeOK, SignalsMatchTable
  <2>9. StartedOnce'
    BY <1>2, <1>3, <2>7 DEF IInv, StartedOnce, Sockets
  <2>10. \A n \in DOMAIN stack : \/ n \in DOMAIN frames /\ frames'[n] = frames[n]
                                 \/ frames'[n].fn = "close"
    BY <2>3
  <2>11. AnnouncedOnce'
    BY <1>9, <2>2, <2>3, <2>10 DEF AnnouncedOnce
  <2>12. RemovedOnce'
    <3> SUFFICES ASSUME NEW n \in DOMAIN frames', frames'[n].fn = "remove"
                 PROVE
            /\ \A c \in Sockets' : parent'[c] \notin frames'[n].rest \cup {frames'[n].id}
            /\ \A m \in DOMAIN frames' :
                   /\ frames'[m].fn = "remove" /\ frames'[m].id = frames'[n].id => m = n
                   /\ m < n /\ frames'[m].fn = "insert" => frames'[m].id \notin frames'[n].rest
      BY DEF RemovedOnce
    <3>1. CASE n = last
      <4>1. \A c \in Sockets' : parent'[c] # id /\ parent'[c] \notin Children(id)
        <5> SUFFICES ASSUME NEW c \in Sockets', parent'[c] \in Children(id) PROVE FALSE
          BY <1>2, <1>7
        <5>1. c \in Sockets /\ parent'[c] \in {0, parent[c]} /\ parent'[c] # 0
          BY <1>2, <1>7 DEF Children, Sockets, Ids
        <5> QED
          BY <1>1, <5>1, ChildrenOfChildren
      <4>2. \A m \in DOMAIN stack : frames'[m].fn = "remove" => frames'[m].id # id
        BY <2>6, <2>10 DEF BeingRemoved
      <4>3. \A m \in DOMAIN stack : frames'[m].fn = "insert" => frames'[m].id \notin Children(id)
        BY <1>5, <2>10
      <4> QED
        BY <3>1, <2>2, <2>3, <4>1, <4>2, <4>3
    <3>2. CASE n \in DOMAIN stack
      <4>1. n \in DOMAIN frames /\ frames'[n] = frames[n]
        BY <2>10, <3>2
      <4>2. frames[n].id # id
        BY <2>6, <4>1 DEF BeingRemoved
      <4> QED
        BY <3>2, <1>8, <2>2, <2>3, <2>10, <4>1, <4>2 DEF IInv, RemovedOnce
    <3> QED
      BY <2>3, <3>1, <3>2
  <2>13. CloseOutermost'
    BY <2>2, <2>3 DEF IInv, CloseOutermost
  <2> QED
    BY <1>2, <1>4, <2>4, <2>8, <2>9, <2>11, <2>12, <2>13 DEF IInv
<1> QED
  BY <1>10, <1>11

LEMMA RemoveConnectionStep ==
    ASSUME IInv, NEW c \in Ids, RemoveConnection(c)
    PROVE  IInv'
<1> DEFINE last == Len(frames)
           f == Removing(Top.id, Top.rest \ {c}, c \in Sockets)
<1>1. /\ frames # <<>> /\ Top.fn = "remove" /\ c \in Top.rest
      /\ frames' = Append(Popped, f)
      /\ UNCHANGED <<rpc, state, watching, infoCall, alive, nextId>>
  BY DEF RemoveConnection, Returning, connVars
<1>2. /\ Popped \in Seq(Frame)
      /\ Len(Popped) = Len(frames) - 1
      /\ DOMAIN Popped = DOMAIN frames \ {last}
      /\ last \in DOMAIN frames
      /\ Top \in Frame
      /\ \A n \in DOMAIN Popped : Popped[n] = frames[n] /\ n < last
  BY <1>1, PopFacts DEF IInv
<1>3. f \in Frame /\ f.fn = "remove" /\ f.id = Top.id /\ f.rest = Top.rest \ {c}
  <2>1. Top.id \in Ids /\ Top.rest \in SUBSET Ids
    BY <1>2, FramesTyped DEF IInv, Top
  <2>2. Top.rest \ {c} \in SUBSET Ids /\ (c \in Sockets) \in BOOLEAN
    BY <2>1
  <2> QED
    BY <2>1, <2>2 DEF Removing, Frame
<1>4. Len(Popped) + 1 = last
  BY <1>2 DEF IInv, TypeOK
<1> HIDE DEF f
<1>5. /\ frames' \in Seq(Frame)
      /\ DOMAIN frames' = DOMAIN frames
      /\ \A n \in DOMAIN frames : n # last => frames'[n] = frames[n] /\ n < last
      /\ frames'[last] = f /\ frames[last] = Top
  <2>1. /\ frames' \in Seq(Frame)
        /\ DOMAIN frames' = DOMAIN Popped \cup {Len(Popped) + 1}
        /\ \A n \in DOMAIN Popped : frames'[n] = Popped[n]
        /\ frames'[Len(Popped) + 1] = f
    BY <1>1, <1>2, <1>3, AppendFacts
  <2> QED
    BY <1>2, <1>4, <2>1 DEF Top
<1> HIDE DEF last
<1>6. \A n \in DOMAIN frames : /\ frames'[n].fn = frames[n].fn
                               /\ frames'[n].id = frames[n].id
                               /\ frames'[n].rest \subseteq frames[n].rest
  BY <1>1, <1>3, <1>5
<1>7. \A i \in Ids : /\ BeingRemoved(i)' <=> BeingRemoved(i)
                     /\ BeingAnnounced(i)' <=> BeingAnnounced(i)
  BY <1>5, <1>6 DEF BeingRemoved, BeingAnnounced
<1>8. Watched' /\ CloseOutermost'
  BY <1>1, <1>5, <1>6 DEF IInv, Watched, CloseOutermost
<1>9. \A n \in DOMAIN frames : /\ frames[n].id \in Ids
                               /\ 0 \notin frames[n].rest \cup {frames[n].id}
  BY FramesTyped DEF IInv
<1>10. CASE c \in Sockets
  <2>1. TakeOut(c) /\ ledger' = [ledger EXCEPT ![c] = @ - 1]
    BY <1>10 DEF RemoveConnection, SignalRemoved
  <2>2. /\ kind' \in [Ids -> Kinds \cup {None}]
        /\ parent' \in [Ids -> Ids \cup {0}]
        /\ starts' \in [Ids -> Nat]
        /\ \A i \in Ids : i # c => kind'[i] = kind[i] /\ starts'[i] = starts[i]
        /\ Sockets' = Sockets \ {c}
        /\ \A i \in Ids : parent'[i] # c /\ parent'[i] \in {0, parent[i]}
        /\ Owned'
    BY <2>1, TakeOutFacts DEF IInv
  <2>3. \A n \in DOMAIN frames : frames[n].fn = "insert" => frames[n].id # c
    BY <1>1, <1>2, <1>5 DEF IInv, RemovedOnce
  <2>4. TypeOK'
    <3>1. ledger' \in [Ids -> Int]
      BY <2>1 DEF IInv, TypeOK
    <3> QED
      BY <1>1, <1>5, <2>2, <3>1 DEF IInv, TypeOK
  <2>5. SignalsMatchTable'
    BY <1>1, <1>7, <1>10, <2>1, <2>2 DEF IInv, TypeOK, SignalsMatchTable
  <2>6. StartedOnce'
    BY <1>1, <1>7, <2>2 DEF IInv, StartedOnce, Sockets
  <2>7. AnnouncedOnce'
    BY <1>5, <1>6, <1>9, <2>2, <2>3 DEF IInv, AnnouncedOnce
  <2>8. RemovedOnce'
    <3>1. \A d \in Sockets' : d \in Sockets /\ parent'[d] \in {0, parent[d]}
      BY <2>2 DEF Sockets
    <3>2. \A d \in Sockets', n \in DOMAIN frames : frames[n].fn = "remove"
              => parent'[d] \notin frames[n].rest \cup {frames[n].id}
      BY <1>9, <3>1 DEF IInv, RemovedOnce
    <3> QED
      BY <1>5, <1>6, <3>2 DEF IInv, RemovedOnce
  <2> QED
    BY <1>8, <2>2, <2>4, <2>5, <2>6, <2>7, <2>8 DEF IInv
<1>11. CASE c \notin Sockets
  <2>1. UNCHANGED <<kind, parent, starts, ledger>>
    BY <1>11 DEF RemoveConnection
  <2>2. Sockets' = Sockets /\ Owned'
    BY <2>1, SameTable DEF IInv
  <2>3. TypeOK' /\ SignalsMatchTable' /\ StartedOnce'
    BY <1>1, <1>5, <1>7, <2>1, <2>2
    DEF IInv, TypeOK, SignalsMatchTable, StartedOnce, Sockets
  <2>4. AnnouncedOnce' /\ RemovedOnce'
    BY <1>5, <1>6, <2>1, <2>2 DEF IInv, AnnouncedOnce, RemovedOnce
  <2> QED
    BY <1>8, <2>2, <2>3, <2>4 DEF IInv
<1> QED
  BY <1>10, <1>11

LEMMA FinishRemoveStep ==
    ASSUME IInv, FinishRemove
    PROVE  IInv'
<1>1. PICK top \in Ids : top = frames[Len(frames)].id
  BY PopFacts, FramesTyped DEF IInv, FinishRemove, Returning
<1>2. /\ frames # <<>> /\ frames[Len(frames)].fn = "remove"
      /\ ledger' = [ledger EXCEPT ![top] = @ - 1]
      /\ UNCHANGED <<rpc, state, watching, infoCall, alive, nextId, kind, parent, starts>>
      /\ frames' = Popped
  BY <1>1 DEF FinishRemove, SignalRemoved, Returning, Top, connVars
<1>3. /\ frames' \in Seq(Frame)
      /\ DOMAIN frames' = DOMAIN frames \ {Len(frames)}
      /\ Len(frames) \in DOMAIN frames
      /\ \A n \in DOMAIN frames' : frames'[n] = frames[n]
  BY <1>2, PopFacts DEF IInv
<1>4. TypeOK'
  BY <1>2, <1>3 DEF IInv, TypeOK
<1>5. Sockets' = Sockets /\ Owned'
  BY <1>2, SameTable DEF IInv
<1>6. \A n \in DOMAIN frames' :
          frames'[n].fn = "remove" => frames'[n].id # top
  BY <1>2, <1>3, <1>1 DEF IInv, RemovedOnce
<1>7. /\ BeingRemoved(top) /\ ~BeingRemoved(top)'
      /\ \A i \in Ids : i # top => (BeingRemoved(i)' <=> BeingRemoved(i))
      /\ \A i \in Ids : BeingAnnounced(i)' <=> BeingAnnounced(i)
  <2>1. BeingRemoved(top) /\ ~BeingRemoved(top)'
    BY <1>2, <1>3, <1>6, <1>1 DEF BeingRemoved
  <2>2. ASSUME NEW i \in Ids, i # top PROVE BeingRemoved(i)' <=> BeingRemoved(i)
    BY <1>3, <1>1, <2>2 DEF BeingRemoved
  <2>3. ASSUME NEW i \in Ids PROVE BeingAnnounced(i)' <=> BeingAnnounced(i)
    BY <1>2, <1>3 DEF BeingAnnounced
  <2> QED
    BY <2>1, <2>2, <2>3
<1>8. SignalsMatchTable'
  BY <1>2, <1>5, <1>7 DEF IInv, TypeOK, SignalsMatchTable
<1>9. StartedOnce'
  BY <1>2, <1>5, <1>7 DEF IInv, StartedOnce, Sockets
<1>10. AnnouncedOnce' /\ RemovedOnce' /\ CloseOutermost'
  BY <1>2, <1>3, <1>5 DEF IInv, AnnouncedOnce, RemovedOnce, CloseOutermost
<1>11. Watched'
  BY <1>2 DEF IInv, Watched
<1> QED
  BY <1>4, <1>5, <1>8, <1>9, <1>10, <1>11 DEF IInv

LEMMA NothingInUse ==
    ASSUME \A n \in DOMAIN frames : frames[n].fn # "insert"
    PROVE  \A id : ~InUse(id)
  BY DEF InUse, BeingAnnounced

LEMMA RemovalSteps ==
    ASSUME IInv, NEW id \in Ids, RemoveForwarder(id) \/ EntryRemove(id)
    PROVE  IInv'
<1>1. id \in Sockets /\ Remove(id, frames) /\ UNCHANGED <<connVars, nextId>>
  BY DEF RemoveForwarder, EntryRemove
<1>2. ~InUse(id)
  BY NothingInUse DEF RemoveForwarder, EntryRemove, Idle
<1>3. PICK stack \in Seq(Frame) : stack = frames
  BY DEF IInv, TypeOK
<1>4. Remove(id, stack)
  BY <1>1, <1>3
<1> QED
  BY <1>1, <1>2, <1>3, <1>4, RemoveStep

LEMMA HandleSocketCloseStep ==
    ASSUME IInv, NEW id \in Ids, NEW b \in BOOLEAN, HandleSocketClose(id, b)
    PROVE  IInv'
<1> DEFINE stack == IF b THEN <<Emitting("close", id)>> ELSE <<>>
<1>1. frames = <<>> /\ id \in Sockets /\ Remove(id, stack) /\ UNCHANGED <<connVars, nextId>>
  BY DEF HandleSocketClose, Idle
<1>2. Emitting("close", id) \in Frame /\ Emitting("close", id).fn = "close"
  BY EmittingType
<1>3. stack \in Seq(Frame) /\ \A n \in DOMAIN stack : n = 1 /\ stack[n].fn = "close"
  BY <1>1, <1>2
<1>4. ~InUse(id)
  BY <1>1, NothingInUse
<1> HIDE DEF stack
<1> QED
  BY <1>1, <1>3, <1>4, RemoveStep

LEMMA FinishCloseStep ==
    ASSUME IInv, FinishClose
    PROVE  IInv'
<1>1. frames # <<>> /\ Top.fn = "close" /\ UNCHANGED <<connVars, nextId>>
  BY DEF FinishClose, Returning
<1>2. /\ Popped \in Seq(Frame)
      /\ DOMAIN Popped = DOMAIN frames \ {Len(frames)}
      /\ Len(frames) \in DOMAIN frames
  BY <1>1, PopFacts DEF IInv
<1>3. Len(frames) = 1
  BY <1>1, <1>2 DEF IInv, CloseOutermost, Top
<1>4. DOMAIN frames = {1} /\ DOMAIN Popped = {} /\ frames[1].fn = "close"
  BY <1>1, <1>2, <1>3 DEF IInv, TypeOK, Top
<1>5. \A i : ~InUse(i) /\ ~BeingAnnounced(i) /\ ~BeingRemoved(i)
  BY <1>4, NothingInUse DEF BeingAnnounced, BeingRemoved
<1>6. CASE Top.id \in Sockets
  <2>1. PICK id \in Sockets, stack \in Seq(Frame) : id = Top.id /\ stack = Popped
    BY <1>2, <1>6
  <2>2. Remove(id, stack)
    BY <1>6, <2>1 DEF FinishClose
  <2>3. DOMAIN stack = {} /\ ~InUse(id)
    BY <1>4, <1>5, <2>1
  <2> QED
    BY <1>1, <1>4, <2>2, <2>3, RemoveStep
<1>7. CASE Top.id \notin Sockets
  <2>1. /\ UNCHANGED <<rpc, state, watching, infoCall, alive, nextId>>
        /\ UNCHANGED <<kind, parent, starts, ledger>>
        /\ frames' = Popped
    BY <1>1, <1>7 DEF FinishClose, connVars
  <2>2. Sockets' = Sockets /\ Owned'
    BY <2>1, SameTable DEF IInv
  <2>3. \A i : ~BeingAnnounced(i)' /\ ~BeingRemoved(i)'
    BY <1>4, <2>1 DEF BeingAnnounced, BeingRemoved
  <2>4. TypeOK' /\ SignalsMatchTable' /\ StartedOnce'
    BY <1>2, <1>5, <2>1, <2>2, <2>3
    DEF IInv, TypeOK, SignalsMatchTable, StartedOnce, Sockets
  <2>5. AnnouncedOnce' /\ RemovedOnce' /\ CloseOutermost'
    BY <1>4, <2>1 DEF AnnouncedOnce, RemovedOnce, CloseOutermost
  <2>6. Watched'
    BY <2>1 DEF IInv, Watched
  <2> QED
    BY <2>2, <2>4, <2>5, <2>6 DEF IInv
<1> QED
  BY <1>6, <1>7

\* fwd_peer_set_state runs in the main loop, when nothing is being announced.
LEMMA SetStateFacts ==
    ASSUME IInv, frames = <<>>, NEW s \in {"STARTED", "STOPPED"}, SetState(s),
           UNCHANGED <<nextId, kind, parent, ledger, frames>>
    PROVE  /\ state' \in {"STARTING", "STARTED", "STOPPED"}
           /\ starts' \in [Ids -> Nat]
           /\ state = "STOPPED" => state' = "STOPPED" /\ starts' = starts
           /\ s = "STOPPED" => state' = "STOPPED"
           /\ StartedOnce'
           /\ AnnouncedOnce' /\ RemovedOnce' /\ CloseOutermost' /\ Owned'
<1>1. \A i \in Ids : ~BeingAnnounced(i)
  BY DEF BeingAnnounced
<1>2. AnnouncedOnce' /\ RemovedOnce' /\ CloseOutermost' /\ Owned'
  BY SameTable DEF AnnouncedOnce, RemovedOnce, CloseOutermost, IInv
<1>3. Sockets' = Sockets
  BY DEF Sockets
<1>4. CASE Rank(s) > Rank(state) /\ s = "STARTED"
  <2>1. state = "STARTING"
    BY <1>4 DEF IInv, TypeOK, Rank
  <2>2. \A i \in Sockets : starts[i] = 0
    BY <2>1 DEF IInv, StartedOnce
  <2>3. /\ state' = "STARTED"
        /\ starts' = [i \in Ids |-> IF i \in Sockets /\ HasStart(kind[i])
                                    THEN starts[i] + 1 ELSE starts[i]]
    BY <1>4 DEF SetState
  <2>4. starts' \in [Ids -> Nat]
    BY <2>3 DEF IInv, TypeOK
  <2>5. StartedOnce'
    BY <1>1, <1>3, <2>2, <2>3 DEF IInv, TypeOK, StartedOnce, Sockets
  <2> QED
    BY <1>2, <1>4, <2>1, <2>3, <2>4, <2>5
<1>5. CASE Rank(s) > Rank(state) /\ s = "STOPPED"
  <2>1. state' = "STOPPED" /\ starts' = starts /\ state # "STOPPED"
    BY <1>5 DEF SetState, Rank, IInv, TypeOK
  <2>2. StartedOnce'
    BY <1>3, <2>1 DEF IInv, StartedOnce
  <2> QED
    BY <1>2, <2>1, <2>2 DEF IInv, TypeOK
<1>6. CASE ~(Rank(s) > Rank(state))
  <2>1. UNCHANGED <<state, starts>> /\ (s = "STOPPED" => state = "STOPPED")
    BY <1>6 DEF SetState, Rank, IInv, TypeOK
  <2>2. StartedOnce'
    BY <1>1, <1>3, <2>1 DEF IInv, StartedOnce, Sockets
  <2> QED
    BY <1>2, <2>1, <2>2 DEF IInv, TypeOK
<1> QED
  BY <1>4, <1>5, <1>6

LEMMA InfoDoneStep ==
    ASSUME IInv, NEW ok \in BOOLEAN, InfoDone(ok)
    PROVE  /\ IInv'
           /\ state = "STOPPED" => state' = "STOPPED" /\ starts' = starts
<1>1. /\ frames = <<>> /\ infoCall' = FALSE
      /\ UNCHANGED <<rpc, watching, alive, nextId, kind, parent, ledger, frames>>
  BY DEF InfoDone
<1>2. SignalsMatchTable'
  BY <1>1 DEF IInv, SignalsMatchTable, Sockets, BeingRemoved
<1>3. CASE alive
  <2> DEFINE s == IF ok THEN "STARTED" ELSE "STOPPED"
  <2>1. s \in {"STARTED", "STOPPED"} /\ SetState(s)
    BY <1>3 DEF InfoDone
  <2>2. /\ state' \in {"STARTING", "STARTED", "STOPPED"}
        /\ starts' \in [Ids -> Nat]
        /\ state = "STOPPED" => state' = "STOPPED" /\ starts' = starts
        /\ StartedOnce'
        /\ AnnouncedOnce' /\ RemovedOnce' /\ CloseOutermost' /\ Owned'
    <3> HIDE DEF s
    <3> QED
      BY <1>1, <2>1, SetStateFacts
  <2>3. TypeOK'
    BY <1>1, <2>2 DEF IInv, TypeOK
  <2>4. Watched'
    BY <1>1, <2>2 DEF IInv, Watched
  <2> QED
    BY <1>2, <2>2, <2>3, <2>4 DEF IInv
<1>4. CASE ~alive
  <2>1. UNCHANGED <<state, starts>>
    BY <1>4 DEF InfoDone
  <2>2. AnnouncedOnce' /\ RemovedOnce' /\ CloseOutermost' /\ Owned'
    BY <1>1, SameTable DEF IInv, AnnouncedOnce, RemovedOnce, CloseOutermost
  <2> QED
    BY <1>1, <1>2, <2>1, <2>2 DEF IInv, TypeOK, StartedOnce, Watched, Sockets,
       BeingAnnounced
<1> QED
  BY <1>3, <1>4

LEMMA HandlePeerStateStep ==
    ASSUME IInv, NEW s \in {"STARTED", "STOPPING", "STOPPED"}, HandlePeerState(s)
    PROVE  /\ IInv'
           /\ state = "STOPPED" => state' = "STOPPED" /\ starts' = starts
<1>1. /\ frames = <<>> /\ rpc' = s /\ infoCall' \in BOOLEAN
      /\ UNCHANGED <<alive, nextId, kind, parent, ledger, frames>>
  BY DEF HandlePeerState, IInv, TypeOK
<1>2. SignalsMatchTable'
  BY <1>1 DEF IInv, SignalsMatchTable, Sockets, BeingRemoved
<1>3. CASE watching /\ s \in {"STOPPING", "STOPPED"}
  <2>1. SetState("STOPPED") /\ watching' = FALSE
    BY <1>3 DEF HandlePeerState
  <2>2. /\ state' = "STOPPED"
        /\ starts' \in [Ids -> Nat]
        /\ state = "STOPPED" => starts' = starts
        /\ StartedOnce'
        /\ AnnouncedOnce' /\ RemovedOnce' /\ CloseOutermost' /\ Owned'
    BY <1>1, <2>1, SetStateFacts
  <2>3. TypeOK' /\ Watched'
    BY <1>1, <2>1, <2>2 DEF IInv, TypeOK, Watched
  <2> QED
    BY <1>2, <2>2, <2>3 DEF IInv
<1>4. CASE ~(watching /\ s \in {"STOPPING", "STOPPED"})
  <2>1. UNCHANGED <<state, starts, watching>>
    BY <1>4 DEF HandlePeerState
  <2>2. AnnouncedOnce' /\ RemovedOnce' /\ CloseOutermost' /\ Owned'
    BY <1>1, SameTable DEF IInv, AnnouncedOnce, RemovedOnce, CloseOutermost
  <2>3. TypeOK' /\ StartedOnce'
    BY <1>1, <2>1 DEF IInv, TypeOK, StartedOnce, Sockets, BeingAnnounced
  <2>4. Watched'
    BY <1>1, <1>4, <2>1 DEF IInv, Watched
  <2> QED
    BY <1>2, <2>1, <2>2, <2>3, <2>4 DEF IInv
<1> QED
  BY <1>3, <1>4

LEMMA UnrefStep ==
    ASSUME IInv, Unref
    PROVE  IInv'
<1>1. /\ frames = <<>> /\ alive' = FALSE /\ watching' = FALSE
      /\ kind' = [i \in Ids |-> None]
      /\ parent' = [i \in Ids |-> 0]
      /\ starts' = [i \in Ids |-> 0]
      /\ UNCHANGED <<rpc, state, infoCall, nextId, ledger, frames>>
  BY DEF Unref, Idle
<1>2. Sockets' = {}
  BY <1>1 DEF Sockets
<1>3. TypeOK'
  BY <1>1 DEF IInv, TypeOK
<1>4. SignalsMatchTable' /\ StartedOnce'
  BY <1>1, <1>2 DEF SignalsMatchTable, StartedOnce
<1>5. AnnouncedOnce' /\ RemovedOnce' /\ CloseOutermost' /\ Owned'
  BY <1>1, <1>2 DEF AnnouncedOnce, RemovedOnce, CloseOutermost, Owned
<1>6. Watched'
  BY <1>1 DEF IInv, Watched
<1> QED
  BY <1>3, <1>4, <1>5, <1>6 DEF IInv

\* An id taken by another peer of the process.
LEMMA NextIdElsewhereStep ==
    ASSUME IInv, NextIdElsewhere
    PROVE  IInv'
<1>1. nextId' \in 0 .. IdMask
  BY AdvanceType DEF NextIdElsewhere, IInv, TypeOK
<1>2. UNCHANGED <<kind, parent>> /\ UNCHANGED <<connVars, starts, ledger, frames>>
  BY DEF NextIdElsewhere
<1> QED
  BY <1>1, <1>2, SameTable DEF connVars, IInv, TypeOK, SignalsMatchTable, StartedOnce,
     AnnouncedOnce, RemovedOnce, CloseOutermost, Watched, BeingAnnounced, BeingRemoved

LEMMA StutterStep ==
    ASSUME IInv, UNCHANGED vars
    PROVE  IInv'
<1>1. UNCHANGED <<kind, parent>> /\ UNCHANGED <<connVars, nextId, starts, ledger, frames>>
  BY DEF vars, tableVars
<1> QED
  BY <1>1, SameTable DEF connVars, IInv, TypeOK, SignalsMatchTable, StartedOnce,
     AnnouncedOnce, RemovedOnce, CloseOutermost, Watched, BeingAnnounced, BeingRemoved

-----------------------------------------------------------------------------
(* The theorems *)

LEMMA Inductive == IInv /\ [Next]_vars => IInv'
<1> SUFFICES ASSUME IInv, [Next]_vars PROVE IInv'
  OBVIOUS
<1>1. CASE NextIdElsewhere
  BY <1>1, NextIdElsewhereStep
<1>2. ASSUME NEW k \in Kinds,
             AddForwarder(k) \/ HandleControlSocket(k) \/ InsertChild(k)
      PROVE  IInv'
  <2>1. CASE Insert(k, 0)
    BY <2>1, InsertStep
  <2>2. CASE InsertChild(k)
    <3>1. PICK p \in Parents(k) : Insert(k, p)
      BY <2>2 DEF InsertChild
    <3>2. p = 0 \/ (frames = <<>> /\ p \in Sockets /\ ConnectionKind(kind[p]) = k)
      BY <2>2 DEF InsertChild, Parents, Idle
    <3> QED
      BY <3>1, <3>2, InsertStep
  <2> QED
    BY <1>2, <2>1, <2>2 DEF AddForwarder, HandleControlSocket
<1>3. CASE FinishInsert
  BY <1>3, FinishInsertStep
<1>4. ASSUME NEW id \in Ids, RemoveForwarder(id) \/ EntryRemove(id)
      PROVE  IInv'
  BY <1>4, RemovalSteps
<1>5. ASSUME NEW id \in Ids, NEW b \in BOOLEAN, HandleSocketClose(id, b)
      PROVE  IInv'
  BY <1>5, HandleSocketCloseStep
<1>6. CASE FinishClose
  BY <1>6, FinishCloseStep
<1>7. ASSUME NEW ok \in BOOLEAN, InfoDone(ok)
      PROVE  IInv'
  BY <1>7, InfoDoneStep
<1>8. ASSUME NEW s \in {"STARTED", "STOPPING", "STOPPED"}, HandlePeerState(s)
      PROVE  IInv'
  BY <1>8, HandlePeerStateStep
<1>9. CASE Unref
  BY <1>9, UnrefStep
<1>10. CASE UNCHANGED vars
  BY <1>10, StutterStep
<1>11. ASSUME NEW c \in Ids, RemoveConnection(c)
       PROVE  IInv'
  BY <1>11, RemoveConnectionStep
<1>12. CASE FinishRemove
  BY <1>12, FinishRemoveStep
<1> QED
  BY <1>1, <1>2, <1>3, <1>4, <1>5, <1>6, <1>7, <1>8, <1>9, <1>10, <1>11, <1>12 DEF Next

LEMMA Initial == Init => IInv
<1> SUFFICES ASSUME Init PROVE IInv
  OBVIOUS
<1>1. Sockets = {} /\ DOMAIN frames = {}
  BY DEF Init, Sockets
<1>2. TypeOK
  BY DEF Init, TypeOK
<1>3. SignalsMatchTable /\ StartedOnce
  BY <1>1 DEF Init, SignalsMatchTable, StartedOnce, BeingRemoved
<1>4. AnnouncedOnce /\ RemovedOnce /\ CloseOutermost /\ Owned
  BY <1>1 DEF AnnouncedOnce, RemovedOnce, CloseOutermost, Owned
<1>5. Watched
  BY DEF Init, Watched
<1> QED
  BY <1>2, <1>3, <1>4, <1>5 DEF IInv

LEMMA Invariant == Spec => []IInv
  BY Initial, Inductive, PTL DEF Spec

\* Every variable of the peer keeps its type; in particular the counter of
\* fwd_peer_next_id stays within the mask.
THEOREM TypeCorrect == Spec => []TypeOK
<1>1. IInv => TypeOK
  BY DEF IInv
<1> QED
  BY <1>1, Invariant, PTL

\* SOCKET_ADDED and SOCKET_REMOVED account for the table of fwd_peer.c and for
\* the removals that are suspended while connections are removed with their
\* entry (fwd_entry_remove, fwd_peer_remove_forwarder, CLOSE), also in the
\* middle of nested handlers.
THEOREM SignalsCorrect == Spec => []SignalsMatchTable
<1>1. IInv => SignalsMatchTable
  BY DEF IInv
<1> QED
  BY <1>1, Invariant, PTL

\* fwd_entry_insert and fwd_peer_set_state together start each entry once.
THEOREM StartsCorrect == Spec => []StartedOnce
<1>1. IInv => StartedOnce
  BY DEF IInv
<1> QED
  BY <1>1, Invariant, PTL

\* fwd_control_handle_peer_state and fwd_peer_new_with_rpc notice every way
\* in which the transport stops.
THEOREM StopNoticed == Spec => []StoppedWithTransport
<1>1. IInv => StoppedWithTransport
  BY DEF IInv, Watched, StoppedWithTransport
<1> QED
  BY <1>1, Invariant, PTL

\* No step of the peer leaves the STOPPED state or starts an entry in it.
THEOREM StopFinal == Spec => StopIsFinal
<1> DEFINE Final == state = "STOPPED" =>
              /\ state' = "STOPPED"
              /\ \A id \in Ids : starts'[id] <= starts[id]
<1>1. ASSUME IInv, Next, state = "STOPPED"
      PROVE  state' = "STOPPED" /\ \A id \in Ids : starts'[id] <= starts[id]
  <2> USE <1>1
  <2>1. \A id \in Ids : starts[id] \in Nat
    BY DEF IInv, TypeOK
  <2>2. CASE NextIdElsewhere
    BY <2>1, <2>2 DEF NextIdElsewhere, connVars
  <2>3. ASSUME NEW k \in Kinds, NEW p, Insert(k, p)
        PROVE  state' = "STOPPED" /\ \A id \in Ids : starts'[id] <= starts[id]
    BY <2>1, <2>3 DEF Insert, connVars, IInv, TypeOK
  <2>4. CASE FinishInsert
    BY <2>1, <2>4 DEF FinishInsert, connVars
  <2>5. ASSUME NEW id \in Ids, TakeOut(id), UNCHANGED connVars
        PROVE  state' = "STOPPED" /\ \A i \in Ids : starts'[i] <= starts[i]
    BY <2>1, <2>5 DEF TakeOut, connVars, IInv, TypeOK
  <2>6. CASE FinishClose
    <3>1. CASE Top.id \in Sockets
      <4>1. PICK id \in Ids : id = Top.id
        BY <3>1 DEF Sockets
      <4>2. TakeOut(id) /\ UNCHANGED connVars
        BY <2>6, <3>1, <4>1 DEF FinishClose, Remove
      <4> QED
        BY <2>5, <4>2
    <3>2. CASE Top.id \notin Sockets
      BY <2>1, <2>6, <3>2 DEF FinishClose, connVars
    <3> QED
      BY <3>1, <3>2
  <2>7. ASSUME NEW c \in Ids, RemoveConnection(c)
         PROVE  state' = "STOPPED" /\ \A i \in Ids : starts'[i] <= starts[i]
    BY <2>1, <2>5, <2>7 DEF RemoveConnection, connVars
  <2>8. CASE FinishRemove
    BY <2>1, <2>8 DEF FinishRemove, connVars
  <2>9. ASSUME NEW ok \in BOOLEAN, InfoDone(ok)
        PROVE  state' = "STOPPED" /\ \A id \in Ids : starts'[id] <= starts[id]
    BY <2>1, <2>9, InfoDoneStep
  <2>10. ASSUME NEW s \in {"STARTED", "STOPPING", "STOPPED"}, HandlePeerState(s)
        PROVE  state' = "STOPPED" /\ \A id \in Ids : starts'[id] <= starts[id]
    BY <2>1, <2>10, HandlePeerStateStep
  <2>11. CASE Unref
    BY <2>1, <2>11 DEF Unref
  <2> QED
    BY <2>2, <2>3, <2>4, <2>5, <2>6, <2>9, <2>10, <2>11, <2>7, <2>8
    DEF Next, AddForwarder, HandleControlSocket, InsertChild, RemoveForwarder,
        EntryRemove, HandleSocketClose, Remove
<1>2. IInv /\ [Next]_vars => [Final]_vars
  BY <1>1
<1> QED
  BY <1>2, Invariant, PTL DEF Spec, StopIsFinal

=============================================================================
