------------------------ MODULE SnapshotDeltaProofs ------------------------
(***************************************************************************)
(* Proofs about SnapshotDelta: its types, that no snapshot is the          *)
(* difference from one the client does not hold, and that the client's     *)
(* game sees what the server's world showed.                               *)
(*                                                                         *)
(* Both rings are windows on a sequence of entities that grows forever.    *)
(* A frame of the server that did not roll off, and a snapshot of the      *)
(* client that is not lost, lies inside the window, and so holds what was  *)
(* written for it.  A delta is computed from such a frame, for a snapshot  *)
(* the client has acknowledged; the client keeps that one until a message  *)
(* PACKET_BACKUP numbers later, and the delta comes earlier.               *)
(***************************************************************************)
EXTENDS SnapshotDelta, ProofLemmas

Entity == [number : Nat, state : Int]
Deltas == UNION {[S -> [from : Int, to : Int]] : S \in SUBSET Entities}
Message == [num : Nat, snapshot : BOOLEAN, baselines : BOOLEAN, lastframe : Nat,
            entities : Deltas, built : Seq(Entity)]
Acknowledgement == [messageAcknowledge : Nat, delta : BOOLEAN]
FrameType == [first_entity : Nat, num_entities : 0 .. MAX_SNAPSHOT_ENTITIES]
SnapshotType == [valid : BOOLEAN, messageNum : Nat, parseEntitiesNum : Nat,
                 numEntities : Nat, built : Seq(Entity)]

ServerTypes ==
  /\ active \in BOOLEAN /\ needBaseline \in BOOLEAN /\ deltaMessage \in Int
  /\ outgoingSequence \in Nat /\ backlog \in Seq(Message) /\ Len(backlog) <= 1
  /\ frames \in [Packets -> FrameType]
  /\ snapshotEntities \in [0 .. numSnapshotEntities - 1 -> Entity]
  /\ nextSnapshotEntities \in 0 .. WRAP - 1
  /\ \A i \in Packets : frames[i].first_entity + frames[i].num_entities <= nextSnapshotEntities

ClientTypes ==
  /\ serverMessageSequence \in Nat
  /\ snap \in SnapshotType /\ snapshots \in [Packets -> SnapshotType]
  /\ parseEntities \in [0 .. maxParseEntities - 1 -> Entity] /\ parseEntitiesNum \in Nat
  /\ entityBaselines \in [Entities -> Nat]
  /\ \A i \in Packets :
       snapshots[i].parseEntitiesNum + snapshots[i].numEntities <= parseEntitiesNum

Types == ServerTypes /\ ClientTypes
         /\ toClient \in Seq(Message) /\ toServer \in Seq(Acknowledgement)

\* The number of the message that is built next.
Upcoming == outgoingSequence + Len(backlog)

\* The messages that the client will get, if they are not lost.
Path == IF backlog = <<>> THEN toClient
        ELSE Append(toClient, [backlog[1] EXCEPT !.num = outgoingSequence])

Numbered ==
  /\ snap.messageNum <= serverMessageSequence /\ serverMessageSequence < outgoingSequence
  /\ \A k \in 1 .. Len(Path) : /\ serverMessageSequence < Path[k].num /\ Path[k].num < Upcoming
                               /\ \A j \in 1 .. k - 1 : Path[j].num < Path[k].num

\* Unless it rolled off, frame f is b in the server's ring.
FrameIs(f, ringEntities, next, b) ==
  /\ f.num_entities = Len(b)
  /\ f.first_entity > next - numSnapshotEntities =>
       \A i \in 1 .. Len(b) :
         Entry(ringEntities, numSnapshotEntities, f.first_entity + i - 1) = b[i]

\* Until its place in frames is taken, the frame of message n is b.
FrameHolds(n, b) ==
  Upcoming <= n + PACKET_BACKUP =>
    FrameIs(frames[n % PACKET_BACKUP], snapshotEntities, nextSnapshotEntities, b)

\* The client has snapshot n.
Holds(n) == /\ snapshots[n % PACKET_BACKUP].valid
            /\ snapshots[n % PACKET_BACKUP].messageNum = n

\* What the client holds it has under the right number, and its newest twice.
Placed(i) ==
  snapshots[i].valid =>
    /\ snapshots[i].messageNum \in 1 .. snap.messageNum
    /\ snapshots[i].messageNum % PACKET_BACKUP = i
    /\ \E view \in Views : snapshots[i].built = Sorted(view)
    /\ FrameHolds(snapshots[i].messageNum, snapshots[i].built)

SnapshotsPlaced ==
  /\ \A i \in Packets : Placed(i)
  /\ snap.valid => snap.messageNum > 0 /\ snapshots[snap.messageNum % PACKET_BACKUP] = snap

\* A snapshot that was acknowledged stays with the client until its place is taken.
Acknowledged(n) ==
  /\ n \in 1 .. snap.messageNum
  /\ serverMessageSequence < n + PACKET_BACKUP => Holds(n)

AcknowledgedHeld ==
  /\ deltaMessage = -1 \/ Acknowledged(deltaMessage)
  /\ \A k \in 1 .. Len(toServer) :
       /\ toServer[k].messageAcknowledge <= serverMessageSequence
       /\ toServer[k].delta => Acknowledged(toServer[k].messageAcknowledge)

\* A snapshot under way is the difference from one that the client holds and will hold
\* when it arrives.
Difference(m, view) ==
  \/ m.lastframe = 0 /\ m.entities = SV_EmitPacketEntities(<<>>, view)
  \/ /\ m.lastframe \in 1 .. PACKET_BACKUP - 1 /\ m.lastframe < m.num
     /\ Holds(m.num - m.lastframe)
     /\ \E from \in Views :
          /\ snapshots[(m.num - m.lastframe) % PACKET_BACKUP].built = Sorted(from)
          /\ m.entities = SV_EmitPacketEntities(from, view)

Sound(m) ==
  /\ ~m.snapshot => m.lastframe = 0
  /\ m.snapshot => /\ FrameHolds(m.num, m.built)
                   /\ \E view \in Views : m.built = Sorted(view) /\ Difference(m, view)

PathSound == \A k \in 1 .. Len(Path) : Sound(Path[k])

\* The first snapshot brings the baselines, and no other.
BaselinesFirst ==
  /\ ~active => needBaseline
  /\ needBaseline => /\ \A k \in 1 .. Len(Path) : ~Path[k].snapshot
                     /\ \A i \in Packets : ~snapshots[i].valid
  /\ \A k \in 1 .. Len(Path) :
       Path[k].baselines => /\ Path[k].snapshot
                            /\ \A j \in 1 .. k - 1 : ~Path[j].snapshot
                            /\ \A i \in Packets : ~snapshots[i].valid

\* As long as it is not lost, snapshot s is in the client's ring as it was built.
Kept(s) ==
  s.valid /\ ~Lost(s) =>
    /\ s.numEntities = Len(s.built)
    /\ \A i \in 1 .. Len(s.built) :
         Entry(parseEntities, maxParseEntities, s.parseEntitiesNum + i - 1) = s.built[i]

SnapshotsKept == entityBaselines = Baseline => \A i \in Packets : Kept(snapshots[i])

IInv == /\ Types /\ Numbered
        /\ SnapshotsPlaced /\ AcknowledgedHeld /\ PathSound
        /\ BaselinesFirst /\ SnapshotsKept

-----------------------------------------------------------------------------
\* Numbers in ascending order.

IsAscending(q, S) ==
  /\ q \in [1 .. Cardinality(S) -> S]
  /\ \A i, j \in DOMAIN q : i < j => q[i] < q[j]

\* The least number comes first, then the others.
LEMMA AscendingExists ==
  ASSUME NEW S \in SUBSET Nat, IsFiniteSet(S)
  PROVE  \E q : IsAscending(q, S)
<1> DEFINE Ordered(n) == \A X \in SUBSET Nat :
             IsFiniteSet(X) /\ Cardinality(X) = n => \E q : IsAscending(q, X)
           T == {n \in Nat : Ordered(n)}
<1>1. 0 \in T
  <2>1. ASSUME NEW X \in SUBSET Nat, IsFiniteSet(X), Cardinality(X) = 0
        PROVE  \E q : IsAscending(q, X)
    <3>1. X = {} /\ 1 .. Cardinality(X) = {}
      BY <2>1, FS_EmptySet
    <3> DEFINE q == [i \in 1 .. Cardinality(X) |-> 0]
    <3>2. q \in [1 .. Cardinality(X) -> X] /\ DOMAIN q = {}
      BY <3>1
    <3>3. QED
      BY <3>2, Zenon DEF IsAscending
  <2>2. QED
    BY <2>1
<1>2. ASSUME NEW n \in T
      PROVE  n + 1 \in T
  <2>1. ASSUME NEW X \in SUBSET Nat, IsFiniteSet(X), Cardinality(X) = n + 1
        PROVE  \E q : IsAscending(q, X)
    <3>1. X # {}
      BY <2>1, FS_EmptySet
    <3>2. PICK x \in X : \A y \in X : x <= y
      BY <3>1, LeastNatural
    <3> DEFINE Y == X \ {x}
    <3>3. IsFiniteSet(Y) /\ Cardinality(Y) = n /\ Y \in SUBSET Nat
      <4>1. IsFiniteSet(Y) /\ Cardinality(Y) = Cardinality(X) - 1
        BY <2>1, FS_RemoveElement
      <4>2. Y \in SUBSET Nat /\ n \in Nat
        OBVIOUS
      <4> HIDE DEF Y
      <4>3. QED
        BY <2>1, <4>1, <4>2
    <3>4. PICK p : IsAscending(p, Y)
      <4>1. Ordered(n)
        OBVIOUS
      <4> HIDE DEF Y
      <4>2. QED
        BY <3>3, <4>1
    <3> DEFINE q == [i \in 1 .. n + 1 |-> IF i = 1 THEN x ELSE p[i - 1]]
    <3>5. p \in [1 .. n -> Y] /\ \A i, j \in 1 .. n : i < j => p[i] < p[j]
      BY <3>3, <3>4 DEF IsAscending
    <3>6. \A i \in 2 .. n + 1 : i - 1 \in 1 .. n /\ p[i - 1] \in X /\ p[i - 1] > x
      <4>1. \A i \in 1 .. n : p[i] \in X /\ p[i] # x /\ p[i] \in Nat
        BY <3>5
      <4> HIDE DEF Y
      <4>2. \A i \in 1 .. n : p[i] \in X /\ p[i] > x
        BY <3>2, <4>1
      <4>3. QED
        BY <4>2
    <3>7. q \in [1 .. n + 1 -> X]
      <4>1. \A i \in 1 .. n + 1 : i = 1 \/ i \in 2 .. n + 1
        OBVIOUS
      <4>2. QED
        BY <3>6, <4>1
    <3>8. ASSUME NEW i \in 1 .. n + 1, NEW j \in 1 .. n + 1, i < j
          PROVE  q[i] < q[j]
      <4>1. j \in 2 .. n + 1 /\ q[j] = p[j - 1] /\ j - 1 \in 1 .. n
        BY <3>8
      <4>2. CASE i = 1
        BY <3>6, <4>1, <4>2
      <4>3. CASE i # 1
        <5>1. q[i] = p[i - 1] /\ i - 1 \in 1 .. n /\ i - 1 < j - 1
          BY <3>8, <4>3
        <5> HIDE DEF q
        <5>2. QED
          BY <3>5, <4>1, <5>1
      <4>4. QED
        BY <4>2, <4>3
    <3>9. IsAscending(q, X)
      <4>1. DOMAIN q = 1 .. n + 1
        OBVIOUS
      <4> HIDE DEF q
      <4>2. QED
        BY <2>1, <3>7, <3>8, <4>1 DEF IsAscending
    <3>10. QED
      BY <3>9, Zenon
  <2>2. QED
    BY <2>1
<1>3. \A n \in Nat : n \in T
  <2> HIDE DEF T
  <2>1. T \in SUBSET Nat
    BY DEF T
  <2>2. QED
    BY <1>1, <1>2, <2>1, NaturalInduction
<1>4. Cardinality(S) \in Nat
  BY FS_CardinalityType
<1>5. QED
  BY <1>3, <1>4

\* Ascending enumerates the set.
LEMMA AscendingOrder ==
  ASSUME NEW S \in SUBSET Nat, IsFiniteSet(S)
  PROVE  /\ Cardinality(S) \in Nat
         /\ Ascending(S) \in [1 .. Cardinality(S) -> S]
         /\ Ascending(S) \in Seq(S) /\ Len(Ascending(S)) = Cardinality(S)
         /\ \A i, j \in 1 .. Cardinality(S) : i < j => Ascending(S)[i] < Ascending(S)[j]
         /\ \A x \in S : \E i \in 1 .. Cardinality(S) : Ascending(S)[i] = x
<1> DEFINE n == Cardinality(S)
           q == Ascending(S)
<1>1. n \in Nat
  BY FS_CardinalityType
<1>2. IsAscending(q, S)
  <2>1. \E p \in [1 .. n -> S] : \A i, j \in DOMAIN p : i < j => p[i] < p[j]
    BY AscendingExists, Zenon DEF IsAscending
  <2>2. QED
    BY <2>1, Zenon DEF IsAscending, Ascending
<1> HIDE DEF q
<1>3. q \in [1 .. n -> S] /\ \A i, j \in 1 .. n : i < j => q[i] < q[j]
  BY <1>2 DEF IsAscending
<1>4. q \in Seq(S) /\ Len(q) = n
  BY <1>1, <1>3
<1>5. q \in Injection(1 .. n, S)
  <2>1. \A i, j \in 1 .. n : q[i] = q[j] => i = j
    <3>1. \A i \in 1 .. n : q[i] \in Nat
      BY <1>3
    <3> HIDE DEF n
    <3>2. QED
      BY <1>1, <1>3, <3>1
  <2>2. QED
    BY <1>3, <2>1 DEF Injection, IsInjective
<1>6. Cardinality(1 .. n) = n
  BY <1>1, FS_Interval
<1>7. q \in Surjection(1 .. n, S)
  <2> HIDE DEF n
  <2>1. Cardinality(1 .. n) = Cardinality(S)
    BY <1>6 DEF n
  <2>2. QED
    BY <1>5, <2>1, FS_Injection
<1>8. \A x \in S : \E i \in 1 .. n : q[i] = x
  BY <1>7 DEF Surjection
<1>9. QED
  BY <1>1, <1>3, <1>4, <1>8 DEF q

-----------------------------------------------------------------------------
\* Views.

LEMMA Sizes ==
  /\ PACKET_BACKUP \in Nat \ {0} /\ PACKET_BACKUP > 3
  /\ MAX_SNAPSHOT_ENTITIES \in Nat \ {0} /\ WRAP \in Nat \ {0}
  /\ numSnapshotEntities \in Nat \ {0} /\ MAX_SNAPSHOT_ENTITIES <= numSnapshotEntities
  /\ maxParseEntities \in Nat \ {0} /\ MAX_SNAPSHOT_ENTITIES <= maxParseEntities
  /\ WRAP > 3 * numSnapshotEntities + MAX_SNAPSHOT_ENTITIES
BY SizeAssumption

LEMMA ViewType ==
  ASSUME NEW view \in Views
  PROVE  /\ DOMAIN view \in SUBSET Entities /\ DOMAIN view \in SUBSET Nat
         /\ IsFiniteSet(DOMAIN view) /\ Cardinality(DOMAIN view) \in 0 .. MAX_SNAPSHOT_ENTITIES
         /\ view = [e \in DOMAIN view |-> view[e]]
         /\ \A e \in DOMAIN view : view[e] \in Nat
<1>1. PICK shown \in SUBSET Entities :
        view \in [shown -> Nat] /\ Cardinality(shown) <= MAX_SNAPSHOT_ENTITIES
  BY ViewAssumption
<1>2. DOMAIN view = shown
  BY <1>1
<1>3. IsFiniteSet(shown)
  BY ViewAssumption, FS_Subset
<1>4. Cardinality(shown) \in Nat
  BY <1>3, FS_CardinalityType
<1>5. shown \in SUBSET Nat
  BY ViewAssumption
<1>6. Cardinality(shown) \in 0 .. MAX_SNAPSHOT_ENTITIES
  BY <1>1, <1>4, Sizes
<1>7. QED
  BY <1>1, <1>2, <1>3, <1>5, <1>6

\* b lists the entities of a view in ascending order.
Lists(b, view) ==
  /\ b \in Seq(Entity) /\ Len(b) = Cardinality(DOMAIN view)
  /\ Len(b) \in 0 .. MAX_SNAPSHOT_ENTITIES
  /\ \A i \in 1 .. Len(b) : /\ b[i] = [number |-> b[i].number, state |-> view[b[i].number]]
                            /\ b[i].number \in DOMAIN view
  /\ \A i, j \in 1 .. Len(b) : i < j => b[i].number < b[j].number
  /\ \A e \in DOMAIN view : \E i \in 1 .. Len(b) : b[i].number = e

LEMMA SortedLists ==
  ASSUME NEW view \in Views
  PROVE  Lists(Sorted(view), view)
<1> DEFINE S == DOMAIN view
           q == Ascending(S)
           n == Cardinality(S)
           b == [i \in 1 .. n |-> [number |-> q[i], state |-> view[q[i]]]]
<1>1. /\ n \in 0 .. MAX_SNAPSHOT_ENTITIES /\ n \in Nat /\ S \in SUBSET Nat
      /\ \A e \in S : view[e] \in Nat
  BY ViewType, Sizes
<1>2. /\ q \in [1 .. n -> S]
      /\ \A i, j \in 1 .. n : i < j => q[i] < q[j]
      /\ \A x \in S : \E i \in 1 .. n : q[i] = x
  BY ViewType, AscendingOrder
<1>3. Sorted(view) = b
  <2>1. DOMAIN q = 1 .. n
    BY <1>2
  <2> HIDE DEF q, n
  <2>2. QED
    BY <2>1 DEF Sorted, q
<1> HIDE DEF q, n, S
<1>4. \A i \in 1 .. n : /\ b[i] = [number |-> q[i], state |-> view[q[i]]]
                        /\ q[i] \in S /\ q[i] \in Nat /\ view[q[i]] \in Int
  <2>1. ASSUME NEW i \in 1 .. n
        PROVE  /\ b[i] = [number |-> q[i], state |-> view[q[i]]]
               /\ q[i] \in S /\ q[i] \in Nat /\ view[q[i]] \in Int
    <3>1. q[i] \in S
      BY <1>2
    <3>2. q[i] \in Nat /\ view[q[i]] \in Int
      <4>1. q[i] \in Nat
        BY <1>1, <3>1, Zenon
      <4>2. view[q[i]] \in Nat
        BY <1>1, <3>1, Zenon
      <4>3. QED
        BY <4>1, <4>2
    <3>3. QED
      BY <3>1, <3>2
  <2> HIDE DEF b
  <2>2. QED
    BY <2>1, Zenon
<1>5. b \in Seq(Entity) /\ Len(b) = n
  <2>1. \A i \in 1 .. n : [number |-> q[i], state |-> view[q[i]]] \in Entity
    BY <1>4 DEF Entity
  <2>2. QED
    BY <1>1, <2>1
<1> HIDE DEF b
<1>6. \A i \in 1 .. n : b[i].number = q[i] /\ b[i].state = view[q[i]]
  <2>1. ASSUME NEW i \in 1 .. n
        PROVE  b[i].number = q[i] /\ b[i].state = view[q[i]]
    <3>1. b[i] = [number |-> q[i], state |-> view[q[i]]]
      BY <1>4, Zenon
    <3>2. QED
      BY <3>1
  <2>2. QED
    BY <2>1
<1>7. \A i \in 1 .. n : /\ b[i] = [number |-> b[i].number, state |-> view[b[i].number]]
                        /\ b[i].number \in S
  BY <1>4, <1>6
<1>8. Lists(b, view)
  <2>1. \A i, j \in 1 .. n : i < j => b[i].number < b[j].number
    BY <1>2, <1>6
  <2>2. \A e \in S : \E i \in 1 .. n : b[i].number = e
    BY <1>2, <1>6
  <2>3. QED
    BY <1>1, <1>5, <1>7, <2>1, <2>2, Zenon DEF Lists, n, S
<1>9. QED
  BY <1>3, <1>8

-----------------------------------------------------------------------------
\* The server's ring.

LEMMA DifferentSlots ==
  ASSUME NEW L \in Nat \ {0}, NEW a \in Int, NEW b \in Int, a < b, b < a + L
  PROVE  a % L # b % L
<1>1. ~(a + L <= b)
  OBVIOUS
<1>2. QED
  BY <1>1, SameSlotTurnApart

LEMMA SlotInServerRing ==
  ASSUME NEW k \in Int
  PROVE  k % numSnapshotEntities \in 0 .. numSnapshotEntities - 1
BY Sizes, ModRange

\* The index from which n entities are written, after the ring's index was lowered if
\* need be.
LEMMA FirstEntityRange ==
  ASSUME nextSnapshotEntities \in 0 .. WRAP - 1, NEW n \in 0 .. MAX_SNAPSHOT_ENTITIES
  PROVE  /\ FirstEntity(n) \in Nat /\ FirstEntity(n) + n \in 0 .. WRAP - 1
         /\ MustLower(n) => /\ Offset \in Nat
                            /\ \E k \in Int : Offset = numSnapshotEntities * k
                            /\ FirstEntity(n) >= numSnapshotEntities + numSnapshotEntities
                            /\ FirstEntity(n) = nextSnapshotEntities - Offset
<1> DEFINE size == numSnapshotEntities
           next == nextSnapshotEntities
           p == next \div size
           r == next % size
<1>1. size \in Nat \ {0} /\ next \in Nat /\ n \in Nat
  BY Sizes
<1>2. p \in Int /\ r \in 0 .. size - 1 /\ next = size * p + r
  <2> HIDE DEF size, next
  <2>1. QED
    BY <1>1, ModRange
<1>3. Offset = (p - 2) * size
  BY DEF Offset
<1> HIDE DEF size, next, p, r
<1>4. Offset = size * (p - 2) /\ Offset = size * p - (size + size) /\ Offset \in Int
  BY <1>1, <1>2, <1>3
<1>5. /\ size * p \in Int
      /\ WRAP \in Nat /\ MAX_SNAPSHOT_ENTITIES \in Nat
      /\ WRAP > (size + size + size) + MAX_SNAPSHOT_ENTITIES
  BY <1>1, <1>2, Sizes DEF size
<1>6. CASE MustLower(n)
  <2>1. next >= WRAP - n /\ FirstEntity(n) = next - Offset
    BY <1>6 DEF MustLower, FirstEntity, next
  <2>2. FirstEntity(n) = r + (size + size)
    BY <1>1, <1>2, <1>4, <1>5, <2>1
  <2>3. next > size + size + size
    BY <1>1, <1>5, <2>1
  <2>4. size * p >= size + size
    BY <1>1, <1>2, <1>5, <2>3
  <2>5. Offset \in Nat
    BY <1>4, <1>5, <1>1, <2>4
  <2>6. p - 2 \in Int
    BY <1>2
  <2>7. QED
    BY <1>1, <1>2, <1>4, <1>5, <2>1, <2>2, <2>5, <2>6 DEF size, next
<1>7. CASE ~MustLower(n)
  BY <1>1, <1>7, Sizes DEF MustLower, FirstEntity, next
<1>8. QED
  BY <1>6, <1>7

\* A frame, after the ring's index was lowered, is where it was, or has rolled off.
StillThere(f, g, first) ==
  /\ g \in FrameType /\ g.num_entities = f.num_entities
  /\ g.first_entity + g.num_entities <= first
  /\ g.first_entity > first - numSnapshotEntities =>
       /\ f.first_entity > nextSnapshotEntities - numSnapshotEntities
       /\ \A k \in Int : (g.first_entity + k) % numSnapshotEntities
                           = (f.first_entity + k) % numSnapshotEntities

LEMMA LoweredFrame ==
  ASSUME ServerTypes, NEW n \in 0 .. MAX_SNAPSHOT_ENTITIES, NEW i \in Packets
  PROVE  StillThere(frames[i], FramesLowered(n)[i], FirstEntity(n))
<1> DEFINE f == frames[i]
           g == FramesLowered(n)[i]
           size == numSnapshotEntities
           next == nextSnapshotEntities
           first == FirstEntity(n)
<1>1. /\ f \in FrameType /\ f.first_entity + f.num_entities <= next /\ next \in 0 .. WRAP - 1
      /\ next \in Nat /\ size \in Nat \ {0} /\ MAX_SNAPSHOT_ENTITIES \in Nat
      /\ MAX_SNAPSHOT_ENTITIES <= size
  BY Sizes DEF ServerTypes
<1>2. /\ f.first_entity \in Nat /\ f.num_entities \in 0 .. MAX_SNAPSHOT_ENTITIES
      /\ f = [first_entity |-> f.first_entity, num_entities |-> f.num_entities]
      /\ f.num_entities \in Nat /\ f.num_entities <= size
  <2>1. f.first_entity \in Nat /\ f.num_entities \in 0 .. MAX_SNAPSHOT_ENTITIES
        /\ f = [first_entity |-> f.first_entity, num_entities |-> f.num_entities]
    BY <1>1 DEF FrameType
  <2> HIDE DEF f
  <2>2. QED
    BY <1>1, <2>1
<1>3. /\ first \in Nat
      /\ MustLower(n) => /\ Offset \in Nat /\ first = next - Offset /\ first >= size + size
                         /\ \E k \in Int : Offset = size * k
  BY <1>1, FirstEntityRange
<1>4. CASE MustLower(n)
  <2>1. g = [f EXCEPT !.first_entity = Lowered(f.first_entity)]
    BY <1>4 DEF FramesLowered
  <2>2. g = [first_entity |-> Lowered(f.first_entity), num_entities |-> f.num_entities]
    <3> HIDE DEF f, g
    <3>1. QED
      BY <1>2, <2>1
  <2>3. g.num_entities = f.num_entities /\ g.first_entity = Lowered(f.first_entity)
    <3> HIDE DEF f, g
    <3>1. QED
      BY <2>2
  <2>4. CASE f.first_entity <= next - size
    <3>1. g.first_entity = f.first_entity % size
      BY <2>3, <2>4 DEF Lowered
    <3>2. f.first_entity % size \in 0 .. size - 1
      <4> HIDE DEF f, size
      <4>1. QED
        BY <1>1, <1>2, ModRange
    <3> HIDE DEF f, g, size, next, first
    <3>3. g.first_entity \in 0 .. size - 1
      BY <3>1, <3>2
    <3>4. g.first_entity \in Nat /\ g \in FrameType
      BY <1>1, <1>2, <2>2, <2>3, <3>3 DEF FrameType
    <3>5. g.first_entity + g.num_entities <= first /\ ~(g.first_entity > first - size)
      BY <1>1, <1>2, <1>3, <1>4, <2>3, <3>3
    <3>6. QED
      BY <2>3, <3>4, <3>5 DEF StillThere, f, g, size, first
  <2>5. CASE ~(f.first_entity <= next - size)
    <3>1. g.first_entity = f.first_entity - Offset
      BY <2>3, <2>5 DEF Lowered
    <3> HIDE DEF f, g, size, next, first
    <3>2. /\ Offset \in Nat /\ first = next - Offset /\ first >= size + size
          /\ f.first_entity > next - size
      BY <1>1, <1>2, <1>3, <1>4, <2>5
    <3>3. g.first_entity \in Nat /\ g.first_entity + g.num_entities <= first
      BY <1>1, <1>2, <1>3, <2>3, <3>1, <3>2
    <3>4. g \in FrameType
      BY <1>2, <2>2, <2>3, <3>3 DEF FrameType
    <3>5. PICK m \in Int : Offset = size * m
      BY <1>3, <1>4
    <3>6. ASSUME NEW k \in Int
          PROVE  (g.first_entity + k) % size = (f.first_entity + k) % size
      <4>1. f.first_entity + k = (g.first_entity + k) + size * m /\ g.first_entity + k \in Int
        BY <1>1, <1>2, <3>1, <3>2, <3>3, <3>5
      <4>2. QED
        BY <1>1, <4>1, ModTurns
    <3>7. QED
      BY <2>3, <3>2, <3>3, <3>4, <3>6 DEF StillThere, f, g, size, next, first
  <2>6. QED
    BY <2>4, <2>5
<1>5. CASE ~MustLower(n)
  <2>1. g = f
    BY <1>5 DEF FramesLowered
  <2>2. first = next
    BY <1>5 DEF FirstEntity
  <2> HIDE DEF f, g, size, next, first
  <2>3. QED
    BY <1>1, <2>1, <2>2 DEF StillThere, f, g, size, next, first
<1>6. QED
  BY <1>4, <1>5

\* What CopyOut writes stands behind what was there, of which a turn is left.
Copied(b, first) ==
  /\ nextSnapshotEntities' = first + Len(b) /\ nextSnapshotEntities' \in 0 .. WRAP - 1
  /\ snapshotEntities' \in [0 .. numSnapshotEntities - 1 -> Entity]
  /\ \A i \in 1 .. Len(b) :
       Entry(snapshotEntities', numSnapshotEntities, first + i - 1) = b[i]
  /\ \A k \in Int : (first + Len(b)) - numSnapshotEntities <= k /\ k < first =>
       Entry(snapshotEntities', numSnapshotEntities, k)
         = Entry(snapshotEntities, numSnapshotEntities, k)

LEMMA CopiedOut ==
  ASSUME ServerTypes, NEW b \in Seq(Entity), Len(b) \in 0 .. MAX_SNAPSHOT_ENTITIES, CopyOut(b)
  PROVE  Copied(b, FirstEntity(Len(b)))
<1> DEFINE n == Len(b)
           first == FirstEntity(n)
           size == numSnapshotEntities
           At(i) == (first + i - 1) % size
           new == [s \in 0 .. size - 1 |->
                     IF \E i \in 1 .. n : At(i) = s
                     THEN b[CHOOSE i \in 1 .. n : At(i) = s] ELSE snapshotEntities[s]]
<1>1. /\ snapshotEntities \in [0 .. size - 1 -> Entity] /\ size \in Nat \ {0}
      /\ n \in Nat /\ n <= size
  BY Sizes DEF ServerTypes
<1>2. first \in Nat /\ first + n \in 0 .. WRAP - 1
  <2>1. nextSnapshotEntities \in 0 .. WRAP - 1
    BY DEF ServerTypes
  <2>2. QED
    BY <2>1, FirstEntityRange
<1>3. nextSnapshotEntities' = first + n /\ snapshotEntities' = new
  <2>1. DOMAIN snapshotEntities = 0 .. size - 1
    BY <1>1
  <2>2. QED
    BY <2>1 DEF CopyOut
<1> HIDE DEF n, first, size
<1>4. ASSUME NEW i \in 1 .. n, NEW j \in 1 .. n, At(i) = At(j)
      PROVE  i = j
  <2>1. /\ i \in Int /\ j \in Int /\ first + i - 1 \in Int /\ first + j - 1 \in Int
        /\ i <= n /\ j <= n /\ 1 <= i /\ 1 <= j
    BY <1>1, <1>2
  <2>2. ~(i < j) /\ ~(j < i)
    <3>1. i < j => first + i - 1 < first + j - 1 /\ first + j - 1 < (first + i - 1) + size
      BY <1>1, <1>2, <2>1
    <3>2. j < i => first + j - 1 < first + i - 1 /\ first + i - 1 < (first + j - 1) + size
      BY <1>1, <1>2, <2>1
    <3>3. QED
      BY <1>1, <1>4, <2>1, <3>1, <3>2, DifferentSlots
  <2>3. QED
    BY <2>1, <2>2
<1>5. ASSUME NEW i \in 1 .. n
      PROVE  At(i) \in 0 .. size - 1 /\ new[At(i)] = b[i]
  <2>1. first + i - 1 \in Int
    BY <1>1, <1>2
  <2>2. At(i) \in 0 .. size - 1
    BY <1>1, <2>1, ModRange
  <2> DEFINE c == CHOOSE j \in 1 .. n : At(j) = At(i)
  <2>3. c \in 1 .. n /\ At(c) = At(i)
    BY Zenon
  <2>4. c = i
    <3> HIDE DEF c, At
    <3>1. QED
      BY <1>4, <2>3
  <2>5. new[At(i)] = b[c]
    <3> HIDE DEF At
    <3>1. \E j \in 1 .. n : At(j) = At(i)
      OBVIOUS
    <3>2. QED
      BY <2>2, <3>1
  <2> HIDE DEF c, At, new
  <2>6. QED
    BY <2>2, <2>4, <2>5
<1>6. ASSUME NEW k \in Int, (first + n) - size <= k, k < first
      PROVE  new[k % size] = snapshotEntities[k % size]
  <2>1. k % size \in 0 .. size - 1
    BY <1>1, ModRange
  <2>2. ASSUME NEW i \in 1 .. n PROVE At(i) # k % size
    <3>1. first + i - 1 \in Int /\ k < first + i - 1 /\ first + i - 1 < k + size
      BY <1>1, <1>2, <1>6
    <3>2. QED
      BY <1>1, <3>1, DifferentSlots
  <2> HIDE DEF At
  <2>3. QED
    BY <2>1, <2>2
<1>7. new \in [0 .. size - 1 -> Entity]
  <2>1. ASSUME NEW s \in 0 .. size - 1 PROVE new[s] \in Entity
    <3>1. CASE \E i \in 1 .. n : At(i) = s
      <4>1. PICK i \in 1 .. n : At(i) = s
        BY <3>1
      <4>2. new[s] = b[i] /\ b[i] \in Entity
        <5> HIDE DEF At, new
        <5>1. QED
          BY <1>5, <4>1 DEF n
      <4>3. QED
        BY <4>2
    <3>2. CASE ~\E i \in 1 .. n : At(i) = s
      <4> HIDE DEF At
      <4>1. QED
        BY <1>1, <3>2
    <3>3. QED
      BY <3>1, <3>2
  <2>2. new = [s \in 0 .. size - 1 |-> new[s]]
    OBVIOUS
  <2> HIDE DEF new
  <2>3. QED
    BY <2>1, <2>2
<1> HIDE DEF new
<1>8. /\ \A i \in 1 .. n : snapshotEntities'[(first + i - 1) % size] = b[i]
      /\ \A k \in Int : (first + n) - size <= k /\ k < first =>
           snapshotEntities'[k % size] = snapshotEntities[k % size]
  BY <1>3, <1>5, <1>6
<1>9. QED
  BY <1>2, <1>3, <1>7, <1>8 DEF Copied, Entry, n, first, size

\* A frame that was b in the ring still is, or rolls off, when others are copied out.
LEMMA FrameStays ==
  ASSUME ServerTypes, NEW c, Len(c) \in 0 .. MAX_SNAPSHOT_ENTITIES,
         Copied(c, FirstEntity(Len(c))), NEW i \in Packets, NEW b \in Seq(Entity),
         FrameIs(frames[i], snapshotEntities, nextSnapshotEntities, b)
  PROVE  FrameIs(FramesLowered(Len(c))[i], snapshotEntities', nextSnapshotEntities', b)
<1> DEFINE f == frames[i]
           g == FramesLowered(Len(c))[i]
           n == Len(c)
           first == FirstEntity(Len(c))
           size == numSnapshotEntities
<1>1. /\ n \in Nat /\ size \in Nat /\ first \in Nat
      /\ nextSnapshotEntities' = first + n
  <2>1. nextSnapshotEntities \in 0 .. WRAP - 1
    BY DEF ServerTypes
  <2>2. first \in Nat
    BY <2>1, FirstEntityRange
  <2>3. nextSnapshotEntities' = first + n
    BY Zenon DEF Copied
  <2>4. QED
    BY <2>2, <2>3, Sizes
<1>2. StillThere(f, g, first)
  BY LoweredFrame
<1>3. f.num_entities = Len(b) /\ g.num_entities = Len(b) /\ Len(b) \in Nat
  BY <1>2 DEF StillThere, FrameIs
<1>4. /\ g.first_entity \in Nat /\ g.first_entity + Len(b) <= first
      /\ f.first_entity \in Nat
  BY <1>2, <1>3 DEF StillThere, FrameType, ServerTypes
<1> HIDE DEF f, g, n, first, size
<1>5. ASSUME g.first_entity > nextSnapshotEntities' - size, NEW j \in 1 .. Len(b)
      PROVE  Entry(snapshotEntities', size, g.first_entity + j - 1) = b[j]
  <2>1. j - 1 \in Int /\ g.first_entity + j - 1 = g.first_entity + (j - 1)
        /\ f.first_entity + j - 1 = f.first_entity + (j - 1)
    BY <1>3, <1>4
  <2>2. /\ g.first_entity > first - size
        /\ (first + n) - size <= g.first_entity + (j - 1)
        /\ g.first_entity + (j - 1) < first /\ g.first_entity + (j - 1) \in Int
    BY <1>1, <1>3, <1>4, <1>5
  <2>3. /\ f.first_entity > nextSnapshotEntities - size
        /\ (g.first_entity + (j - 1)) % size = (f.first_entity + (j - 1)) % size
    BY <1>2, <2>1, <2>2 DEF StillThere, size
  <2>4. Entry(snapshotEntities', size, g.first_entity + (j - 1))
          = Entry(snapshotEntities, size, g.first_entity + (j - 1))
    BY <2>2 DEF Copied, first, n, size
  <2>5. Entry(snapshotEntities, size, f.first_entity + j - 1) = b[j]
    BY <2>3 DEF FrameIs, f, size
  <2>6. QED
    BY <2>1, <2>3, <2>4, <2>5 DEF Entry
<1>6. QED
  BY <1>3, <1>5 DEF FrameIs, g, size

\* The frame that is built is what was copied out.
LEMMA FrameBuilt ==
  ASSUME NEW b, NEW first, Copied(b, first), NEW f,
         f.first_entity = first, f.num_entities = Len(b)
  PROVE  FrameIs(f, snapshotEntities', nextSnapshotEntities', b)
BY DEF Copied, FrameIs

\* A frame that did not roll off shows the view it was built for.
LEMMA ShownView ==
  ASSUME NEW from \in Views, NEW b, Lists(b, from), NEW f \in FrameType,
         FrameIs(f, snapshotEntities', nextSnapshotEntities', b), ~RolledOff(f),
         nextSnapshotEntities' \in Int
  PROVE  Shown(f) = from
<1> DEFINE n == Len(b)
           At(i) == snapshotEntities'[(f.first_entity + i) % numSnapshotEntities]
           entries == {At(i) : i \in 0 .. f.num_entities - 1}
           shown == [e \in {x.number : x \in entries} |->
                       (CHOOSE x \in entries : x.number = e).state]
<1>1. /\ n \in Nat /\ f.num_entities = n /\ f.first_entity \in Nat
      /\ f.first_entity > nextSnapshotEntities' - numSnapshotEntities
      /\ \A i \in 1 .. n : Entry(snapshotEntities', numSnapshotEntities,
                                 f.first_entity + i - 1) = b[i]
  BY Sizes DEF FrameIs, RolledOff, FrameType
<1>2. \A i \in 0 .. n - 1 : i + 1 \in 1 .. n /\ At(i) = b[i + 1]
  <2>1. ASSUME NEW i \in 0 .. n - 1
        PROVE  i + 1 \in 1 .. n /\ At(i) = b[i + 1]
    <3>1. i + 1 \in 1 .. n /\ f.first_entity + (i + 1) - 1 = f.first_entity + i
      BY <1>1
    <3>2. QED
      BY <1>1, <3>1 DEF Entry
  <2>2. QED
    BY <2>1
<1> HIDE DEF At
<1>3. \A x : x \in entries <=> \E i \in 1 .. n : x = b[i]
  <2>1. ASSUME NEW i \in 1 .. n
        PROVE  i - 1 \in 0 .. n - 1 /\ (i - 1) + 1 = i
    BY <1>1
  <2>2. \A i \in 1 .. n : b[i] = At(i - 1) /\ i - 1 \in 0 .. n - 1
    BY <1>2, <2>1
  <2>3. \A x : x \in entries <=> \E i \in 0 .. n - 1 : x = At(i)
    BY <1>1
  <2>4. ASSUME NEW x, x \in entries
        PROVE  \E i \in 1 .. n : x = b[i]
    <3>1. PICK i \in 0 .. n - 1 : x = At(i)
      BY <2>3, <2>4, Zenon
    <3>2. i + 1 \in 1 .. n /\ x = b[i + 1]
      BY <1>2, <3>1
    <3>3. QED
      BY <3>2
  <2>5. ASSUME NEW i \in 1 .. n
        PROVE  b[i] \in entries
    <3>1. b[i] = At(i - 1) /\ i - 1 \in 0 .. n - 1
      BY <2>2
    <3> HIDE DEF entries
    <3>2. QED
      BY <2>3, <3>1, Zenon
  <2> HIDE DEF entries
  <2>6. QED
    BY <2>4, <2>5, Zenon
<1>4. Shown(f) = shown
  BY DEF Shown, At
<1> HIDE DEF entries
<1>5. {x.number : x \in entries} = DOMAIN from
  <2>1. /\ \A i \in 1 .. n : b[i].number \in DOMAIN from
        /\ \A e \in DOMAIN from : \E i \in 1 .. n : b[i].number = e
    BY Zenon DEF Lists
  <2>2. \A e : e \in {x.number : x \in entries} <=> \E x \in entries : e = x.number
    BY Zenon
  <2>3. ASSUME NEW e, NEW x \in entries, e = x.number
        PROVE  e \in DOMAIN from
    <3>1. PICK i \in 1 .. n : x = b[i]
      BY <1>3, Zenon
    <3>2. QED
      BY <2>1, <2>3, <3>1, Zenon
  <2>4. ASSUME NEW e \in DOMAIN from
        PROVE  \E x \in entries : e = x.number
    <3>1. PICK i \in 1 .. n : b[i].number = e
      BY <2>1, Zenon
    <3>2. b[i] \in entries
      BY <1>3, Zenon
    <3>3. QED
      BY <3>1, <3>2, Zenon
  <2>5. QED
    BY <2>2, <2>3, <2>4, Zenon
<1>6. ASSUME NEW e \in DOMAIN from
      PROVE  (CHOOSE x \in entries : x.number = e).state = from[e]
  <2> DEFINE x == CHOOSE y \in entries : y.number = e
  <2>1. \E y \in entries : y.number = e
    BY <1>5
  <2>2. x \in entries /\ x.number = e
    BY <2>1, Zenon
  <2> HIDE DEF x
  <2>3. PICK i \in 1 .. n : x = b[i]
    BY <1>3, <2>2
  <2>4. b[i] = [number |-> b[i].number, state |-> from[b[i].number]]
    BY DEF Lists
  <2>5. x.state = from[e]
    BY <2>2, <2>3, <2>4
  <2>6. QED
    BY <2>5 DEF x
<1>7. shown = [e \in DOMAIN from |-> from[e]]
  BY <1>5, <1>6
<1>8. QED
  BY <1>4, <1>7, ViewType, Zenon

-----------------------------------------------------------------------------
\* The client's ring: one entity more.

ParseState == [ring : [0 .. maxParseEntities - 1 -> Entity], next : Nat,
               baselines : [Entities -> Nat]]

\* The numbers that CL_ParsePacketEntities goes through.
Numbers(old, entities) == Range(OldNumbers(old)) \cup DOMAIN entities

LEMMA SlotInClientRing ==
  ASSUME NEW k \in Int
  PROVE  k % maxParseEntities \in 0 .. maxParseEntities - 1
BY Sizes, ModRange

LEMMA OldNumbersType ==
  ASSUME ClientTypes, NEW old \in SnapshotType
  PROVE  /\ OldNumbers(old) \in [1 .. old.numEntities -> Nat]
         /\ OldNumbers(old) \in Seq(Nat) /\ Len(OldNumbers(old)) = old.numEntities
         /\ old.numEntities \in Nat /\ old.parseEntitiesNum \in Nat
         /\ \A i \in 1 .. old.numEntities :
              OldNumbers(old)[i]
                = Entry(parseEntities, maxParseEntities, old.parseEntitiesNum + i - 1).number
<1>1. old.numEntities \in Nat /\ old.parseEntitiesNum \in Nat
  BY DEF SnapshotType
<1>2. ASSUME NEW i \in 1 .. old.numEntities
      PROVE  Entry(parseEntities, maxParseEntities, old.parseEntitiesNum + i - 1) \in Entity
  <2>1. old.parseEntitiesNum + i - 1 \in Int
    BY <1>1
  <2>2. (old.parseEntitiesNum + i - 1) % maxParseEntities \in 0 .. maxParseEntities - 1
    BY <2>1, SlotInClientRing
  <2>3. QED
    BY <2>2 DEF Entry, ClientTypes
<1>3. \A i \in 1 .. old.numEntities :
        Entry(parseEntities, maxParseEntities, old.parseEntitiesNum + i - 1).number \in Nat
  BY <1>2 DEF Entity
<1>4. OldNumbers(old) \in [1 .. old.numEntities -> Nat]
  BY <1>3 DEF OldNumbers
<1>5. \A i \in 1 .. old.numEntities :
        OldNumbers(old)[i]
          = Entry(parseEntities, maxParseEntities, old.parseEntitiesNum + i - 1).number
  BY DEF OldNumbers
<1>6. OldNumbers(old) \in Seq(Nat) /\ Len(OldNumbers(old)) = old.numEntities
  BY <1>1, <1>4
<1>7. QED
  BY <1>1, <1>4, <1>5, <1>6

LEMMA NumbersFinite ==
  ASSUME ClientTypes, NEW old \in SnapshotType, NEW entities \in Deltas
  PROVE  /\ DOMAIN entities \in SUBSET Entities
         /\ Numbers(old, entities) \in SUBSET Nat /\ IsFiniteSet(Numbers(old, entities))
<1> DEFINE f == OldNumbers(old)
           n == old.numEntities
<1>1. f \in [1 .. n -> Nat] /\ n \in Nat
  BY OldNumbersType
<1>2. PICK S \in SUBSET Entities : entities \in [S -> [from : Int, to : Int]]
  BY DEF Deltas
<1>3. DOMAIN entities = S /\ S \in SUBSET Nat
  BY <1>2, ViewAssumption
<1>4. IsFiniteSet(S)
  BY ViewAssumption, FS_Subset
<1> HIDE DEF f, n
<1>5. Range(f) \in SUBSET Nat /\ f \in Surjection(1 .. n, Range(f))
  BY <1>1 DEF Range, Surjection
<1>6. IsFiniteSet(1 .. n)
  BY <1>1, FS_Interval
<1>7. IsFiniteSet(Range(f))
  BY <1>5, <1>6, FS_Surjection
<1>8. IsFiniteSet(Range(f) \cup DOMAIN entities)
  BY <1>3, <1>4, <1>7, FS_Union
<1>9. QED
  BY <1>3, <1>5, <1>8 DEF Numbers, f

PlaceOf(old, e) == SelectInSeq(OldNumbers(old), LAMBDA n : n = e)

LEMMA PlaceFound ==
  ASSUME ClientTypes, NEW old \in SnapshotType, NEW e
  PROVE  \/ PlaceOf(old, e) = 0 /\ e \notin Range(OldNumbers(old))
         \/ PlaceOf(old, e) \in 1 .. old.numEntities /\ OldNumbers(old)[PlaceOf(old, e)] = e
<1> DEFINE f == OldNumbers(old)
           n == old.numEntities
           I == {i \in 1 .. Len(f) : f[i] = e}
<1>1. f \in [1 .. n -> Nat] /\ Len(f) = n /\ n \in Nat
  BY OldNumbersType
<1>2. PlaceOf(old, e) = IF I # {} THEN Min(I) ELSE 0
  BY DEF PlaceOf, SelectInSeq
<1>3. CASE I = {}
  <2>1. e \notin Range(f)
    <3> HIDE DEF f, n
    <3>1. QED
      BY <1>1, <1>3 DEF Range
  <2>2. QED
    BY <1>2, <1>3, <2>1
<1>4. CASE I # {}
  <2>1. I \in SUBSET Nat
    <3> HIDE DEF f, n
    <3>1. QED
      BY <1>1
  <2>2. \E x \in I : \A y \in I : x <= y
    <3> HIDE DEF I
    <3>1. QED
      BY <1>4, <2>1, LeastNatural
  <2>3. Min(I) \in I
    <3> HIDE DEF I
    <3>1. QED
      BY <2>2, Zenon DEF Min
  <2>4. QED
    BY <1>1, <1>2, <1>4, <2>3
<1>5. QED
  BY <1>3, <1>4

\* The state an entity is given.
From(st, old, e) ==
  IF PlaceOf(old, e) > 0
  THEN Entry(st.ring, maxParseEntities, old.parseEntitiesNum + PlaceOf(old, e) - 1).state
  ELSE st.baselines[e]

StateOf(st, old, entities, e) ==
  IF e \in DOMAIN entities THEN MSG_ReadDeltaEntity(From(st, old, e), entities[e])
                           ELSE From(st, old, e)

OneMore(st, e, state, new) ==
  /\ new \in ParseState /\ new.baselines = st.baselines
  /\ new.ring = [st.ring EXCEPT ![st.next % maxParseEntities] =
                                   [number |-> e, state |-> state]]
  /\ new.next = IF state = Gone THEN st.next ELSE st.next + 1

LEMMA DeltaEntity ==
  ASSUME ClientTypes, NEW old \in SnapshotType, NEW entities \in Deltas,
         NEW st \in ParseState, NEW e \in Numbers(old, entities)
  PROVE  OneMore(st, e, StateOf(st, old, entities, e), CL_DeltaEntity(st, old, entities, e))
<1> DEFINE state == StateOf(st, old, entities, e)
           new == CL_DeltaEntity(st, old, entities, e)
           entry == [number |-> e, state |-> state]
           slot == st.next % maxParseEntities
<1>1. new = [st EXCEPT !.ring[slot] = entry,
                       !.next = IF state = Gone THEN @ ELSE @ + 1]
  BY Zenon DEF CL_DeltaEntity, StateOf, From, PlaceOf
<1>2. PICK r \in [0 .. maxParseEntities - 1 -> Entity], n \in Nat, b \in [Entities -> Nat] :
        st = [ring |-> r, next |-> n, baselines |-> b]
  BY DEF ParseState
<1>3. st.ring = r /\ st.next = n /\ st.baselines = b
  BY <1>2
<1>4. e \in Nat
  BY NumbersFinite
<1>5. From(st, old, e) \in Int
  <2>1. CASE PlaceOf(old, e) = 0 /\ e \notin Range(OldNumbers(old))
    <3>1. e \in Entities
      BY <2>1, NumbersFinite DEF Numbers
    <3>2. b[e] \in Nat /\ From(st, old, e) = b[e]
      BY <1>3, <2>1, <3>1 DEF From
    <3>3. QED
      BY <3>2
  <2>2. CASE PlaceOf(old, e) \in 1 .. old.numEntities
    <3> DEFINE k == old.parseEntitiesNum + PlaceOf(old, e) - 1
    <3>1. k \in Int /\ PlaceOf(old, e) > 0
      BY <2>2, OldNumbersType
    <3>2. From(st, old, e) = Entry(st.ring, maxParseEntities, k).state
      BY <3>1 DEF From
    <3> HIDE DEF k
    <3>3. Entry(r, maxParseEntities, k) \in Entity
      BY <3>1, SlotInClientRing DEF Entry
    <3>4. QED
      BY <1>3, <3>2, <3>3 DEF Entity
  <2>3. QED
    BY <2>1, <2>2, PlaceFound
<1>6. state \in Int
  <2>1. CASE e \in DOMAIN entities
    <3>1. PICK S \in SUBSET Entities : entities \in [S -> [from : Int, to : Int]]
      BY DEF Deltas
    <3>2. entities[e].to \in Int
      BY <2>1, <3>1
    <3>3. QED
      BY <1>5, <2>1, <3>2 DEF StateOf, MSG_ReadDeltaEntity, Garbage
  <2>2. CASE e \notin DOMAIN entities
    BY <1>5, <2>2 DEF StateOf
  <2>3. QED
    BY <2>1, <2>2
<1> HIDE DEF state, new
<1>7. entry \in Entity /\ slot \in 0 .. maxParseEntities - 1
  BY <1>3, <1>4, <1>6, SlotInClientRing DEF Entity
<1> HIDE DEF entry, slot
<1>8. new = [ring |-> [r EXCEPT ![slot] = entry],
             next |-> IF state = Gone THEN n ELSE n + 1, baselines |-> b]
  BY <1>1, <1>2
<1>9. [r EXCEPT ![slot] = entry] \in [0 .. maxParseEntities - 1 -> Entity]
  BY <1>7
<1>10. new \in ParseState
  BY <1>8, <1>9 DEF ParseState
<1>11. new.baselines = b /\ new.ring = [r EXCEPT ![slot] = entry]
       /\ new.next = IF state = Gone THEN n ELSE n + 1
  BY <1>8
<1>12. QED
  BY <1>3, <1>10, <1>11 DEF OneMore, entry, slot, state, new

\* CL_ParsePacketEntities goes through the numbers one after the other.
Start(baselines) == [ring |-> parseEntities, next |-> parseEntitiesNum, baselines |-> baselines]

IsRun(run, q, old, entities, baselines) ==
  /\ run \in [0 .. Len(q) -> ParseState]
  /\ run[0] = Start(baselines)
  /\ \A k \in 1 .. Len(q) : run[k] = CL_DeltaEntity(run[k - 1], old, entities, q[k])
  /\ run[Len(q)] = CL_ParsePacketEntities(old, entities, baselines)

LEMMA ParseRun ==
  ASSUME ClientTypes, NEW old \in SnapshotType, NEW entities \in Deltas,
         NEW baselines \in [Entities -> Nat]
  PROVE  \E run : IsRun(run, Ascending(Numbers(old, entities)), old, entities, baselines)
<1> DEFINE q == Ascending(Numbers(old, entities))
           N == Len(q)
           st == Start(baselines)
           Op(s, e) == CL_DeltaEntity(s, old, entities, e)
           Solves(f) == f = [s \in SUBSET (1 .. N) |->
                               IF s = {} THEN st ELSE Op(f[s \ {Max(s)}], q[Max(s)])]
           step == [p \in ParseState \X (1 .. N) |-> Op(p[1], q[p[2]])]
<1>1. /\ N \in Nat /\ DOMAIN q = 1 .. N /\ \A k \in 1 .. N : q[k] \in Numbers(old, entities)
      /\ q \in Seq(Numbers(old, entities))
  BY NumbersFinite, AscendingOrder
<1>2. st \in ParseState
  BY DEF Start, ParseState, ClientTypes
<1>3. \A s \in ParseState : \A k \in 1 .. N : Op(s, q[k]) \in ParseState
  BY <1>1, DeltaEntity DEF OneMore
<1> HIDE DEF q, Op, st
<1>4. step \in [ParseState \X (1 .. N) -> ParseState]
  BY <1>3
<1>5. PICK f \in [SUBSET (1 .. N) -> ParseState] :
        \A s \in SUBSET (1 .. N) :
          f[s] = IF s = {} THEN st ELSE step[<<f[s \ {Max(s)}], Max(s)>>]
  <2> HIDE DEF step, N
  <2>1. \E f : IsFold(f, N, ParseState, st, step)
    BY <1>1, <1>2, <1>4, FoldExists, Zenon
  <2>2. QED
    BY <2>1, Zenon DEF IsFold
<1>6. ASSUME NEW s \in SUBSET (1 .. N)
      PROVE  f[s] = IF s = {} THEN st ELSE Op(f[s \ {Max(s)}], q[Max(s)])
  <2>1. CASE s = {}
    BY <1>5, <2>1
  <2>2. CASE s # {}
    <3>1. Max(s) \in 1 .. N
      BY <1>1, <2>2, MaxOfBounded
    <3>2. f[s \ {Max(s)}] \in ParseState
      BY <1>5
    <3>3. step[<<f[s \ {Max(s)}], Max(s)>>] = Op(f[s \ {Max(s)}], q[Max(s)])
      BY <3>1, <3>2
    <3>4. QED
      BY <1>5, <2>2, <3>3
  <2>3. QED
    BY <2>1, <2>2
<1>7. Solves(f)
  <2>1. f = [s \in SUBSET (1 .. N) |-> f[s]]
    BY <1>5
  <2>2. QED
    BY <1>6, <2>1, Zenon
<1> DEFINE it == CHOOSE g : Solves(g)
<1>8. Solves(it)
  BY <1>7, Zenon
<1>9. CL_ParsePacketEntities(old, entities, baselines) = it[1 .. N]
  BY <1>1 DEF CL_ParsePacketEntities, Numbers, FoldLeft, MapThenFoldSet, Op, st, Start, q
<1> HIDE DEF it, N
<1>10. it[{}] = st
  BY <1>8
<1>11. ASSUME NEW k \in 1 .. N
       PROVE  it[1 .. k] = Op(it[1 .. k - 1], q[k])
  <2>1. Max(1 .. k) = k /\ (1 .. k) \ {k} = 1 .. k - 1 /\ 1 .. k # {}
    BY LastOfInterval
  <2>2. 1 .. k \in SUBSET (1 .. N)
    BY <1>1
  <2>3. QED
    BY <1>8, <2>1, <2>2, Zenon
<1> DEFINE run == [k \in 0 .. N |-> it[1 .. k]]
<1>12. run[0] = st
  <2>1. 1 .. 0 = {} /\ 0 \in 0 .. N
    BY <1>1
  <2>2. QED
    BY <1>10, <2>1, Zenon
<1>13. \A k \in 1 .. N : run[k] = Op(run[k - 1], q[k])
  BY <1>1, <1>11
<1>14. run[N] = CL_ParsePacketEntities(old, entities, baselines)
  BY <1>1, <1>9
<1>15. \A k \in 0 .. N : run[k] \in ParseState
  <2> DEFINE T == {k \in 0 .. N : run[k] \in ParseState}
  <2>1. 0 \in T
    BY <1>1, <1>2, <1>12
  <2>2. ASSUME NEW k \in 0 .. N, k \in T, k < N
        PROVE  k + 1 \in T
    <3>1. k + 1 \in 1 .. N /\ (k + 1) - 1 = k
      BY <1>1, <2>2
    <3>2. run[k + 1] = Op(run[k], q[k + 1])
      BY <1>13, <3>1
    <3> HIDE DEF run
    <3>3. QED
      BY <1>1, <1>3, <2>2, <3>1, <3>2
  <2>3. \A k \in 0 .. N : k \in T
    <3> HIDE DEF T
    <3>1. QED
      BY <1>1, <2>1, <2>2, IntervalInduction
  <2>4. QED
    BY <2>3
<1>16. run \in [0 .. N -> ParseState]
  <2>1. run = [k \in 0 .. N |-> run[k]]
    OBVIOUS
  <2> HIDE DEF run
  <2>2. QED
    BY <1>15, <2>1
<1> HIDE DEF run
<1>17. IsRun(run, q, old, entities, baselines)
  BY <1>12, <1>13, <1>14, <1>16, Zenon DEF IsRun, N, st, Op
<1>18. QED
  BY <1>17, Zenon DEF q

\* Whatever is in the message, what is in the ring and not a turn old is left alone.
Untouched(new, next) ==
  /\ next \in Nat /\ next >= parseEntitiesNum
  /\ \A x \in Int : next - maxParseEntities < x /\ x < parseEntitiesNum =>
       Entry(new, maxParseEntities, x) = Entry(parseEntities, maxParseEntities, x)

LEMMA RunUntouched ==
  ASSUME ClientTypes, NEW old \in SnapshotType, NEW entities \in Deltas,
         NEW baselines \in [Entities -> Nat],
         NEW q, q = Ascending(Numbers(old, entities)),
         NEW run, IsRun(run, q, old, entities, baselines),
         NEW k \in 0 .. Len(q)
  PROVE  Untouched(run[k].ring, run[k].next) /\ run[k].baselines = baselines
<1> DEFINE N == Len(q)
           L == maxParseEntities
           OK(i) == Untouched(run[i].ring, run[i].next) /\ run[i].baselines = baselines
           T == {i \in 0 .. N : OK(i)}
<1>1. /\ N \in Nat /\ \A i \in 1 .. N : q[i] \in Numbers(old, entities)
      /\ L \in Nat \ {0} /\ parseEntitiesNum \in Nat
  BY NumbersFinite, AscendingOrder, Sizes DEF ClientTypes
<1> HIDE DEF N
<1>2. 0 \in T
  <2>1. run[0] = Start(baselines)
    BY DEF IsRun
  <2>2. run[0].ring = parseEntities /\ run[0].next = parseEntitiesNum
        /\ run[0].baselines = baselines
    BY <2>1 DEF Start
  <2>3. OK(0)
    BY <1>1, <2>2 DEF Untouched
  <2>4. QED
    BY <1>1, <2>3
<1>3. ASSUME NEW i \in 0 .. N, i \in T, i < N
      PROVE  i + 1 \in T
  <2> DEFINE st == run[i]
             e == q[i + 1]
             new == run[i + 1]
             state == StateOf(st, old, entities, e)
  <2>1. i + 1 \in 1 .. N /\ (i + 1) - 1 = i /\ i + 1 \in 0 .. N
    BY <1>1, <1>3
  <2>2. st \in ParseState /\ new = CL_DeltaEntity(st, old, entities, e)
    BY <2>1 DEF IsRun, N
  <2>3. OneMore(st, e, state, new)
    BY <1>1, <2>1, <2>2, DeltaEntity
  <2>4. OK(i)
    BY <1>3
  <2> HIDE DEF st, e, new, state
  <2>5. /\ st.next \in Nat /\ st.ring \in [0 .. L - 1 -> Entity]
        /\ new.next \in Nat /\ new.next >= st.next /\ new.baselines = st.baselines
        /\ new.ring = [st.ring EXCEPT ![st.next % L] = [number |-> e, state |-> state]]
    BY <2>2, <2>3 DEF OneMore, ParseState
  <2>6. ASSUME NEW x \in Int, new.next - L < x, x < parseEntitiesNum
        PROVE  Entry(new.ring, L, x) = Entry(st.ring, L, x)
    <3>1. x < st.next /\ st.next < x + L /\ st.next \in Int
      BY <1>1, <2>4, <2>5, <2>6 DEF Untouched, st
    <3>2. x % L # st.next % L
      BY <1>1, <3>1, DifferentSlots
    <3>3. x % L \in 0 .. L - 1
      BY <1>1, ModRange
    <3>4. QED
      BY <2>5, <3>2, <3>3 DEF Entry
  <2>7. Untouched(st.ring, st.next) /\ st.baselines = baselines
    BY <2>4 DEF st
  <2>8. Untouched(new.ring, new.next)
    <3>1. new.next >= parseEntitiesNum
      BY <1>1, <2>5, <2>7 DEF Untouched
    <3>2. ASSUME NEW x \in Int, new.next - L < x, x < parseEntitiesNum
          PROVE  Entry(new.ring, L, x) = Entry(parseEntities, L, x)
      <4>1. st.next - L < x
        BY <1>1, <2>5, <3>2
      <4>2. QED
        BY <2>6, <2>7, <3>2, <4>1 DEF Untouched
    <3>3. QED
      BY <2>5, <3>1, <3>2 DEF Untouched
  <2>9. OK(i + 1)
    BY <2>5, <2>7, <2>8 DEF new
  <2>10. QED
    BY <2>1, <2>9
<1>4. \A i \in 0 .. N : i \in T
  <2> HIDE DEF T
  <2>1. QED
    BY <1>1, <1>2, <1>3, IntervalInduction
<1>5. QED
  BY <1>4 DEF N

-----------------------------------------------------------------------------
\* A snapshot read as the difference from the one it was written from.

\* What the server shows, or the empty view that a full snapshot is written from.
IsView(view) == /\ DOMAIN view \in SUBSET Entities
                /\ \A e \in DOMAIN view : view[e] \in Nat

LEMMA EmptyView ==
  IsView(<<>>) /\ Lists(<<>>, <<>>) /\ DOMAIN <<>> = {}
<1>1. DOMAIN <<>> = {} /\ Len(<<>>) = 0 /\ <<>> \in Seq(Entity)
  OBVIOUS
<1>2. Cardinality({}) = 0
  BY FS_EmptySet
<1>3. 0 \in 0 .. MAX_SNAPSHOT_ENTITIES
  BY Sizes
<1>4. 1 .. 0 = {}
  OBVIOUS
<1>5. Lists(<<>>, <<>>)
  BY <1>1, <1>2, <1>3, <1>4, Zenon DEF Lists
<1>6. IsView(<<>>)
  BY <1>1, Zenon DEF IsView
<1>7. QED
  BY <1>1, <1>5, <1>6

LEMMA EmitType ==
  ASSUME NEW from, IsView(from), NEW view, IsView(view)
  PROVE  /\ SV_EmitPacketEntities(from, view) \in Deltas
         /\ \A e : e \in DOMAIN SV_EmitPacketEntities(from, view) <=>
              /\ e \in DOMAIN from \/ e \in DOMAIN view
              /\ ~(e \in DOMAIN from /\ e \in DOMAIN view /\ from[e] = view[e])
         /\ \A e \in DOMAIN SV_EmitPacketEntities(from, view) :
              /\ SV_EmitPacketEntities(from, view)[e].from
                   = IF e \in DOMAIN from THEN from[e] ELSE Baseline[e]
              /\ SV_EmitPacketEntities(from, view)[e].to
                   = IF e \in DOMAIN view THEN view[e] ELSE Gone
<1> DEFINE D == {e \in DOMAIN from \cup DOMAIN view :
                   ~(e \in DOMAIN from /\ e \in DOMAIN view /\ from[e] = view[e])}
           a(e) == IF e \in DOMAIN from THEN from[e] ELSE Baseline[e]
           b(e) == IF e \in DOMAIN view THEN view[e] ELSE Gone
           f == [e \in D |-> [from |-> a(e), to |-> b(e)]]
<1>1. SV_EmitPacketEntities(from, view) = f
  BY DEF SV_EmitPacketEntities
<1>2. D \in SUBSET Entities
  BY DEF IsView
<1>3. \A e \in D : a(e) \in Int /\ b(e) \in Int
  <2>1. ASSUME NEW e \in D PROVE a(e) \in Int
    <3>1. CASE e \in DOMAIN from
      <4>1. from[e] \in Nat
        BY <3>1 DEF IsView
      <4>2. QED
        BY <3>1, <4>1
    <3>2. CASE e \notin DOMAIN from
      <4>1. e \in Entities
        BY <1>2
      <4>2. Baseline[e] \in Nat
        BY <4>1, ViewAssumption
      <4>3. QED
        BY <3>2, <4>2
    <3>3. QED
      BY <3>1, <3>2
  <2>2. ASSUME NEW e \in D PROVE b(e) \in Int
    <3>1. e \in DOMAIN view => view[e] \in Nat
      BY DEF IsView
    <3>2. QED
      BY <3>1 DEF Gone
  <2>3. QED
    BY <2>1, <2>2
<1>4. \A e : e \in D <=> /\ e \in DOMAIN from \/ e \in DOMAIN view
                         /\ ~(e \in DOMAIN from /\ e \in DOMAIN view /\ from[e] = view[e])
  OBVIOUS
<1> HIDE DEF D, a, b
<1>5. f \in [D -> [from : Int, to : Int]]
  BY <1>3
<1>6. f \in Deltas
  BY <1>2, <1>5, Zenon DEF Deltas
<1>7. DOMAIN f = D /\ \A e \in D : f[e].from = a(e) /\ f[e].to = b(e)
  OBVIOUS
<1>8. QED
  BY <1>1, <1>4, <1>6, <1>7, Zenon DEF a, b

\* The client has what the difference was computed from, in its place in the ring and
\* not too old.
Base(old, from, b) ==
  /\ Lists(b, from)
  /\ old.numEntities = Len(b)
  /\ old.parseEntitiesNum + Len(b) <= parseEntitiesNum
  /\ Len(b) # 0 => parseEntitiesNum + MAX_SNAPSHOT_ENTITIES <= old.parseEntitiesNum + maxParseEntities
  /\ \A i \in 1 .. Len(b) :
       Entry(parseEntities, maxParseEntities, old.parseEntitiesNum + i - 1) = b[i]

LEMMA BaseNumbers ==
  ASSUME ClientTypes, NEW old \in SnapshotType, NEW from, NEW b, Base(old, from, b)
  PROVE  /\ \A e : e \in Range(OldNumbers(old)) <=> e \in DOMAIN from
         /\ \A i \in 1 .. Len(b) : OldNumbers(old)[i] = b[i].number
<1> DEFINE f == OldNumbers(old)
           n == Len(b)
<1>1. f \in [1 .. n -> Nat] /\ \A i \in 1 .. n : f[i] = b[i].number
  <2>1. old.numEntities = n
    BY DEF Base
  <2>2. /\ f \in [1 .. n -> Nat]
        /\ \A i \in 1 .. n :
             f[i] = Entry(parseEntities, maxParseEntities, old.parseEntitiesNum + i - 1).number
    BY <2>1, OldNumbersType
  <2>3. \A i \in 1 .. n :
          Entry(parseEntities, maxParseEntities, old.parseEntitiesNum + i - 1) = b[i]
    BY DEF Base
  <2> HIDE DEF f, n
  <2>4. QED
    BY <2>2, <2>3
<1>2. /\ \A i \in 1 .. n : b[i].number \in DOMAIN from
      /\ \A e \in DOMAIN from : \E i \in 1 .. n : b[i].number = e
  BY Zenon DEF Base, Lists
<1> HIDE DEF f, n
<1>3. ASSUME NEW e, e \in Range(f)
      PROVE  e \in DOMAIN from
  <2>1. PICK i \in 1 .. n : e = f[i]
    BY <1>1, <1>3 DEF Range
  <2>2. QED
    BY <1>1, <1>2, <2>1
<1>4. ASSUME NEW e \in DOMAIN from
      PROVE  e \in Range(f)
  <2>1. PICK i \in 1 .. n : b[i].number = e
    BY <1>2
  <2>2. e = f[i] /\ i \in DOMAIN f
    BY <1>1, <2>1
  <2>3. QED
    BY <2>2 DEF Range
<1>5. QED
  BY <1>1, <1>3, <1>4 DEF f, n

\* An entity of the view gets its state as long as there is room, another one is gone.
LEMMA RightState ==
  ASSUME ClientTypes, NEW old \in SnapshotType, NEW from, IsView(from), NEW view, IsView(view),
         NEW b, Base(old, from, b), NEW entities, entities = SV_EmitPacketEntities(from, view),
         NEW st \in ParseState, Untouched(st.ring, st.next), st.baselines = Baseline,
         NEW e \in Numbers(old, entities)
  PROVE  /\ e \in DOMAIN view /\ st.next < parseEntitiesNum + MAX_SNAPSHOT_ENTITIES =>
              StateOf(st, old, entities, e) = view[e]
         /\ e \notin DOMAIN view => /\ StateOf(st, old, entities, e) = Gone
                                    /\ e \in DOMAIN from
<1> DEFINE L == maxParseEntities
           pen == parseEntitiesNum
<1>1. /\ e \in DOMAIN entities <=>
           /\ e \in DOMAIN from \/ e \in DOMAIN view
           /\ ~(e \in DOMAIN from /\ e \in DOMAIN view /\ from[e] = view[e])
      /\ e \in DOMAIN entities =>
           /\ entities[e].from = IF e \in DOMAIN from THEN from[e] ELSE Baseline[e]
           /\ entities[e].to = IF e \in DOMAIN view THEN view[e] ELSE Gone
  BY EmitType
<1>2. e \in DOMAIN from \/ e \in DOMAIN entities
  BY BaseNumbers DEF Numbers
<1>3. ASSUME e \in DOMAIN view, st.next < pen + MAX_SNAPSHOT_ENTITIES
      PROVE  From(st, old, e) = IF e \in DOMAIN from THEN from[e] ELSE Baseline[e]
  <2>1. CASE e \in DOMAIN from
    <3> DEFINE p == PlaceOf(old, e)
               x == old.parseEntitiesNum + p - 1
    <3>1. e \in Range(OldNumbers(old))
      BY <2>1, BaseNumbers
    <3>2. p \in 1 .. old.numEntities /\ OldNumbers(old)[p] = e
      BY <3>1, PlaceFound
    <3>3. p \in 1 .. Len(b) /\ b[p].number = e /\ Len(b) \in Nat
      <4>1. old.numEntities = Len(b) /\ Len(b) \in Nat
        BY OldNumbersType DEF Base
      <4>2. QED
        BY <3>2, <4>1, BaseNumbers
    <3>4. /\ old.parseEntitiesNum \in Nat /\ pen \in Nat /\ L \in Nat
          /\ MAX_SNAPSHOT_ENTITIES \in Nat /\ st.next \in Nat
      BY OldNumbersType, Sizes DEF ClientTypes, Untouched
    <3>5. /\ pen + MAX_SNAPSHOT_ENTITIES <= old.parseEntitiesNum + L
          /\ old.parseEntitiesNum + Len(b) <= pen
      BY <3>3 DEF Base
    <3> HIDE DEF p, L, pen
    <3>6. p > 0 /\ x \in Int /\ st.next - L < x /\ x < pen
      <4> DEFINE o == old.parseEntitiesNum
                 n == Len(b)
                 M == MAX_SNAPSHOT_ENTITIES
                 next == st.next
      <4>1. /\ o \in Nat /\ n \in Nat /\ pen \in Nat /\ L \in Nat /\ M \in Nat /\ next \in Nat
            /\ p \in 1 .. n /\ pen + M <= o + L /\ o + n <= pen /\ next < pen + M
        BY <1>3, <3>3, <3>4, <3>5
      <4> HIDE DEF o, n, M, next
      <4>2. p > 0 /\ o + p - 1 \in Int /\ next - L < o + p - 1 /\ o + p - 1 < pen
        BY <4>1
      <4>3. QED
        BY <4>2 DEF o, next
    <3> HIDE DEF x
    <3>7. Entry(st.ring, L, x) = Entry(parseEntities, L, x)
      BY <3>6 DEF Untouched, L, pen
    <3>8. Entry(parseEntities, L, x) = b[p]
      BY <3>3 DEF Base, L, x
    <3>9. b[p].state = from[e]
      <4>1. b[p] = [number |-> b[p].number, state |-> from[b[p].number]]
        BY <3>3 DEF Base, Lists
      <4>2. QED
        BY <3>3, <4>1
    <3>10. From(st, old, e) = Entry(st.ring, L, x).state
      BY <3>6 DEF From, p, x, L
    <3>11. QED
      BY <2>1, <3>7, <3>8, <3>9, <3>10
  <2>2. CASE e \notin DOMAIN from
    <3>1. e \notin Range(OldNumbers(old))
      BY <2>2, BaseNumbers
    <3>2. PlaceOf(old, e) = 0
      <4>1. PlaceOf(old, e) \in 1 .. old.numEntities /\ OldNumbers(old)[PlaceOf(old, e)] = e
            => e \in Range(OldNumbers(old))
        <5>1. DOMAIN OldNumbers(old) = 1 .. old.numEntities
          BY OldNumbersType
        <5>2. QED
          BY <5>1, Zenon DEF Range
      <4>2. QED
        BY <3>1, <4>1, PlaceFound
    <3>3. From(st, old, e) = Baseline[e]
      BY <3>2 DEF From
    <3>4. QED
      BY <2>2, <3>3
  <2>3. QED
    BY <2>1, <2>2
<1>4. ASSUME e \in DOMAIN view, st.next < pen + MAX_SNAPSHOT_ENTITIES
      PROVE  StateOf(st, old, entities, e) = view[e]
  BY <1>1, <1>3, <1>4 DEF StateOf, MSG_ReadDeltaEntity
<1>5. ASSUME e \notin DOMAIN view
      PROVE  StateOf(st, old, entities, e) = Gone /\ e \in DOMAIN from
  BY <1>1, <1>2, <1>5 DEF StateOf, MSG_ReadDeltaEntity
<1>6. QED
  BY <1>4, <1>5

\* The first c entities of the list come before what is still to be gone through, the
\* others behind what was gone through.
Passed(list, q, k, c) ==
  /\ c \in 0 .. Len(list)
  /\ \A i \in 1 .. c : \A j \in k + 1 .. Len(q) : list[i].number < q[j]
  /\ \A i \in c + 1 .. Len(list) : \A j \in 1 .. k : q[j] < list[i].number

\* The next number is that of the next entity of the view, or of none.
LEMMA NextNumber ==
  ASSUME NEW view, NEW V, Lists(V, view), NEW q \in Seq(Nat),
         \A i, j \in 1 .. Len(q) : i < j => q[i] < q[j],
         \A e \in DOMAIN view : \E j \in 1 .. Len(q) : q[j] = e,
         NEW k \in 0 .. Len(q) - 1, NEW c, Passed(V, q, k, c)
  PROVE  /\ q[k + 1] \in DOMAIN view =>
              c < Len(V) /\ V[c + 1].number = q[k + 1] /\ Passed(V, q, k + 1, c + 1)
         /\ q[k + 1] \notin DOMAIN view => Passed(V, q, k + 1, c)
<1> DEFINE n == Len(V)
           N == Len(q)
           v(i) == V[i].number
           e == q[k + 1]
<1>1. /\ n \in Nat /\ N \in Nat /\ c \in 0 .. n /\ k \in 0 .. N /\ k + 1 \in 1 .. N
      /\ \A i \in 1 .. n : v(i) \in Nat
      /\ \A i \in 1 .. N : q[i] \in Nat
  <2>1. V \in Seq(Entity)
    BY DEF Lists
  <2>2. \A i \in 1 .. n : V[i] \in Entity
    BY <2>1
  <2>3. n \in Nat /\ N \in Nat
    BY <2>1
  <2>4. c \in 0 .. n
    BY DEF Passed
  <2>5. k \in 0 .. N /\ k + 1 \in 1 .. N
    BY <2>3
  <2>6. \A i \in 1 .. n : v(i) \in Nat
    BY <2>2 DEF Entity
  <2>7. \A i \in 1 .. N : q[i] \in Nat
    OBVIOUS
  <2>8. QED
    BY <2>3, <2>4, <2>5, <2>6, <2>7
<1>2. /\ \A i \in 1 .. n : v(i) \in DOMAIN view
      /\ \A i, j \in 1 .. n : i < j => v(i) < v(j)
      /\ \A x \in DOMAIN view : \E i \in 1 .. n : v(i) = x
      /\ \A i \in 1 .. n : \E j \in 1 .. N : q[j] = v(i)
  BY Zenon DEF Lists
<1>3. /\ \A i \in 1 .. c : \A j \in k + 1 .. N : v(i) < q[j]
      /\ \A i \in c + 1 .. n : \A j \in 1 .. k : q[j] < v(i)
  BY DEF Passed
<1>4. \A i, j \in 1 .. N : i < j => q[i] < q[j]
  OBVIOUS
<1>5. ASSUME e \in DOMAIN view
      PROVE  c < n /\ v(c + 1) = e /\ Passed(V, q, k + 1, c + 1)
  <2> HIDE DEF n, N, v
  <2>1. PICK i \in 1 .. n : v(i) = e
    BY <1>2, <1>5
  <2>2. i > c
    <3>1. SUFFICES ASSUME i \in 1 .. c PROVE FALSE
      BY <1>1, <2>1
    <3>2. k + 1 \in k + 1 .. N
      BY <1>1
    <3>3. v(i) < q[k + 1] /\ v(i) \in Nat
      BY <1>1, <1>3, <3>1, <3>2
    <3>4. QED
      BY <2>1, <3>3
  <2>3. c + 1 \in 1 .. n /\ c + 1 \in c + 1 .. n
    BY <1>1, <2>1, <2>2
  <2>4. i = c + 1
    <3>1. SUFFICES ASSUME c + 1 < i PROVE FALSE
      BY <1>1, <2>1, <2>2
    <3>2. v(c + 1) < e
      BY <1>2, <2>1, <2>3, <3>1
    <3>3. PICK j \in 1 .. N : q[j] = v(c + 1)
      BY <1>2, <2>3
    <3>4. CASE j \in 1 .. k
      <4>1. q[j] < v(c + 1)
        BY <1>3, <2>3, <3>4
      <4>2. QED
        BY <1>1, <2>3, <3>3, <4>1
    <3>5. CASE j = k + 1
      BY <1>1, <2>3, <3>2, <3>3, <3>5
    <3>6. CASE k + 1 < j
      <4>1. q[k + 1] < q[j]
        BY <1>1, <1>4, <3>6
      <4>2. QED
        BY <1>1, <2>3, <3>2, <3>3, <4>1
    <3>7. QED
      BY <1>1, <3>4, <3>5, <3>6
  <2>5. ASSUME NEW x \in 1 .. c + 1, NEW j \in (k + 1) + 1 .. N
        PROVE  v(x) < q[j]
    <3>1. CASE x \in 1 .. c
      BY <1>1, <1>3, <3>1
    <3>2. CASE x = c + 1
      BY <1>1, <1>4, <2>1, <2>4, <3>2
    <3>3. QED
      BY <1>1, <3>1, <3>2
  <2>6. ASSUME NEW x \in (c + 1) + 1 .. n, NEW j \in 1 .. k + 1
        PROVE  q[j] < v(x)
    <3>1. CASE j \in 1 .. k
      BY <1>1, <1>3, <3>1
    <3>2. CASE j = k + 1
      BY <1>1, <1>2, <2>1, <2>4, <3>2
    <3>3. QED
      BY <1>1, <3>1, <3>2
  <2>7. QED
    BY <1>1, <2>1, <2>3, <2>4, <2>5, <2>6 DEF Passed, n, N, v
<1>6. ASSUME e \notin DOMAIN view
      PROVE  Passed(V, q, k + 1, c)
  <2> HIDE DEF n, N, v
  <2>1. ASSUME NEW x \in 1 .. c, NEW j \in (k + 1) + 1 .. N
        PROVE  v(x) < q[j]
    BY <1>1, <1>3
  <2>2. ASSUME NEW x \in c + 1 .. n, NEW j \in 1 .. k + 1
        PROVE  q[j] < v(x)
    <3>1. CASE j \in 1 .. k
      BY <1>1, <1>3, <3>1
    <3>2. CASE j = k + 1
      <4>1. x \in 1 .. n /\ v(x) \in DOMAIN view
        BY <1>1, <1>2
      <4>2. PICK i \in 1 .. N : q[i] = v(x)
        BY <1>2, <4>1
      <4>3. i # k + 1
        BY <1>6, <4>1, <4>2
      <4>4. ~(i \in 1 .. k)
        <5>1. SUFFICES ASSUME i \in 1 .. k PROVE FALSE
          OBVIOUS
        <5>2. q[i] < v(x)
          BY <1>3, <5>1
        <5>3. QED
          BY <1>1, <4>1, <4>2, <5>2
      <4>5. k + 1 < i
        BY <1>1, <4>3, <4>4
      <4>6. QED
        BY <1>1, <1>4, <3>2, <4>2, <4>5
    <3>3. QED
      BY <1>1, <3>1, <3>2
  <2>3. QED
    BY <1>1, <2>1, <2>2 DEF Passed, n, N, v
<1>7. QED
  BY <1>5, <1>6

\* The list stands at the end of the client's ring.
ReadAs(new, next, list) ==
  /\ next = parseEntitiesNum + Len(list)
  /\ \A i \in 1 .. Len(list) : Entry(new, maxParseEntities, parseEntitiesNum + i - 1) = list[i]

\* The first c entities of the list do.
ReadTo(st, list, c) ==
  /\ st.next = parseEntitiesNum + c
  /\ \A i \in 1 .. c : Entry(st.ring, maxParseEntities, parseEntitiesNum + i - 1) = list[i]

\* One entity more is written behind them, and stays unless it is gone.
LEMMA OneMoreRead ==
  ASSUME ClientTypes, NEW st \in ParseState, NEW e, NEW state, NEW new, OneMore(st, e, state, new),
         NEW V, NEW c \in 0 .. maxParseEntities - 1, ReadTo(st, V, c)
  PROVE  /\ state = Gone => ReadTo(new, V, c)
         /\ state # Gone /\ V[c + 1] = [number |-> e, state |-> state] => ReadTo(new, V, c + 1)
<1> DEFINE L == maxParseEntities
           pen == parseEntitiesNum
<1>1. L \in Nat \ {0} /\ pen \in Nat /\ c \in Nat /\ c < L
  BY Sizes DEF ClientTypes
<1>2. /\ st.next = pen + c
      /\ \A i \in 1 .. c : Entry(st.ring, L, pen + i - 1) = V[i]
  BY DEF ReadTo
<1>3. /\ st.ring \in [0 .. L - 1 -> Entity]
      /\ new.ring = [st.ring EXCEPT ![st.next % L] = [number |-> e, state |-> state]]
      /\ new.next = IF state = Gone THEN st.next ELSE st.next + 1
  BY DEF OneMore, ParseState
<1> HIDE DEF L, pen
<1>4. ASSUME NEW i \in 1 .. c
      PROVE  Entry(new.ring, L, pen + i - 1) = V[i]
  <2>1. pen + i - 1 \in Int /\ pen + i - 1 < st.next /\ st.next < (pen + i - 1) + L
        /\ st.next \in Int
    BY <1>1, <1>2
  <2>2. (pen + i - 1) % L # st.next % L
    BY <1>1, <2>1, DifferentSlots
  <2>3. (pen + i - 1) % L \in 0 .. L - 1
    BY <1>1, <2>1, ModRange
  <2>4. QED
    BY <1>2, <1>3, <2>2, <2>3 DEF Entry
<1>5. CASE state = Gone
  BY <1>2, <1>3, <1>4, <1>5 DEF ReadTo, L, pen
<1>6. ASSUME state # Gone, V[c + 1] = [number |-> e, state |-> state]
      PROVE  ReadTo(new, V, c + 1)
  <2>1. new.next = pen + (c + 1) /\ st.next = pen + (c + 1) - 1 /\ st.next \in Int
    BY <1>1, <1>2, <1>3, <1>6
  <2>2. st.next % L \in 0 .. L - 1
    BY <1>1, <2>1, ModRange
  <2>3. Entry(new.ring, L, pen + (c + 1) - 1) = V[c + 1]
    BY <1>3, <1>6, <2>1, <2>2 DEF Entry
  <2>4. \A i \in 1 .. c + 1 : i \in 1 .. c \/ i = c + 1
    BY <1>1
  <2>5. QED
    BY <1>4, <2>1, <2>3, <2>4 DEF ReadTo, L, pen
<1>7. QED
  BY <1>5, <1>6

\* What is read is the view.
LEMMA ParsedRight ==
  ASSUME ClientTypes, NEW old \in SnapshotType, NEW from, IsView(from), NEW view, IsView(view),
         NEW b, Base(old, from, b), NEW entities, entities = SV_EmitPacketEntities(from, view),
         NEW V, Lists(V, view), NEW parsed,
         parsed = CL_ParsePacketEntities(old, entities, Baseline)
  PROVE  ReadAs(parsed.ring, parsed.next, V)
<1> DEFINE q == Ascending(Numbers(old, entities))
           N == Len(q)
           n == Len(V)
           L == maxParseEntities
           M == MAX_SNAPSHOT_ENTITIES
<1>1. entities \in Deltas /\ Baseline \in [Entities -> Nat]
  BY EmitType, ViewAssumption
<1>2. PICK run : IsRun(run, q, old, entities, Baseline)
  BY <1>1, ParseRun, Zenon
<1>3. /\ N \in Nat /\ q \in Seq(Nat) /\ \A k \in 1 .. N : q[k] \in Numbers(old, entities)
      /\ \A i, j \in 1 .. N : i < j => q[i] < q[j]
      /\ \A x \in Numbers(old, entities) : \E i \in 1 .. N : q[i] = x
  <2>1. Numbers(old, entities) \in SUBSET Nat /\ IsFiniteSet(Numbers(old, entities))
    BY <1>1, NumbersFinite
  <2> DEFINE S == Numbers(old, entities)
  <2>2. /\ q \in Seq(S) /\ q \in [1 .. N -> S] /\ N \in Nat
        /\ \A i, j \in 1 .. N : i < j => q[i] < q[j]
        /\ \A x \in S : \E i \in 1 .. N : q[i] = x
    BY <2>1, AscendingOrder
  <2> HIDE DEF q, S, N
  <2>3. q \in Seq(Nat) /\ \A k \in 1 .. N : q[k] \in S
    BY <2>1, <2>2 DEF S
  <2>4. QED
    BY <2>2, <2>3 DEF S
<1>4. \A e \in DOMAIN view : e \in Numbers(old, entities)
  BY EmitType, BaseNumbers DEF Numbers
<1>5. \A e \in DOMAIN view : \E j \in 1 .. N : q[j] = e
  BY <1>3, <1>4
<1>6. n \in 0 .. M /\ n \in Nat /\ M \in Nat /\ L \in Nat \ {0} /\ M <= L /\ parseEntitiesNum \in Nat
      /\ (DOMAIN from # {} => M < L)
  <2>1. n \in 0 .. M /\ M \in Nat /\ L \in Nat \ {0} /\ M <= L /\ parseEntitiesNum \in Nat
    BY Sizes DEF Lists, ClientTypes
  <2>2. ASSUME DOMAIN from # {} PROVE M < L
    <3>1. b \in Seq(Entity) /\ \A e \in DOMAIN from : \E i \in 1 .. Len(b) : b[i].number = e
      BY Zenon DEF Base, Lists
    <3>2. Len(b) \in Nat /\ Len(b) # 0
      BY <2>2, <3>1
    <3>3. /\ old.parseEntitiesNum + Len(b) <= parseEntitiesNum
          /\ parseEntitiesNum + M <= old.parseEntitiesNum + L
      BY <3>2 DEF Base
    <3>4. old.parseEntitiesNum \in Nat
      BY OldNumbersType
    <3> DEFINE o == old.parseEntitiesNum
               l == Len(b)
    <3> HIDE DEF o, l, M, L
    <3>5. o \in Nat /\ l \in Nat /\ l # 0 /\ o + l <= parseEntitiesNum
          /\ parseEntitiesNum + M <= o + L
      BY <3>2, <3>3, <3>4 DEF o, l
    <3>6. QED
      BY <2>1, <3>5
  <2>3. QED
    BY <2>1, <2>2
<1> HIDE DEF N, q, n, M, L
<1> DEFINE Right(k) == \E c \in 0 .. n : Passed(V, q, k, c) /\ ReadTo(run[k], V, c)
           T == {k \in 0 .. N : Right(k)}
<1>7. 0 \in T
  <2>1. run[0] = Start(Baseline)
    BY <1>2 DEF IsRun
  <2>2. run[0].next = parseEntitiesNum
    BY <2>1 DEF Start
  <2>3. 1 .. 0 = {} /\ 0 \in 0 .. n /\ 0 \in 0 .. N /\ parseEntitiesNum + 0 = parseEntitiesNum
    BY <1>3, <1>6
  <2>4. ReadTo(run[0], V, 0)
    BY <2>2, <2>3, Zenon DEF ReadTo
  <2>5. Passed(V, q, 0, 0)
    BY <2>3, Zenon DEF Passed, n
  <2>6. QED
    BY <2>3, <2>4, <2>5
<1>8. ASSUME NEW k \in 0 .. N, k \in T, k < N
      PROVE  k + 1 \in T
  <2> DEFINE e == q[k + 1]
             st == run[k]
             new == run[k + 1]
             state == StateOf(st, old, entities, e)
  <2>1. k + 1 \in 1 .. N /\ (k + 1) - 1 = k /\ k + 1 \in 0 .. N /\ k \in 0 .. N - 1
    BY <1>3, <1>8
  <2>2. PICK c \in 0 .. n : Passed(V, q, k, c) /\ ReadTo(st, V, c)
    BY <1>8
  <2>3. st \in ParseState /\ new = CL_DeltaEntity(st, old, entities, e)
    BY <1>2, <2>1 DEF IsRun, N
  <2>4. e \in Numbers(old, entities)
    BY <1>3, <2>1
  <2>5. OneMore(st, e, state, new)
    BY <1>1, <2>3, <2>4, DeltaEntity
  <2>6. Untouched(st.ring, st.next) /\ st.baselines = Baseline
    BY <1>1, <1>2, <2>1, RunUntouched DEF N, q
  <2>7. /\ e \in DOMAIN view /\ st.next < parseEntitiesNum + M => state = view[e]
        /\ e \notin DOMAIN view => state = Gone /\ e \in DOMAIN from
    BY <2>3, <2>4, <2>6, RightState DEF M
  <2>8. st.next = parseEntitiesNum + c
    BY <2>2 DEF ReadTo
  <2>9. /\ e \in DOMAIN view =>
             c < n /\ V[c + 1].number = e /\ Passed(V, q, k + 1, c + 1)
        /\ e \notin DOMAIN view => Passed(V, q, k + 1, c)
    BY <1>3, <1>5, <2>1, <2>2, NextNumber DEF N, n
  <2> HIDE DEF e, st, new, state
  <2>10. CASE e \in DOMAIN view
    <3>1. /\ c < n /\ V[c + 1].number = e /\ c + 1 \in 0 .. n /\ c + 1 \in 1 .. n
          /\ c \in 0 .. L - 1 /\ st.next < parseEntitiesNum + M
      BY <1>6, <2>8, <2>9, <2>10
    <3>2. state = view[e] /\ view[e] \in Nat
      BY <2>7, <2>10, <3>1 DEF IsView
    <3>3. V[c + 1] = [number |-> V[c + 1].number, state |-> view[V[c + 1].number]]
      BY <3>1 DEF Lists, n
    <3>4. state # Gone /\ V[c + 1] = [number |-> e, state |-> state]
      BY <3>1, <3>2, <3>3 DEF Gone
    <3>5. ReadTo(new, V, c + 1)
      BY <2>2, <2>3, <2>5, <3>1, <3>4, OneMoreRead DEF L
    <3>6. QED
      BY <2>1, <2>9, <2>10, <3>1, <3>5 DEF new
  <2>11. CASE e \notin DOMAIN view
    <3>1. c \in 0 .. L - 1
      BY <1>6, <2>7, <2>11
    <3>2. ReadTo(new, V, c)
      BY <2>2, <2>3, <2>5, <2>7, <2>11, <3>1, OneMoreRead DEF L
    <3>3. QED
      BY <2>1, <2>9, <2>11, <3>2 DEF new
  <2>12. QED
    BY <2>10, <2>11
<1>9. \A k \in 0 .. N : k \in T
  <2> HIDE DEF T
  <2>1. QED
    BY <1>3, <1>7, <1>8, IntervalInduction
<1>10. PICK c \in 0 .. n : Passed(V, q, N, c) /\ ReadTo(run[N], V, c)
  BY <1>3, <1>9
<1>11. c = n
  <2>1. SUFFICES ASSUME c < n PROVE FALSE
    BY <1>6
  <2>2. n \in c + 1 .. n /\ n \in 1 .. n
    BY <1>6, <2>1
  <2>3. V[n].number \in DOMAIN view
    BY <2>2 DEF Lists, n
  <2>4. PICK j \in 1 .. N : q[j] = V[n].number
    BY <1>5, <2>3
  <2>5. q[j] < V[n].number /\ q[j] \in Nat
    <3>1. \A i \in c + 1 .. n : \A k \in 1 .. N : q[k] < V[i].number
      BY <1>10, Zenon DEF Passed, n
    <3>2. QED
      BY <1>3, <2>2, <3>1 DEF N
  <2>6. QED
    BY <2>4, <2>5
<1>12. run[N] = parsed
  BY <1>2 DEF IsRun, N
<1>13. ReadTo(parsed, V, n)
  BY <1>10, <1>11, <1>12
<1>14. QED
  BY <1>13 DEF ReadTo, ReadAs, n

-----------------------------------------------------------------------------
\* The messages under way.

LEMMA MessageNumbered ==
  ASSUME NEW m \in Message, NEW n \in Nat
  PROVE  /\ [m EXCEPT !.num = n] \in Message /\ [m EXCEPT !.num = n].num = n
         /\ [m EXCEPT !.num = n].snapshot = m.snapshot
         /\ [m EXCEPT !.num = n].baselines = m.baselines
         /\ [m EXCEPT !.num = n].lastframe = m.lastframe
         /\ [m EXCEPT !.num = n].entities = m.entities
         /\ [m EXCEPT !.num = n].built = m.built
BY DEF Message

LEMMA PathType ==
  ASSUME Types
  PROVE  /\ Path \in Seq(Message) /\ Upcoming \in Nat
         /\ Len(Path) = Len(toClient) + Len(backlog)
         /\ \A k \in 1 .. Len(toClient) : Path[k] = toClient[k]
<1>1. /\ toClient \in Seq(Message) /\ backlog \in Seq(Message) /\ Len(backlog) <= 1
      /\ outgoingSequence \in Nat
  BY DEF Types, ServerTypes
<1>2. CASE backlog = <<>>
  BY <1>1, <1>2 DEF Path, Upcoming
<1>3. CASE backlog # <<>>
  <2> DEFINE m == [backlog[1] EXCEPT !.num = outgoingSequence]
  <2>1. backlog[1] \in Message /\ Len(backlog) = 1
    <3>1. Len(backlog) \in Nat /\ Len(backlog) # 0
      BY <1>1, <1>3
    <3>2. \A l \in Nat : l <= 1 /\ l # 0 => l = 1
      OBVIOUS
    <3>3. Len(backlog) = 1
      BY <1>1, <3>1, <3>2, Zenon
    <3>4. QED
      BY <1>1, <3>3
  <2>2. m \in Message
    BY <1>1, <2>1, MessageNumbered
  <2>3. Path = Append(toClient, m)
    BY <1>3 DEF Path
  <2> HIDE DEF m
  <2>4. QED
    BY <1>1, <2>1, <2>2, <2>3 DEF Upcoming
<1>4. QED
  BY <1>2, <1>3

\* The frames that messages up to now were written from are still theirs.
FramesKept ==
  \A n \in Nat : \A b \in Seq(Entity) : n < Upcoming /\ FrameHolds(n, b) => FrameHolds(n, b)'

\* Then, as long as the client does nothing, what was said of the messages stays true.
LEMMA ClientSame ==
  ASSUME IInv, UNCHANGED cl, FramesKept
  PROVE  /\ SnapshotsPlaced' /\ SnapshotsKept'
         /\ \A m \in Message : m.num < Upcoming /\ Sound(m) => Sound(m)'
<1>1. UNCHANGED <<serverMessageSequence, snap, snapshots, parseEntities, parseEntitiesNum,
                  entityBaselines>>
  BY DEF cl
<1>2. SnapshotsKept'
  BY <1>1 DEF IInv, SnapshotsKept, Kept, Lost
<1>3. ASSUME NEW i \in Packets
      PROVE  Placed(i)'
  <2> DEFINE s == snapshots[i]
  <2>1. SUFFICES ASSUME s.valid PROVE Placed(i)'
    BY <1>1 DEF Placed
  <2>2. /\ s.messageNum \in 1 .. snap.messageNum /\ s.messageNum % PACKET_BACKUP = i
        /\ \E view \in Views : s.built = Sorted(view)
        /\ FrameHolds(s.messageNum, s.built)
    BY <2>1 DEF IInv, SnapshotsPlaced, Placed
  <2>3. s.messageNum \in Nat /\ s.built \in Seq(Entity) /\ s.messageNum < Upcoming
    <3>1. /\ s \in SnapshotType /\ snap \in SnapshotType /\ serverMessageSequence \in Nat
          /\ outgoingSequence \in Nat /\ Upcoming \in Nat /\ Len(backlog) \in Nat
      BY PathType DEF IInv, Types, ClientTypes, ServerTypes
    <3>2. s.messageNum \in Nat /\ s.built \in Seq(Entity) /\ snap.messageNum \in Nat
      BY <3>1 DEF SnapshotType
    <3>3. snap.messageNum <= serverMessageSequence /\ serverMessageSequence < outgoingSequence
      BY DEF IInv, Numbered
    <3> HIDE DEF s
    <3>4. QED
      BY <2>2, <3>1, <3>2, <3>3 DEF Upcoming
  <2>4. FrameHolds(s.messageNum, s.built)'
    <3> DEFINE n == s.messageNum
               b == s.built
    <3>1. n' = n /\ b' = b
      BY <1>1
    <3>2. \A x, y : x = n /\ y = b => FrameHolds(x, y)'
      BY <2>2, <2>3 DEF FramesKept
    <3>3. QED
      BY <1>1, <3>1, <3>2
  <2>5. QED
    BY <1>1, <2>2, <2>4 DEF Placed
<1>4. ASSUME NEW m \in Message, m.num < Upcoming, Sound(m)
      PROVE  Sound(m)'
  <2>1. m.num \in Nat /\ m.built \in Seq(Entity)
    BY DEF Message
  <2>2. m.snapshot => FrameHolds(m.num, m.built)'
    BY <1>4, <2>1 DEF FramesKept, Sound
  <2>3. \A view : Difference(m, view)' <=> Difference(m, view)
    BY <1>1 DEF Difference, Holds
  <2>4. QED
    BY <1>4, <2>2, <2>3 DEF Sound
<1>5. QED
  BY <1>1, <1>2, <1>3, <1>4 DEF IInv, SnapshotsPlaced

LEMMA PathShorter ==
  ASSUME Types, toClient # <<>>, toClient' = Tail(toClient), UNCHANGED <<backlog, outgoingSequence>>
  PROVE  /\ toClient' \in Seq(Message) /\ Upcoming' = Upcoming
         /\ 1 \in 1 .. Len(Path) /\ Head(toClient) = Path[1]
         /\ \A k \in 1 .. Len(Path') : k + 1 \in 1 .. Len(Path) /\ Path'[k] = Path[k + 1]
<1>1. /\ toClient \in Seq(Message) /\ backlog \in Seq(Message) /\ outgoingSequence \in Nat
      /\ Len(backlog) <= 1
  BY DEF Types, ServerTypes
<1>2. Len(toClient) \in Nat /\ Len(toClient) >= 1 /\ Head(toClient) = toClient[1]
  <2>1. Len(toClient) \in Nat /\ Len(toClient) # 0
    BY <1>1
  <2>2. QED
    BY <1>1, <2>1
<1>3. Upcoming' = Upcoming
  BY DEF Upcoming
<1>4. /\ Tail(toClient) \in Seq(Message) /\ Len(Tail(toClient)) = Len(toClient) - 1
      /\ \A k \in 1 .. Len(Tail(toClient)) : Tail(toClient)[k] = toClient[k + 1]
  BY <1>1, <1>2
<1>5. 1 \in 1 .. Len(Path) /\ Head(toClient) = Path[1]
  BY <1>1, <1>2, PathType
<1>6. CASE backlog = <<>>
  BY <1>1, <1>2, <1>3, <1>4, <1>5, <1>6 DEF Path
<1>7. CASE backlog # <<>>
  <2> DEFINE m == [backlog[1] EXCEPT !.num = outgoingSequence]
             t == Tail(toClient)
  <2>1. m \in Message
    <3>1. backlog[1] \in Message
      BY <1>1, <1>7
    <3>2. QED
      BY <1>1, <3>1, MessageNumbered
  <2>2. Path = Append(toClient, m) /\ Path' = Append(t, m)
    BY <1>7 DEF Path
  <2> HIDE DEF m, t
  <2>3. /\ t \in Seq(Message) /\ Len(t) = Len(toClient) - 1
        /\ \A k \in 1 .. Len(t) : t[k] = toClient[k + 1]
    BY <1>4 DEF t
  <2>4. /\ Len(Append(t, m)) = Len(toClient) /\ Len(Append(toClient, m)) = Len(toClient) + 1
        /\ Append(t, m)[Len(toClient)] = m /\ Append(toClient, m)[Len(toClient) + 1] = m
        /\ \A k \in 1 .. Len(toClient) - 1 : Append(t, m)[k] = t[k]
        /\ \A k \in 1 .. Len(toClient) : Append(toClient, m)[k] = toClient[k]
    BY <1>1, <1>2, <2>1, <2>3
  <2>5. ASSUME NEW k \in 1 .. Len(toClient)
        PROVE  k + 1 \in 1 .. Len(toClient) + 1 /\ Append(t, m)[k] = Append(toClient, m)[k + 1]
    <3>1. CASE k = Len(toClient)
      BY <1>2, <2>4, <3>1
    <3>2. CASE k # Len(toClient)
      <4>1. k \in 1 .. Len(toClient) - 1 /\ k + 1 \in 1 .. Len(toClient)
        BY <1>2, <3>2
      <4>2. QED
        BY <1>2, <2>3, <2>4, <4>1
    <3>3. QED
      BY <3>1, <3>2
  <2>6. QED
    BY <1>3, <1>4, <1>5, <2>2, <2>4, <2>5
<1>8. QED
  BY <1>6, <1>7

\* A message that is sent, at once or behind the backlog, is the last one under way.
LEMMA PathLonger ==
  ASSUME Types, ~Unsent, NEW m \in Message, Transmit(m)
  PROVE  /\ Path' = Append(Path, [m EXCEPT !.num = Upcoming]) /\ Upcoming' = Upcoming + 1
         /\ outgoingSequence <= outgoingSequence' /\ outgoingSequence' \in Nat
         /\ Upcoming = outgoingSequence
         /\ toClient' \in Seq(Message) /\ backlog' \in Seq(Message) /\ Len(backlog') <= 1
<1>1. /\ toClient \in Seq(Message) /\ backlog = <<>> /\ outgoingSequence \in Nat
      /\ Len(backlog) = 0 /\ Path = toClient /\ Upcoming = outgoingSequence
  BY DEF Types, ServerTypes, Unsent, Path, Upcoming
<1> DEFINE sent == [m EXCEPT !.num = outgoingSequence]
<1>2. sent \in Message
  BY <1>1, MessageNumbered
<1>3. CASE /\ toClient' = Append(toClient, sent)
           /\ outgoingSequence' = outgoingSequence + 1
           /\ UNCHANGED backlog
  <2> HIDE DEF sent
  <2>1. Append(toClient, sent) \in Seq(Message)
    BY <1>1, <1>2
  <2>2. Path' = Append(Path, sent) /\ Upcoming' = Upcoming + 1
    BY <1>1, <1>3 DEF Path, Upcoming
  <2>3. QED
    BY <1>1, <1>3, <2>1, <2>2 DEF sent
<1>4. CASE /\ backlog' = Append(backlog, m)
           /\ UNCHANGED <<toClient, outgoingSequence>>
  <2>1. backlog' = <<m>> /\ Len(<<m>>) = 1 /\ <<m>> # <<>> /\ <<m>>[1] = m /\ <<m>> \in Seq(Message)
    BY <1>1, <1>4
  <2>2. Path' = Append(Path, sent)
    BY <1>1, <1>4, <2>1 DEF Path
  <2>3. Upcoming' = Upcoming + 1
    BY <1>1, <1>4, <2>1 DEF Upcoming
  <2>4. QED
    BY <1>1, <1>4, <2>1, <2>2, <2>3
<1>5. QED
  BY <1>3, <1>4 DEF Transmit

-----------------------------------------------------------------------------
\* Every step but the sending and the reading of a snapshot leaves what the client holds
\* and adds nothing to what it will get.

LEMMA QuietStep ==
  ASSUME IInv, UNCHANGED <<cl, needBaseline>>, FramesKept, active => active',
         Upcoming' = Upcoming, outgoingSequence' \in Nat, outgoingSequence <= outgoingSequence',
         NEW d \in 0 .. 1,
         \A k \in 1 .. Len(Path') : k + d \in 1 .. Len(Path) /\ Path'[k] = Path[k + d]
  PROVE  Numbered' /\ SnapshotsPlaced' /\ SnapshotsKept' /\ PathSound' /\ BaselinesFirst'
<1>1. UNCHANGED <<serverMessageSequence, snap, snapshots, parseEntities, parseEntitiesNum,
                  entityBaselines>>
  BY DEF cl
<1>2. /\ SnapshotsPlaced' /\ SnapshotsKept'
      /\ \A m \in Message : m.num < Upcoming /\ Sound(m) => Sound(m)'
  BY ClientSame
<1>3. /\ Path \in Seq(Message) /\ outgoingSequence \in Nat /\ serverMessageSequence \in Nat
      /\ \A k \in 1 .. Len(Path) : Path[k] \in Message
  BY PathType DEF IInv, Types, ServerTypes, ClientTypes
<1>4. \A k \in 1 .. Len(Path) : /\ serverMessageSequence < Path[k].num /\ Path[k].num < Upcoming
                                /\ \A j \in 1 .. k - 1 : Path[j].num < Path[k].num
  BY DEF IInv, Numbered
<1>5. \A k \in 1 .. Len(Path') : \A j \in 1 .. k - 1 :
        /\ j \in 1 .. Len(Path') /\ j + d \in 1 .. (k + d) - 1
        /\ Path'[j] = Path[j + d]
  <2>1. ASSUME NEW k \in 1 .. Len(Path'), NEW j \in 1 .. k - 1
        PROVE  /\ j \in 1 .. Len(Path') /\ j + d \in 1 .. (k + d) - 1
               /\ Path'[j] = Path[j + d]
    <3>1. k \in Int /\ k <= Len(Path')
      <4>1. k \in 1 .. Len(Path')
        OBVIOUS
      <4>2. k + d \in 1 .. Len(Path)
        OBVIOUS
      <4>3. QED
        BY <4>1, <4>2
    <3>2. j \in 1 .. Len(Path') /\ j + d \in 1 .. (k + d) - 1
      BY <3>1
    <3>3. QED
      BY <3>2
  <2>2. QED
    BY <2>1
<1>6. Numbered'
  <2>1. snap.messageNum <= serverMessageSequence /\ serverMessageSequence < outgoingSequence
    BY DEF IInv, Numbered
  <2>2. serverMessageSequence < outgoingSequence'
    BY <1>3, <2>1
  <2>3. ASSUME NEW k \in 1 .. Len(Path')
        PROVE  /\ serverMessageSequence < Path'[k].num /\ Path'[k].num < Upcoming
               /\ \A j \in 1 .. k - 1 : Path'[j].num < Path'[k].num
    BY <1>4, <1>5
  <2>4. QED
    BY <1>1, <2>1, <2>2, <2>3 DEF Numbered
<1>7. PathSound'
  <2>1. ASSUME NEW k \in 1 .. Len(Path')
        PROVE  \E m : m = Path'[k] /\ Sound(m)'
    <3>1. k + d \in 1 .. Len(Path) /\ Path'[k] = Path[k + d]
      OBVIOUS
    <3>2. PICK m \in Message : m = Path[k + d]
      BY <1>3, <3>1
    <3>3. Sound(m) /\ m.num < Upcoming
      BY <1>4, <3>1, <3>2 DEF IInv, PathSound
    <3>4. QED
      BY <1>2, <3>1, <3>2, <3>3
  <2>2. ASSUME NEW k \in 1 .. Len(Path')
        PROVE  Sound(Path[k])'
    <3>1. PICK m : m = Path'[k] /\ Sound(m)'
      BY <2>1
    <3>2. QED
      BY <3>1
  <2>3. QED
    BY <2>2 DEF PathSound
<1>8. BaselinesFirst'
  <2>1. ~active' => needBaseline'
    BY DEF IInv, BaselinesFirst
  <2>2. needBaseline' => /\ \A k \in 1 .. Len(Path') : ~Path'[k].snapshot
                         /\ \A i \in Packets : ~snapshots[i].valid
    BY DEF IInv, BaselinesFirst
  <2>3. ASSUME NEW k \in 1 .. Len(Path'), Path'[k].baselines
        PROVE  /\ Path'[k].snapshot
               /\ \A j \in 1 .. k - 1 : ~Path'[j].snapshot
               /\ \A i \in Packets : ~snapshots[i].valid
    <3>1. k + d \in 1 .. Len(Path) /\ Path'[k] = Path[k + d]
      OBVIOUS
    <3>2. /\ Path[k + d].snapshot /\ \A i \in Packets : ~snapshots[i].valid
          /\ \A j \in 1 .. (k + d) - 1 : ~Path[j].snapshot
      BY <2>3, <3>1 DEF IInv, BaselinesFirst
    <3>3. QED
      BY <1>5, <3>1, <3>2
  <2>4. QED
    BY <1>1, <2>1, <2>2, <2>3 DEF BaselinesFirst
<1>9. QED
  BY <1>2, <1>6, <1>7, <1>8

LEMMA FramesSame ==
  ASSUME Upcoming' = Upcoming, UNCHANGED <<frames, ring>>
  PROVE  FramesKept
BY DEF FramesKept, FrameHolds, FrameIs, ring

\* The path as it was: no message was taken from it.
LEMMA PathSame ==
  ASSUME Types, Path' = Path
  PROVE  \A k \in 1 .. Len(Path') : k + 0 \in 1 .. Len(Path) /\ Path'[k] = Path[k + 0]
<1>1. ASSUME NEW k \in 1 .. Len(Path')
      PROVE  k + 0 = k /\ k \in 1 .. Len(Path) /\ Path'[k] = Path[k]
  OBVIOUS
<1>2. QED
  BY <1>1

\* What was acknowledged is, as long as the client does nothing.
LEMMA AcknowledgedSame ==
  ASSUME UNCHANGED cl
  PROVE  \A n : Acknowledged(n)' <=> Acknowledged(n)
BY DEF Acknowledged, Holds, cl

LEMMA TailOf ==
  ASSUME NEW S, NEW q \in Seq(S), q # <<>>
  PROVE  /\ Tail(q) \in Seq(S) /\ Head(q) = q[1] /\ 1 \in 1 .. Len(q)
         /\ \A k \in 1 .. Len(Tail(q)) : k + 1 \in 1 .. Len(q) /\ Tail(q)[k] = q[k + 1]
<1>1. Len(q) \in Nat /\ Len(q) # 0
  OBVIOUS
<1>2. QED
  BY <1>1

\* Of the acknowledgements under way none is added.
LEMMA ServerAhead ==
  ASSUME IInv, UNCHANGED <<cl, deltaMessage>>,
         toServer' = toServer \/ (toServer # <<>> /\ toServer' = Tail(toServer))
  PROVE  AcknowledgedHeld' /\ toServer' \in Seq(Acknowledgement)
<1>1. toServer \in Seq(Acknowledgement) /\ serverMessageSequence' = serverMessageSequence
  BY DEF IInv, Types, cl
<1>2. \A n : Acknowledged(n)' <=> Acknowledged(n)
  BY AcknowledgedSame
<1>3. /\ deltaMessage = -1 \/ Acknowledged(deltaMessage)
      /\ \A k \in 1 .. Len(toServer) :
           /\ toServer[k].messageAcknowledge <= serverMessageSequence
           /\ toServer[k].delta => Acknowledged(toServer[k].messageAcknowledge)
  BY DEF IInv, AcknowledgedHeld
<1>4. toServer' \in Seq(Acknowledgement)
      /\ \A k \in 1 .. Len(toServer') :
           /\ toServer'[k].messageAcknowledge <= serverMessageSequence
           /\ toServer'[k].delta => Acknowledged(toServer'[k].messageAcknowledge)
  <2>1. CASE toServer' = toServer
    BY <1>1, <1>3, <2>1
  <2>2. CASE toServer # <<>> /\ toServer' = Tail(toServer)
    BY <1>1, <1>3, <2>2, TailOf
  <2>3. QED
    BY <2>1, <2>2
<1>5. (deltaMessage = -1 \/ Acknowledged(deltaMessage))'
  <2>1. deltaMessage = -1 \/ \E n : n = deltaMessage /\ Acknowledged(n)'
    BY <1>2, <1>3
  <2>2. QED
    BY <2>1
<1>6. ASSUME NEW k \in 1 .. Len(toServer'), toServer'[k].delta
      PROVE  Acknowledged(toServer[k].messageAcknowledge)'
  <2>1. PICK n : n = toServer'[k].messageAcknowledge /\ Acknowledged(n)'
    BY <1>2, <1>4, <1>6
  <2>2. QED
    BY <2>1
<1>7. QED
  BY <1>1, <1>4, <1>5, <1>6 DEF AcknowledgedHeld

LEMMA LoseStep ==
  ASSUME IInv, Lose
  PROVE  IInv'
<1>1. /\ UNCHANGED <<active, needBaseline, deltaMessage, outgoingSequence, backlog, frames, ring, cl>>
      /\ outgoingSequence \in Nat /\ Types
  BY DEF Lose, client, IInv, Types, ServerTypes
<1>2. UNCHANGED <<snapshotEntities, nextSnapshotEntities, serverMessageSequence, snap, snapshots,
                  parseEntities, parseEntitiesNum, entityBaselines>>
  BY <1>1 DEF ring, cl
<1>3. ServerTypes' /\ ClientTypes'
  BY <1>1, <1>2 DEF Types, ServerTypes, ClientTypes
<1>4. toServer' = toServer \/ (toServer # <<>> /\ toServer' = Tail(toServer))
  BY DEF Lose
<1>5. AcknowledgedHeld' /\ toServer' \in Seq(Acknowledgement)
  BY <1>1, <1>4, ServerAhead
<1>6. CASE toClient # <<>> /\ toClient' = Tail(toClient)
  <2>1. /\ toClient' \in Seq(Message) /\ Upcoming' = Upcoming
        /\ \A k \in 1 .. Len(Path') : k + 1 \in 1 .. Len(Path) /\ Path'[k] = Path[k + 1]
    BY <1>1, <1>6, PathShorter
  <2>2. FramesKept
    BY <1>1, <2>1, FramesSame
  <2>3. 1 \in 0 .. 1 /\ outgoingSequence' \in Nat /\ outgoingSequence <= outgoingSequence'
    BY <1>1
  <2>4. Numbered' /\ SnapshotsPlaced' /\ SnapshotsKept' /\ PathSound' /\ BaselinesFirst'
    BY <1>1, <2>1, <2>2, <2>3, QuietStep
  <2>5. QED
    BY <1>3, <1>5, <2>1, <2>4 DEF IInv, Types
<1>7. CASE toClient' = toClient
  <2>1. Path' = Path /\ Upcoming' = Upcoming
    BY <1>1, <1>7 DEF Path, Upcoming
  <2>2. FramesKept
    BY <1>1, <2>1, FramesSame
  <2>3. 0 \in 0 .. 1 /\ outgoingSequence' \in Nat /\ outgoingSequence <= outgoingSequence'
    BY <1>1
  <2>4. \A k \in 1 .. Len(Path') : k + 0 \in 1 .. Len(Path) /\ Path'[k] = Path[k + 0]
    BY <1>1, <2>1, PathSame
  <2>5. Numbered' /\ SnapshotsPlaced' /\ SnapshotsKept' /\ PathSound' /\ BaselinesFirst'
    BY <1>1, <2>1, <2>2, <2>3, <2>4, QuietStep
  <2>6. QED
    BY <1>1, <1>3, <1>5, <1>7, <2>5 DEF IInv, Types
<1>8. QED
  BY <1>6, <1>7 DEF Lose

LEMMA FragmentStep ==
  ASSUME IInv, SV_Netchan_TransmitNextFragment
  PROVE  IInv'
<1>1. /\ UNCHANGED <<active, needBaseline, deltaMessage, frames, ring, cl, toServer>>
      /\ backlog # <<>> /\ backlog' = Tail(backlog) /\ outgoingSequence' = outgoingSequence + 1
      /\ toClient' = Append(toClient, [Head(backlog) EXCEPT !.num = outgoingSequence])
      /\ outgoingSequence \in Nat /\ backlog \in Seq(Message) /\ Len(backlog) <= 1 /\ Types
  BY DEF SV_Netchan_TransmitNextFragment, client, IInv, Types, ServerTypes
<1>2. UNCHANGED <<snapshotEntities, nextSnapshotEntities, serverMessageSequence, snap, snapshots,
                  parseEntities, parseEntitiesNum, entityBaselines>>
  BY <1>1 DEF ring, cl
<1>3. Len(backlog) = 1 /\ backlog' = <<>> /\ Head(backlog) = backlog[1]
  <2>1. Len(backlog) \in Nat /\ Len(backlog) # 0
    BY <1>1
  <2>2. \A l \in Nat : l <= 1 /\ l # 0 => l = 1
    OBVIOUS
  <2>3. Len(backlog) = 1
    BY <1>1, <2>1, <2>2, Zenon
  <2>4. QED
    BY <1>1, <2>3
<1>4. Path' = Path /\ toClient' = Path
  BY <1>1, <1>3 DEF Path
<1>5. Upcoming' = Upcoming
  <2>1. Len(backlog') = 0
    BY <1>3
  <2>2. QED
    BY <1>1, <1>3, <2>1 DEF Upcoming
<1>6. toClient' \in Seq(Message)
  BY <1>1, <1>4, PathType
<1>7. ServerTypes' /\ ClientTypes' /\ toServer' \in Seq(Acknowledgement)
  <2>1. backlog' \in Seq(Message) /\ Len(backlog') <= 1 /\ outgoingSequence' \in Nat
    BY <1>1, <1>3
  <2>2. QED
    BY <1>1, <1>2, <2>1 DEF Types, ServerTypes, ClientTypes
<1>8. FramesKept
  BY <1>1, <1>5, FramesSame
<1>9. 0 \in 0 .. 1 /\ outgoingSequence' \in Nat /\ outgoingSequence <= outgoingSequence'
  BY <1>1
<1>10. \A k \in 1 .. Len(Path') : k + 0 \in 1 .. Len(Path) /\ Path'[k] = Path[k + 0]
  BY <1>1, <1>4, PathSame
<1>11. Numbered' /\ SnapshotsPlaced' /\ SnapshotsKept' /\ PathSound' /\ BaselinesFirst'
  BY <1>1, <1>5, <1>8, <1>9, <1>10, QuietStep
<1>12. AcknowledgedHeld'
  BY <1>1, ServerAhead
<1>13. QED
  BY <1>6, <1>7, <1>11, <1>12 DEF IInv, Types

LEMMA UserMoveStep ==
  ASSUME IInv, SV_UserMove
  PROVE  IInv'
<1>1. /\ UNCHANGED <<needBaseline, outgoingSequence, backlog, frames, ring, toClient, cl>>
      /\ toServer # <<>> /\ toServer' = Tail(toServer) /\ active' = TRUE
      /\ deltaMessage' = IF active /\ Head(toServer).delta
                         THEN Head(toServer).messageAcknowledge ELSE -1
      /\ toServer \in Seq(Acknowledgement) /\ outgoingSequence \in Nat /\ Types
  BY DEF SV_UserMove, IInv, Types, ServerTypes
<1>2. UNCHANGED <<snapshotEntities, nextSnapshotEntities, serverMessageSequence, snap, snapshots,
                  parseEntities, parseEntitiesNum, entityBaselines>>
  BY <1>1 DEF ring, cl
<1>3. Path' = Path /\ Upcoming' = Upcoming
  BY <1>1 DEF Path, Upcoming
<1>4. FramesKept
  BY <1>1, <1>3, FramesSame
<1>5. 0 \in 0 .. 1 /\ outgoingSequence' \in Nat /\ outgoingSequence <= outgoingSequence'
  BY <1>1
<1>6. \A k \in 1 .. Len(Path') : k + 0 \in 1 .. Len(Path) /\ Path'[k] = Path[k + 0]
  BY <1>1, <1>3, PathSame
<1>7. Numbered' /\ SnapshotsPlaced' /\ SnapshotsKept' /\ PathSound' /\ BaselinesFirst'
  BY <1>1, <1>3, <1>4, <1>5, <1>6, QuietStep
<1>8. /\ toServer' \in Seq(Acknowledgement) /\ Head(toServer) = toServer[1] /\ 1 \in 1 .. Len(toServer)
      /\ \A k \in 1 .. Len(toServer') : k + 1 \in 1 .. Len(toServer) /\ toServer'[k] = toServer[k + 1]
  BY <1>1, TailOf
<1>9. \A n : Acknowledged(n)' <=> Acknowledged(n)
  BY <1>1, AcknowledgedSame
<1>10. \A k \in 1 .. Len(toServer) :
         /\ toServer[k].messageAcknowledge <= serverMessageSequence
         /\ toServer[k].delta => Acknowledged(toServer[k].messageAcknowledge)
  BY DEF IInv, AcknowledgedHeld
<1>11. deltaMessage' \in Int /\ (deltaMessage' # -1 => Acknowledged(deltaMessage)')
  <2>1. CASE active /\ Head(toServer).delta
    <3>1. PICK n : n = deltaMessage' /\ n = toServer[1].messageAcknowledge
      BY <1>1, <1>8, <2>1
    <3>2. toServer[1] \in Acknowledgement
      BY <1>1, <1>8
    <3>3. n \in Int /\ Acknowledged(n)
      BY <1>8, <1>10, <2>1, <3>1, <3>2 DEF Acknowledgement
    <3>4. QED
      BY <1>9, <3>1, <3>3
  <2>2. CASE ~(active /\ Head(toServer).delta)
    BY <1>1, <2>2
  <2>3. QED
    BY <2>1, <2>2
<1>12. ASSUME NEW k \in 1 .. Len(toServer')
       PROVE  /\ toServer'[k].messageAcknowledge <= serverMessageSequence'
              /\ toServer'[k].delta => Acknowledged(toServer[k].messageAcknowledge)'
  <2>1. PICK n : n = toServer'[k].messageAcknowledge
    OBVIOUS
  <2>2. n <= serverMessageSequence /\ (toServer'[k].delta => Acknowledged(n))
    BY <1>8, <1>10, <2>1
  <2>3. QED
    BY <1>2, <1>9, <2>1, <2>2
<1>13. AcknowledgedHeld'
  BY <1>11, <1>12 DEF AcknowledgedHeld
<1>14. ServerTypes' /\ ClientTypes' /\ toClient' \in Seq(Message)
  BY <1>1, <1>2, <1>11 DEF Types, ServerTypes, ClientTypes
<1>15. QED
  BY <1>7, <1>8, <1>13, <1>14 DEF IInv, Types

LEMMA WritePacketStep ==
  ASSUME IInv, CL_WritePacket
  PROVE  IInv'
<1>1. PICK delta \in {MayDelta, FALSE} :
        toServer' = Append(toServer, [messageAcknowledge |-> serverMessageSequence,
                                      delta |-> delta])
  BY DEF CL_WritePacket
<1> DEFINE a == [messageAcknowledge |-> serverMessageSequence, delta |-> delta]
<1>2. /\ UNCHANGED <<active, needBaseline, deltaMessage, outgoingSequence, backlog, frames, ring,
                     toClient, cl>>
      /\ toServer \in Seq(Acknowledgement) /\ outgoingSequence \in Nat /\ Types
      /\ snap \in SnapshotType /\ serverMessageSequence \in Nat
  BY DEF CL_WritePacket, client, IInv, Types, ServerTypes, ClientTypes
<1>3. UNCHANGED <<snapshotEntities, nextSnapshotEntities, serverMessageSequence, snap, snapshots,
                  parseEntities, parseEntitiesNum, entityBaselines>>
  BY <1>2 DEF ring, cl
<1>4. Path' = Path /\ Upcoming' = Upcoming
  BY <1>2 DEF Path, Upcoming
<1>5. FramesKept
  BY <1>2, <1>4, FramesSame
<1>6. 0 \in 0 .. 1 /\ outgoingSequence' \in Nat /\ outgoingSequence <= outgoingSequence'
  BY <1>2
<1>7. \A k \in 1 .. Len(Path') : k + 0 \in 1 .. Len(Path) /\ Path'[k] = Path[k + 0]
  BY <1>2, <1>4, PathSame
<1>8. Numbered' /\ SnapshotsPlaced' /\ SnapshotsKept' /\ PathSound' /\ BaselinesFirst'
  BY <1>2, <1>4, <1>5, <1>6, <1>7, QuietStep
<1>9. delta \in BOOLEAN
  BY DEF MayDelta, IInv, Types, ClientTypes, SnapshotType
<1>10. a \in Acknowledgement /\ a.messageAcknowledge = serverMessageSequence /\ a.delta = delta
  BY <1>2, <1>9 DEF Acknowledgement
<1>11. delta => Acknowledged(serverMessageSequence)
  <2>1. SUFFICES ASSUME MayDelta PROVE Acknowledged(serverMessageSequence)
    OBVIOUS
  <2>2. snap.valid /\ serverMessageSequence = snap.messageNum
    BY <2>1 DEF MayDelta
  <2>3. snap.messageNum > 0 /\ snapshots[snap.messageNum % PACKET_BACKUP] = snap
    BY <2>2 DEF IInv, SnapshotsPlaced
  <2>4. serverMessageSequence \in 1 .. snap.messageNum
    BY <1>2, <2>2, <2>3
  <2>5. Holds(serverMessageSequence)
    BY <2>2, <2>3 DEF Holds
  <2>6. QED
    BY <2>4, <2>5 DEF Acknowledged
<1>12. \A n : Acknowledged(n)' <=> Acknowledged(n)
  BY <1>2, AcknowledgedSame
<1> HIDE DEF a
<1>13. /\ toServer' \in Seq(Acknowledgement)
       /\ \A k \in 1 .. Len(toServer') : \/ k \in 1 .. Len(toServer) /\ toServer'[k] = toServer[k]
                                         \/ toServer'[k] = a
  BY <1>1, <1>2, <1>10, OneMoreMessage DEF a
<1>14. AcknowledgedHeld'
  <2>1. /\ deltaMessage = -1 \/ Acknowledged(deltaMessage)
        /\ \A k \in 1 .. Len(toServer) :
             /\ toServer[k].messageAcknowledge <= serverMessageSequence
             /\ toServer[k].delta => Acknowledged(toServer[k].messageAcknowledge)
    BY DEF IInv, AcknowledgedHeld
  <2>2. (deltaMessage = -1 \/ Acknowledged(deltaMessage))'
    <3>1. PICK n : n = deltaMessage
      OBVIOUS
    <3>2. QED
      BY <1>2, <1>12, <2>1, <3>1
  <2>3. ASSUME NEW k \in 1 .. Len(toServer')
        PROVE  /\ toServer'[k].messageAcknowledge <= serverMessageSequence'
               /\ toServer'[k].delta => Acknowledged(toServer[k].messageAcknowledge)'
    <3>1. PICK n : n = toServer'[k].messageAcknowledge
      OBVIOUS
    <3>2. n <= serverMessageSequence /\ (toServer'[k].delta => Acknowledged(n))
      <4>1. CASE k \in 1 .. Len(toServer) /\ toServer'[k] = toServer[k]
        BY <2>1, <3>1, <4>1
      <4>2. CASE toServer'[k] = a
        BY <1>2, <1>10, <1>11, <3>1, <4>2
      <4>3. QED
        BY <1>13, <4>1, <4>2
    <3>3. QED
      BY <1>3, <1>12, <3>1, <3>2
  <2>4. QED
    BY <2>2, <2>3 DEF AcknowledgedHeld
<1>15. ServerTypes' /\ ClientTypes' /\ toClient' \in Seq(Message)
  BY <1>2, <1>3 DEF Types, ServerTypes, ClientTypes
<1>16. QED
  BY <1>8, <1>13, <1>14, <1>15 DEF IInv, Types

\* A view is copied out: the frames that were built before stay what they were.
LEMMA ViewCopied ==
  ASSUME ServerTypes, NEW view \in Views, CopyOut(Sorted(view)),
         NEW n, n = Cardinality(DOMAIN view)
  PROVE  /\ n \in 0 .. MAX_SNAPSHOT_ENTITIES /\ Len(Sorted(view)) = n
         /\ Copied(Sorted(view), FirstEntity(n))
         /\ FirstEntity(n) \in Nat /\ nextSnapshotEntities' = FirstEntity(n) + n
         /\ FramesLowered(n) \in [Packets -> FrameType]
         /\ \A i \in Packets :
              FramesLowered(n)[i].first_entity + FramesLowered(n)[i].num_entities
                <= nextSnapshotEntities'
         /\ \A i \in Packets : \A b \in Seq(Entity) :
              FrameIs(frames[i], snapshotEntities, nextSnapshotEntities, b) =>
                FrameIs(FramesLowered(n)[i], snapshotEntities', nextSnapshotEntities', b)
<1> DEFINE c == Sorted(view)
           g(i) == FramesLowered(n)[i]
<1>1. c \in Seq(Entity) /\ Len(c) = n /\ n \in 0 .. MAX_SNAPSHOT_ENTITIES
  BY SortedLists DEF Lists
<1>2. Copied(c, FirstEntity(n))
  BY <1>1, CopiedOut
<1>3. FirstEntity(n) \in Nat /\ nextSnapshotEntities' = FirstEntity(n) + n
  <2>1. nextSnapshotEntities \in 0 .. WRAP - 1
    BY DEF ServerTypes
  <2>2. FirstEntity(n) \in Nat
    BY <1>1, <2>1, FirstEntityRange
  <2>3. nextSnapshotEntities' = FirstEntity(n) + n
    BY <1>1, <1>2 DEF Copied
  <2>4. QED
    BY <2>2, <2>3
<1> HIDE DEF c
<1>4. ASSUME NEW i \in Packets
      PROVE  StillThere(frames[i], g(i), FirstEntity(n))
  BY <1>1, LoweredFrame
<1>5. ASSUME NEW i \in Packets
      PROVE  g(i) \in FrameType /\ g(i).first_entity + g(i).num_entities <= nextSnapshotEntities'
  <2> DEFINE f == g(i).first_entity
             m == g(i).num_entities
  <2>1. g(i) \in FrameType /\ f + m <= FirstEntity(n) /\ f \in Nat /\ m \in 0 .. MAX_SNAPSHOT_ENTITIES
    BY <1>4 DEF StillThere, FrameType
  <2>2. n \in Nat /\ m \in Nat
    BY <1>1, <2>1, Sizes
  <2> HIDE DEF g, f, m
  <2>3. f + m <= nextSnapshotEntities'
    BY <1>3, <2>1, <2>2
  <2>4. QED
    BY <2>1, <2>3 DEF f, m
<1>6. FramesLowered(n) = [i \in Packets |-> g(i)]
  <2>1. frames \in [Packets -> FrameType]
    BY DEF ServerTypes
  <2>2. CASE MustLower(n)
    BY <2>2 DEF FramesLowered
  <2>3. CASE ~MustLower(n)
    BY <2>1, <2>3 DEF FramesLowered
  <2>4. QED
    BY <2>2, <2>3
<1>7. FramesLowered(n) \in [Packets -> FrameType]
  <2> HIDE DEF g
  <2>1. [i \in Packets |-> g(i)] \in [Packets -> FrameType]
    BY <1>5
  <2>2. QED
    BY <1>6, <2>1
<1>8. ASSUME NEW i \in Packets, NEW b \in Seq(Entity),
             FrameIs(frames[i], snapshotEntities, nextSnapshotEntities, b)
      PROVE  FrameIs(g(i), snapshotEntities', nextSnapshotEntities', b)
  BY <1>1, <1>2, <1>8, FrameStays
<1>9. QED
  BY <1>1, <1>2, <1>3, <1>5, <1>7, <1>8 DEF c

LEMMA OtherClientStep ==
  ASSUME IInv, OtherClient
  PROVE  IInv'
<1>1. PICK view \in Views : /\ CopyOut(Sorted(view))
                            /\ frames' = FramesLowered(Cardinality(DOMAIN view))
  BY DEF OtherClient
<1> DEFINE n == Cardinality(DOMAIN view)
<1>2. /\ UNCHANGED <<active, needBaseline, deltaMessage, outgoingSequence, backlog,
                     toClient, toServer, cl>>
      /\ Types /\ ServerTypes /\ ClientTypes /\ outgoingSequence \in Nat
  BY DEF OtherClient, client, IInv, Types, ServerTypes
<1>3. UNCHANGED <<serverMessageSequence, snap, snapshots,
                  parseEntities, parseEntitiesNum, entityBaselines>>
  BY <1>2 DEF cl
<1>4. /\ Copied(Sorted(view), FirstEntity(n)) /\ frames' \in [Packets -> FrameType]
      /\ \A i \in Packets : frames'[i].first_entity + frames'[i].num_entities
                              <= nextSnapshotEntities'
      /\ \A i \in Packets : \A b \in Seq(Entity) :
           FrameIs(frames[i], snapshotEntities, nextSnapshotEntities, b) =>
             FrameIs(frames'[i], snapshotEntities', nextSnapshotEntities', b)
  BY <1>1, <1>2, ViewCopied
<1>5. /\ nextSnapshotEntities' \in 0 .. WRAP - 1
      /\ snapshotEntities' \in [0 .. numSnapshotEntities - 1 -> Entity]
  BY <1>4 DEF Copied
<1>6. ServerTypes' /\ ClientTypes' /\ toClient' \in Seq(Message)
  BY <1>2, <1>3, <1>4, <1>5 DEF Types, ServerTypes, ClientTypes
<1>7. Path' = Path /\ Upcoming' = Upcoming
  BY <1>2 DEF Path, Upcoming
<1>8. FramesKept
  <2>1. ASSUME NEW x \in Nat, NEW b \in Seq(Entity), FrameHolds(x, b)
        PROVE  FrameHolds(x, b)'
    <3>1. x % PACKET_BACKUP \in Packets
      BY Sizes, ModRange DEF Packets
    <3>2. QED
      BY <1>4, <1>7, <2>1, <3>1 DEF FrameHolds
  <2>2. QED
    BY <2>1 DEF FramesKept
<1>9. 0 \in 0 .. 1 /\ outgoingSequence' \in Nat /\ outgoingSequence <= outgoingSequence'
  BY <1>2
<1>10. \A k \in 1 .. Len(Path') : k + 0 \in 1 .. Len(Path) /\ Path'[k] = Path[k + 0]
  BY <1>2, <1>7, PathSame
<1>11. Numbered' /\ SnapshotsPlaced' /\ SnapshotsKept' /\ PathSound' /\ BaselinesFirst'
  BY <1>2, <1>7, <1>8, <1>9, <1>10, QuietStep
<1>12. AcknowledgedHeld' /\ toServer' \in Seq(Acknowledgement)
  BY <1>2, ServerAhead
<1>13. QED
  BY <1>6, <1>11, <1>12 DEF IInv, Types

-----------------------------------------------------------------------------
\* The server builds a snapshot and writes it.

LEMMA FramesBuilt ==
  ASSUME Types, NEW view \in Views, SV_BuildClientSnapshot(view),
         Upcoming = outgoingSequence, Upcoming' = Upcoming + 1
  PROVE  /\ frames' \in [Packets -> FrameType]
         /\ snapshotEntities' \in [0 .. numSnapshotEntities - 1 -> Entity]
         /\ nextSnapshotEntities' \in 0 .. WRAP - 1
         /\ \A i \in Packets : frames'[i].first_entity + frames'[i].num_entities
                                 <= nextSnapshotEntities'
         /\ FramesKept
         /\ \A x : x = outgoingSequence => FrameHolds(x, Sorted(view))'
<1> DEFINE n == Cardinality(DOMAIN view)
           new == [first_entity |-> FirstEntity(n), num_entities |-> n]
           slot == outgoingSequence % PACKET_BACKUP
           low == FramesLowered(n)
<1>1. CopyOut(Sorted(view)) /\ frames' = [low EXCEPT ![slot] = new]
  BY DEF SV_BuildClientSnapshot
<1>2. /\ n \in 0 .. MAX_SNAPSHOT_ENTITIES /\ Len(Sorted(view)) = n
      /\ Copied(Sorted(view), FirstEntity(n))
      /\ FirstEntity(n) \in Nat /\ nextSnapshotEntities' = FirstEntity(n) + n
      /\ low \in [Packets -> FrameType]
      /\ \A i \in Packets : low[i].first_entity + low[i].num_entities <= nextSnapshotEntities'
      /\ \A i \in Packets : \A b \in Seq(Entity) :
           FrameIs(frames[i], snapshotEntities, nextSnapshotEntities, b) =>
             FrameIs(low[i], snapshotEntities', nextSnapshotEntities', b)
  BY <1>1, ViewCopied DEF Types
<1>3. /\ snapshotEntities' \in [0 .. numSnapshotEntities - 1 -> Entity]
      /\ nextSnapshotEntities' \in 0 .. WRAP - 1
  BY <1>2 DEF Copied
<1>4. outgoingSequence \in Nat /\ PACKET_BACKUP \in Nat \ {0}
  BY Sizes DEF Types, ServerTypes
<1>5. slot \in Packets
  BY <1>4, ModRange DEF Packets
<1>6. new \in FrameType /\ new.first_entity = FirstEntity(n) /\ new.num_entities = n
  BY <1>2 DEF FrameType
<1>7. FrameIs(new, snapshotEntities', nextSnapshotEntities', Sorted(view))
  BY <1>2, <1>6, FrameBuilt
<1> HIDE DEF n, new, slot, low
<1>8. /\ frames' \in [Packets -> FrameType] /\ frames'[slot] = new
      /\ \A i \in Packets : i # slot => frames'[i] = low[i]
  BY <1>1, <1>2, <1>5, <1>6
<1>9. \A i \in Packets : frames'[i].first_entity + frames'[i].num_entities
                           <= nextSnapshotEntities'
  <2>1. nextSnapshotEntities' = new.first_entity + new.num_entities
    BY <1>2, <1>6
  <2>2. new.first_entity + new.num_entities <= nextSnapshotEntities'
    BY <1>2, <1>3, <2>1
  <2>3. QED
    BY <1>2, <1>8, <2>2
<1>10. FramesKept
  <2>1. ASSUME NEW x \in Nat, NEW b \in Seq(Entity), x < Upcoming, FrameHolds(x, b),
               Upcoming' <= x + PACKET_BACKUP
        PROVE  FrameIs(frames'[x % PACKET_BACKUP], snapshotEntities', nextSnapshotEntities', b)
    <3>1. x < outgoingSequence /\ outgoingSequence < x + PACKET_BACKUP
          /\ Upcoming <= x + PACKET_BACKUP
      BY <1>4, <2>1
    <3>2. x % PACKET_BACKUP # slot
      <4>1. x \in Int /\ outgoingSequence \in Int /\ PACKET_BACKUP \in Nat \ {0}
        BY <1>4
      <4>2. x % PACKET_BACKUP # outgoingSequence % PACKET_BACKUP
        BY <3>1, <4>1, DifferentSlots, Zenon
      <4>3. QED
        BY <4>2 DEF slot
    <3>3. x % PACKET_BACKUP \in Packets
      BY <1>4, ModRange DEF Packets
    <3>4. FrameIs(frames[x % PACKET_BACKUP], snapshotEntities, nextSnapshotEntities, b)
      BY <2>1, <3>1 DEF FrameHolds
    <3>5. QED
      BY <1>2, <1>8, <3>2, <3>3, <3>4
  <2>2. QED
    BY <2>1 DEF FramesKept, FrameHolds
<1>11. ASSUME NEW x, x = outgoingSequence
       PROVE  FrameHolds(x, Sorted(view))'
  BY <1>7, <1>8, <1>11 DEF FrameHolds, slot
<1>12. QED
  BY <1>3, <1>8, <1>9, <1>10, <1>11

\* A snapshot that is the difference from an older one: the client holds that one, and
\* its frame has not been overwritten.
LEMMA DeltaFrame ==
  ASSUME IInv, FramesKept, Upcoming = outgoingSequence, Upcoming' = Upcoming + 1,
         frames' \in [Packets -> FrameType], nextSnapshotEntities' \in Int, CanDelta
  PROVE  /\ deltaMessage \in Nat /\ outgoingSequence - deltaMessage \in 1 .. PACKET_BACKUP - 1
         /\ outgoingSequence - deltaMessage < outgoingSequence
         /\ Holds(deltaMessage)
         /\ Shown(OldFrame) \in Views
         /\ snapshots[deltaMessage % PACKET_BACKUP].built = Sorted(Shown(OldFrame))
<1> DEFINE i == deltaMessage % PACKET_BACKUP
           s == snapshots[i]
<1>1. /\ outgoingSequence \in Nat /\ deltaMessage \in Int /\ serverMessageSequence \in Nat
      /\ snap.messageNum \in Nat /\ PACKET_BACKUP \in Nat /\ PACKET_BACKUP > 3
      /\ snap.messageNum <= serverMessageSequence /\ serverMessageSequence < outgoingSequence
  BY Sizes DEF IInv, Types, ServerTypes, ClientTypes, SnapshotType, Numbered
<1>2. /\ deltaMessage > 0 /\ ~(outgoingSequence - deltaMessage >= PACKET_BACKUP - 3)
      /\ ~RolledOff(OldFrame) /\ OldFrame = frames'[i]
  BY DEF CanDelta, OutOfDate, OldFrame
<1>3. Acknowledged(deltaMessage)
  BY <1>1, <1>2 DEF IInv, AcknowledgedHeld
<1>4. deltaMessage \in 1 .. snap.messageNum /\ Holds(deltaMessage)
  BY <1>1, <1>2, <1>3 DEF Acknowledged
<1>5. i \in Packets
  BY <1>1, Sizes, ModRange DEF Packets
<1>6. s.valid /\ s.messageNum = deltaMessage
  BY <1>4 DEF Holds
<1>7. FrameHolds(deltaMessage, s.built) /\ \E view \in Views : s.built = Sorted(view)
  BY <1>5, <1>6 DEF IInv, SnapshotsPlaced, Placed
<1>8. PICK from \in Views : s.built = Sorted(from)
  BY <1>7
<1>9. Lists(s.built, from) /\ s.built \in Seq(Entity)
  <2>1. Lists(Sorted(from), from)
    BY SortedLists
  <2>2. QED
    BY <1>8, <2>1 DEF Lists
<1>10. FrameIs(frames'[i], snapshotEntities', nextSnapshotEntities', s.built)
  <2>1. deltaMessage \in Nat /\ deltaMessage < Upcoming
        /\ Upcoming' <= deltaMessage + PACKET_BACKUP
    BY <1>1, <1>2, <1>4
  <2>2. \A n, b : n = deltaMessage /\ b = s.built => FrameHolds(n, b)'
    BY <1>7, <1>9, <2>1 DEF FramesKept
  <2>3. PICK n, b : n = deltaMessage /\ b = s.built
    OBVIOUS
  <2>4. FrameHolds(n, b)'
    BY <2>2, <2>3
  <2>5. FrameIs(frames'[n % PACKET_BACKUP], snapshotEntities', nextSnapshotEntities', b)
    BY <2>1, <2>3, <2>4 DEF FrameHolds
  <2>6. QED
    BY <2>3, <2>5
<1>11. Shown(OldFrame) = from
  <2>1. frames'[i] \in FrameType
    BY <1>5
  <2>2. PICK f \in FrameType : f = frames'[i]
    BY <2>1
  <2>3. ~RolledOff(f) /\ FrameIs(f, snapshotEntities', nextSnapshotEntities', s.built)
    BY <1>2, <1>10, <2>2
  <2>4. Shown(f) = from
    BY <1>9, <2>3, ShownView
  <2>5. QED
    BY <1>2, <2>2, <2>4
<1>12. QED
  BY <1>1, <1>2, <1>4, <1>8, <1>11

LEMMA EmptyDeltas == <<>> \in Deltas
<1>1. <<>> \in [{} -> [from : Int, to : Int]]
  OBVIOUS
<1>2. QED
  BY <1>1, Zenon DEF Deltas

LEMMA SnapshotWritten ==
  ASSUME IInv, UNCHANGED cl, FramesKept, Upcoming = outgoingSequence, Upcoming' = Upcoming + 1,
         frames' \in [Packets -> FrameType], nextSnapshotEntities' \in Int, NEW view \in Views,
         \A x : x = outgoingSequence => FrameHolds(x, Sorted(view))',
         NEW m, m = SV_WriteSnapshotToClient(view),
         NEW sent, sent = [m EXCEPT !.num = outgoingSequence]
  PROVE  m \in Message /\ m.snapshot /\ m.baselines = needBaseline /\ Sound(sent)'
<1> DEFINE from == IF CanDelta THEN Shown(OldFrame) ELSE <<>>
           frame == IF CanDelta THEN outgoingSequence - deltaMessage ELSE 0
           entities == SV_EmitPacketEntities(from, view)
<1>1. CanDelta => /\ deltaMessage \in Nat
                  /\ outgoingSequence - deltaMessage \in 1 .. PACKET_BACKUP - 1
                  /\ outgoingSequence - deltaMessage < outgoingSequence
                  /\ Holds(deltaMessage)
                  /\ Shown(OldFrame) \in Views
                  /\ snapshots[deltaMessage % PACKET_BACKUP].built = Sorted(Shown(OldFrame))
  BY DeltaFrame
<1>2. /\ outgoingSequence \in Nat /\ needBaseline \in BOOLEAN /\ deltaMessage \in Int
      /\ PACKET_BACKUP \in Nat
  BY Sizes DEF IInv, Types, ServerTypes
<1>3. IsView(view) /\ IsView(from)
  <2>1. \A v \in Views : IsView(v)
    BY ViewType DEF IsView
  <2>2. QED
    BY <1>1, <2>1, EmptyView
<1>4. Sorted(view) \in Seq(Entity)
  BY SortedLists DEF Lists
<1> HIDE DEF from
<1>5. entities \in Deltas
  BY <1>3, EmitType
<1>6. m = [num |-> 0, snapshot |-> TRUE, baselines |-> needBaseline, lastframe |-> frame,
           entities |-> entities, built |-> Sorted(view)]
  BY DEF SV_WriteSnapshotToClient, from
<1>7. frame \in Nat
  BY <1>1
<1> HIDE DEF frame, entities
<1>8. m \in Message
  BY <1>2, <1>4, <1>5, <1>6, <1>7 DEF Message
<1>9. /\ m.snapshot /\ m.baselines = needBaseline /\ m.lastframe = frame
      /\ m.entities = entities /\ m.built = Sorted(view)
  BY <1>6
<1>10. /\ sent.num = outgoingSequence /\ sent.snapshot /\ sent.lastframe = frame
       /\ sent.entities = entities /\ sent.built = Sorted(view)
  BY <1>2, <1>8, <1>9, MessageNumbered
<1>11. Difference(sent, view)
  <2>1. CASE CanDelta
    <3>1. outgoingSequence - frame = deltaMessage
      BY <1>1, <1>2, <2>1 DEF frame
    <3>2. /\ sent.lastframe \in 1 .. PACKET_BACKUP - 1 /\ sent.lastframe < sent.num
          /\ sent.num - sent.lastframe = deltaMessage
      BY <1>1, <1>10, <2>1, <3>1 DEF frame
    <3>3. sent.entities = SV_EmitPacketEntities(Shown(OldFrame), view)
      BY <1>10, <2>1 DEF entities, from
    <3>4. QED
      BY <1>1, <2>1, <3>2, <3>3 DEF Difference
  <2>2. CASE ~CanDelta
    BY <1>10, <2>2 DEF Difference, frame, entities, from
  <2>3. QED
    BY <2>1, <2>2
<1>12. Difference(sent, view)'
  BY <1>11 DEF Difference, Holds, cl
<1>13. FrameHolds(sent.num, sent.built)'
  BY <1>10
<1>14. Sound(sent)'
  BY <1>10, <1>12, <1>13 DEF Sound
<1>15. QED
  BY <1>8, <1>9, <1>14

LEMMA SendStep ==
  ASSUME IInv, SV_SendClientSnapshot
  PROVE  IInv'
<1>1. PICK view \in Views :
        /\ SV_BuildClientSnapshot(view)
        /\ \/ /\ active
              /\ Transmit(SV_WriteSnapshotToClient(view))
              /\ needBaseline' = FALSE
           \/ /\ ~active
              /\ Transmit(NothingYet)
              /\ needBaseline' = TRUE
  BY DEF SV_SendClientSnapshot
<1>2. PICK m : /\ Transmit(m) /\ m = IF active THEN SV_WriteSnapshotToClient(view) ELSE NothingYet
               /\ needBaseline' = ~active
  BY <1>1
<1>3. /\ UNCHANGED <<active, deltaMessage, toServer, cl>> /\ ~Unsent /\ Types
      /\ ServerTypes /\ ClientTypes /\ outgoingSequence \in Nat /\ active \in BOOLEAN
      /\ needBaseline \in BOOLEAN /\ serverMessageSequence \in Nat
  BY DEF SV_SendClientSnapshot, IInv, Types, ServerTypes, ClientTypes
<1>4. UNCHANGED <<serverMessageSequence, snap, snapshots, parseEntities, parseEntitiesNum,
                  entityBaselines>>
  BY <1>3 DEF cl
<1>5. Upcoming = outgoingSequence /\ Upcoming' = Upcoming + 1
  <2>1. backlog = <<>>
    BY <1>3 DEF Unsent
  <2>2. Upcoming = outgoingSequence
    BY <1>3, <2>1 DEF Upcoming
  <2>3. Upcoming' = outgoingSequence + 1
    <3>1. CASE outgoingSequence' = outgoingSequence + 1 /\ UNCHANGED backlog
      BY <1>3, <2>1, <3>1 DEF Upcoming
    <3>2. CASE backlog' = Append(backlog, m) /\ UNCHANGED outgoingSequence
      <4>1. Len(backlog') = 1
        BY <2>1, <3>2
      <4>2. QED
        BY <1>3, <3>2, <4>1 DEF Upcoming
    <3>3. QED
      BY <1>2, <3>1, <3>2 DEF Transmit
  <2>4. QED
    BY <2>2, <2>3
<1>6. /\ frames' \in [Packets -> FrameType]
      /\ snapshotEntities' \in [0 .. numSnapshotEntities - 1 -> Entity]
      /\ nextSnapshotEntities' \in 0 .. WRAP - 1 /\ nextSnapshotEntities' \in Int
      /\ \A i \in Packets : frames'[i].first_entity + frames'[i].num_entities
                              <= nextSnapshotEntities'
      /\ FramesKept
      /\ \A x : x = outgoingSequence => FrameHolds(x, Sorted(view))'
  BY <1>1, <1>3, <1>5, FramesBuilt
<1> DEFINE sent == [m EXCEPT !.num = Upcoming]
<1>7. /\ m \in Message /\ m.snapshot = active /\ (m.baselines => active /\ needBaseline)
      /\ \A x : x = sent => Sound(x)'
  <2>1. CASE active
    <3>1. m = SV_WriteSnapshotToClient(view)
      BY <1>2, <2>1
    <3>2. ASSUME NEW x, x = sent
          PROVE  m \in Message /\ m.snapshot /\ m.baselines = needBaseline /\ Sound(x)'
      <4>1. x = [m EXCEPT !.num = outgoingSequence]
        BY <1>5, <3>2
      <4>2. QED
        BY <1>3, <1>5, <1>6, <3>1, <4>1, SnapshotWritten
    <3>3. PICK x : x = sent
      OBVIOUS
    <3>4. m \in Message /\ m.snapshot /\ m.baselines = needBaseline
      BY <3>2, <3>3
    <3>5. m.snapshot = active
      <4>1. m.snapshot \in BOOLEAN
        BY <3>4 DEF Message
      <4>2. QED
        BY <2>1, <3>4, <4>1
    <3>6. \A y : y = sent => Sound(y)'
      BY <3>2
    <3>7. QED
      BY <1>3, <2>1, <3>4, <3>5, <3>6
  <2>2. CASE ~active
    <3>1. m = NothingYet
      BY <1>2, <2>2
    <3>2. /\ m \in Message /\ m.snapshot = FALSE /\ ~m.baselines /\ m.lastframe = 0
      BY <3>1, EmptyDeltas DEF NothingYet, Message
    <3>3. ~sent.snapshot /\ sent.lastframe = 0
      BY <1>3, <1>5, <3>2, MessageNumbered
    <3>4. \A x : x = sent => Sound(x)'
      BY <3>3 DEF Sound
    <3>5. m.snapshot = active /\ (m.baselines => active /\ needBaseline)
      BY <1>3, <2>2, <3>2
    <3>6. QED
      BY <3>2, <3>4, <3>5
  <2>3. QED
    BY <2>1, <2>2
<1>8. /\ sent \in Message /\ sent.num = Upcoming /\ sent.snapshot = m.snapshot
      /\ sent.baselines = m.baselines
  BY <1>3, <1>5, <1>7, MessageNumbered
<1>9. /\ Path' = Append(Path, sent) /\ outgoingSequence <= outgoingSequence'
      /\ outgoingSequence' \in Nat /\ toClient' \in Seq(Message) /\ backlog' \in Seq(Message)
      /\ Len(backlog') <= 1
  BY <1>2, <1>3, <1>7, PathLonger
<1> HIDE DEF sent
<1>10. Path \in Seq(Message) /\ Len(Path) \in Nat
  BY <1>3, PathType
<1>11. /\ Len(Path') = Len(Path) + 1 /\ Path'[Len(Path) + 1] = sent
       /\ \A k \in 1 .. Len(Path) : Path'[k] = Path[k] /\ Path[k] \in Message
       /\ \A k \in 1 .. Len(Path') : k \in 1 .. Len(Path) \/ k = Len(Path) + 1
       /\ \A k \in 1 .. Len(Path') : \A j \in 1 .. k - 1 : j \in 1 .. Len(Path)
  BY <1>8, <1>9, <1>10
<1>12. \A k \in 1 .. Len(Path) : /\ serverMessageSequence < Path[k].num /\ Path[k].num < Upcoming
                                 /\ \A j \in 1 .. k - 1 : Path[j].num < Path[k].num
  BY DEF IInv, Numbered
<1>13. snap.messageNum <= serverMessageSequence /\ serverMessageSequence < outgoingSequence
  BY DEF IInv, Numbered
<1>14. Numbered'
  <2>1. ASSUME NEW k \in 1 .. Len(Path')
        PROVE  /\ serverMessageSequence < Path'[k].num /\ Path'[k].num < Upcoming'
               /\ \A j \in 1 .. k - 1 : Path'[j].num < Path'[k].num
    <3>1. CASE k \in 1 .. Len(Path)
      <4>1. Path'[k] = Path[k] /\ Path[k].num \in Nat
        BY <1>11, <3>1 DEF Message
      <4>2. \A j \in 1 .. k - 1 : Path'[j] = Path[j]
        BY <1>11
      <4>3. QED
        BY <1>3, <1>5, <1>12, <3>1, <4>1, <4>2
    <3>2. CASE k = Len(Path) + 1
      <4>1. Path'[k].num = outgoingSequence
        BY <1>5, <1>8, <1>11, <3>2
      <4>2. \A j \in 1 .. k - 1 : Path'[j] = Path[j] /\ j \in 1 .. Len(Path)
        BY <1>11
      <4>3. QED
        BY <1>3, <1>5, <1>12, <1>13, <4>1, <4>2
    <3>3. QED
      BY <1>11, <3>1, <3>2
  <2>2. serverMessageSequence < outgoingSequence'
    BY <1>3, <1>9, <1>13
  <2>3. QED
    BY <1>4, <1>13, <2>1, <2>2 DEF Numbered
<1>15. /\ SnapshotsPlaced' /\ SnapshotsKept'
       /\ \A x \in Message : x.num < Upcoming /\ Sound(x) => Sound(x)'
  BY <1>3, <1>6, ClientSame
<1>16. PathSound'
  <2>1. ASSUME NEW k \in 1 .. Len(Path')
        PROVE  Sound(Path[k])'
    <3>1. PICK x : x = Path'[k]
      OBVIOUS
    <3>2. CASE k \in 1 .. Len(Path)
      <4>1. x \in Message /\ Sound(x) /\ x.num < Upcoming
        <5>1. x = Path[k]
          BY <1>11, <3>1, <3>2
        <5>2. QED
          BY <1>11, <1>12, <3>2, <5>1 DEF IInv, PathSound
      <4>2. Sound(x)'
        BY <1>15, <4>1
      <4>3. QED
        BY <3>1, <4>2
    <3>3. CASE k = Len(Path) + 1
      <4>1. x = sent
        BY <1>11, <3>1, <3>3
      <4>2. Sound(x)'
        BY <1>7, <4>1 DEF sent
      <4>3. QED
        BY <3>1, <4>2
    <3>4. QED
      BY <1>11, <3>2, <3>3
  <2>2. QED
    BY <2>1 DEF PathSound
<1>17. BaselinesFirst'
  <2>1. /\ ~active => needBaseline
        /\ needBaseline => /\ \A k \in 1 .. Len(Path) : ~Path[k].snapshot
                           /\ \A i \in Packets : ~snapshots[i].valid
        /\ \A k \in 1 .. Len(Path) :
             Path[k].baselines => /\ Path[k].snapshot
                                  /\ \A j \in 1 .. k - 1 : ~Path[j].snapshot
                                  /\ \A i \in Packets : ~snapshots[i].valid
    BY DEF IInv, BaselinesFirst
  <2>2. needBaseline' => /\ \A k \in 1 .. Len(Path') : ~Path'[k].snapshot
                         /\ \A i \in Packets : ~snapshots[i].valid
    BY <1>2, <1>7, <1>8, <1>11, <2>1
  <2>3. ASSUME NEW k \in 1 .. Len(Path'), Path'[k].baselines
        PROVE  /\ Path'[k].snapshot
               /\ \A j \in 1 .. k - 1 : ~Path'[j].snapshot
               /\ \A i \in Packets : ~snapshots[i].valid
    <3>1. \A j \in 1 .. k - 1 : Path'[j] = Path[j] /\ j \in 1 .. Len(Path)
      BY <1>11
    <3>2. CASE k \in 1 .. Len(Path)
      BY <1>11, <2>1, <2>3, <3>1, <3>2
    <3>3. CASE k = Len(Path) + 1
      BY <1>7, <1>8, <1>11, <2>1, <2>3, <3>1, <3>3
    <3>4. QED
      BY <1>11, <3>2, <3>3
  <2>4. ~active' => needBaseline'
    BY <1>2, <1>3
  <2>5. QED
    BY <1>4, <2>2, <2>3, <2>4 DEF BaselinesFirst
<1>18. AcknowledgedHeld' /\ toServer' \in Seq(Acknowledgement)
  BY <1>3, ServerAhead
<1>19. ServerTypes' /\ ClientTypes'
  BY <1>2, <1>3, <1>4, <1>6, <1>9 DEF ServerTypes, ClientTypes
<1>20. QED
  BY <1>9, <1>14, <1>15, <1>16, <1>17, <1>18, <1>19 DEF IInv, Types

-----------------------------------------------------------------------------
\* The client reads a message.

LEMMA ParsedType ==
  ASSUME ClientTypes, NEW old \in SnapshotType, NEW entities \in Deltas,
         NEW baselines \in [Entities -> Nat], NEW parsed,
         parsed = CL_ParsePacketEntities(old, entities, baselines)
  PROVE  parsed.ring \in [0 .. maxParseEntities - 1 -> Entity] /\ Untouched(parsed.ring, parsed.next)
<1> DEFINE q == Ascending(Numbers(old, entities))
<1>1. PICK run : IsRun(run, q, old, entities, baselines)
  BY ParseRun
<1>2. Len(q) \in 0 .. Len(q)
  BY NumbersFinite, AscendingOrder
<1>3. Untouched(run[Len(q)].ring, run[Len(q)].next)
  BY <1>1, <1>2, RunUntouched
<1>4. run[Len(q)] = parsed /\ run[Len(q)] \in ParseState
  BY <1>1, <1>2 DEF IsRun
<1>5. QED
  BY <1>3, <1>4 DEF ParseState

LEMMA SuckType ==
  ASSUME ClientTypes, NEW old \in SnapshotType, NEW entities \in Deltas, Suck(old, entities)
  PROVE  /\ parseEntities' \in [0 .. maxParseEntities - 1 -> Entity]
         /\ Untouched(parseEntities', parseEntitiesNum')
<1> DEFINE L == maxParseEntities
           pen == parseEntitiesNum
           garbage == [number |-> 0, state |-> Garbage]
<1>1. PICK n \in 0 .. old.numEntities + Cardinality(DOMAIN entities) :
        /\ pen' = pen + n
        /\ parseEntities' = [s \in DOMAIN parseEntities |->
                               IF \E i \in 0 .. n : (pen + i) % L = s
                               THEN garbage ELSE parseEntities[s]]
  BY DEF Suck
<1>2. n \in Nat
  <2>1. IsFiniteSet(DOMAIN entities)
    BY NumbersFinite, ViewAssumption, FS_Subset
  <2>2. Cardinality(DOMAIN entities) \in Nat /\ old.numEntities \in Nat
    BY <2>1, FS_CardinalityType DEF SnapshotType
  <2>3. QED
    BY <2>2
<1>3. /\ L \in Nat \ {0} /\ pen \in Nat /\ parseEntities \in [0 .. L - 1 -> Entity]
      /\ DOMAIN parseEntities = 0 .. L - 1 /\ garbage \in Entity
  BY Sizes DEF ClientTypes, Entity, Garbage
<1> HIDE DEF L, pen, garbage
<1>4. parseEntities' \in [0 .. L - 1 -> Entity]
  BY <1>1, <1>3
<1>5. ASSUME NEW x \in Int, pen' - L < x, x < pen
      PROVE  parseEntities'[x % L] = parseEntities[x % L]
  <2>1. x % L \in 0 .. L - 1
    BY <1>3, ModRange
  <2>2. ASSUME NEW i \in 0 .. n PROVE (pen + i) % L # x % L
    <3>1. pen + i \in Int /\ x < pen + i /\ pen + i < x + L
      BY <1>1, <1>2, <1>3, <1>5
    <3>2. QED
      BY <1>3, <3>1, DifferentSlots
  <2>3. QED
    BY <1>1, <1>3, <2>1, <2>2
<1>6. pen' \in Nat /\ pen' >= pen
  BY <1>1, <1>2, <1>3
<1>7. QED
  BY <1>4, <1>5, <1>6 DEF Untouched, Entry, L, pen

\* What CL_ParseSnapshot keeps.
Full(m) == m.num - m.lastframe <= 0 \/ m.lastframe = 0

OldSnapshot(m) == IF Full(m) THEN NoSnapshot ELSE snapshots[(m.num - m.lastframe) % PACKET_BACKUP]

NewSnapshot(m) ==
  [valid |-> TRUE, messageNum |-> m.num, parseEntitiesNum |-> parseEntitiesNum,
   numEntities |-> parseEntitiesNum' - parseEntitiesNum, built |-> m.built]

Stored(m) == [i \in Packets |->
                IF i = m.num % PACKET_BACKUP THEN NewSnapshot(m)
                ELSE IF \E n \in Skipped(m) : n % PACKET_BACKUP = i
                THEN [snapshots[i] EXCEPT !.valid = FALSE]
                ELSE snapshots[i]]

\* After a message is read the ring has grown, and the snapshot may be new.
ClientRead(m) ==
  /\ parseEntities' \in [0 .. maxParseEntities - 1 -> Entity]
  /\ Untouched(parseEntities', parseEntitiesNum')
  /\ \/ UNCHANGED <<snap, snapshots>>
     \/ /\ m.snapshot /\ snap' = NewSnapshot(m) /\ snapshots' = Stored(m)
        /\ entityBaselines' = Baseline => ReadAs(parseEntities', parseEntitiesNum', m.built)

\* What the client keeps is in its ring as it was before, or is not asked for.
LEMMA WasKept ==
  ASSUME IInv, NEW m \in Message, 1 \in 1 .. Len(Path), m = Path[1],
         entityBaselines' = CL_ParseBaselines(m), entityBaselines' = Baseline, NEW i \in Packets
  PROVE  Kept(snapshots[i])
<1>1. CASE m.baselines
  <2>1. ~snapshots[i].valid
    BY <1>1 DEF IInv, BaselinesFirst
  <2>2. QED
    BY <2>1 DEF Kept
<1>2. CASE ~m.baselines
  BY <1>2 DEF CL_ParseBaselines, IInv, SnapshotsKept
<1>3. QED
  BY <1>1, <1>2

\* The client holds what a snapshot is the difference from.
LEMMA BaseHeld ==
  ASSUME IInv, NEW m \in Message, 1 \in 1 .. Len(Path), m = Path[1],
         entityBaselines' = CL_ParseBaselines(m), entityBaselines' = Baseline,
         Full(m) \/ ValidDelta(m), NEW view \in Views, Difference(m, view)
  PROVE  \E from, b : /\ IsView(from) /\ Base(OldSnapshot(m), from, b)
                      /\ m.entities = SV_EmitPacketEntities(from, view)
<1> DEFINE pen == parseEntitiesNum
           L == maxParseEntities
<1>1. /\ m.num \in Nat /\ m.lastframe \in Nat /\ pen \in Nat /\ L \in Nat /\ ClientTypes
      /\ MAX_SNAPSHOT_ENTITIES \in Nat \ {0} /\ PACKET_BACKUP \in Nat \ {0}
  BY Sizes DEF Message, IInv, Types, ClientTypes
<1>2. CASE m.lastframe = 0 /\ m.entities = SV_EmitPacketEntities(<<>>, view)
  <2>1. OldSnapshot(m) = NoSnapshot
    BY <1>2 DEF OldSnapshot, Full
  <2>2. NoSnapshot.numEntities = 0 /\ NoSnapshot.parseEntitiesNum = 0
    BY DEF NoSnapshot
  <2>3. Len(<<>>) = 0 /\ 1 .. 0 = {} /\ 0 + 0 <= pen
    BY <1>1
  <2>4. Base(NoSnapshot, <<>>, <<>>)
    <3>1. Lists(<<>>, <<>>)
      BY EmptyView
    <3>2. QED
      BY <2>2, <2>3, <3>1, Zenon DEF Base, pen
  <2>5. QED
    BY <1>2, <2>1, <2>4, EmptyView, Zenon
<1>3. CASE /\ m.lastframe \in 1 .. PACKET_BACKUP - 1 /\ m.lastframe < m.num
           /\ Holds(m.num - m.lastframe)
           /\ \E from \in Views :
                /\ snapshots[(m.num - m.lastframe) % PACKET_BACKUP].built = Sorted(from)
                /\ m.entities = SV_EmitPacketEntities(from, view)
  <2> DEFINE i == (m.num - m.lastframe) % PACKET_BACKUP
             old == snapshots[i]
  <2>1. ~Full(m) /\ m.num - m.lastframe \in Int
    BY <1>1, <1>3 DEF Full
  <2>2. OldSnapshot(m) = old /\ ValidDelta(m)
    BY <2>1 DEF OldSnapshot
  <2>3. old.valid /\ ~ParseEntitiesTooOld(old)
    BY <2>2 DEF ValidDelta
  <2>4. i \in Packets
    BY <1>1, <2>1, ModRange DEF Packets
  <2>5. PICK from \in Views : old.built = Sorted(from) /\ m.entities = SV_EmitPacketEntities(from, view)
    BY <1>3
  <2>6. IsView(from) /\ Lists(old.built, from)
    BY <2>5, SortedLists, ViewType DEF IsView
  <2>7. /\ old.parseEntitiesNum \in Nat /\ old.numEntities \in Nat
        /\ old.parseEntitiesNum + old.numEntities <= pen
    BY <1>1, <2>4 DEF ClientTypes, SnapshotType
  <2> DEFINE o == old.parseEntitiesNum
             M == MAX_SNAPSHOT_ENTITIES
  <2>8. pen - o <= L - M
    BY <1>1, <2>3, <2>7 DEF ParseEntitiesTooOld
  <2>9. pen + M <= o + L /\ ~(pen - o >= L)
    <3>1. o \in Nat /\ M \in Nat \ {0} /\ pen \in Nat /\ L \in Nat
      BY <1>1, <2>7
    <3> HIDE DEF o, M, pen, L
    <3>2. QED
      BY <2>8, <3>1
  <2>10. Kept(old) /\ ~Lost(old)
    BY <2>4, <2>9, WasKept DEF Lost
  <2>11. /\ old.numEntities = Len(old.built)
         /\ \A k \in 1 .. Len(old.built) :
              Entry(parseEntities, maxParseEntities, old.parseEntitiesNum + k - 1) = old.built[k]
    BY <2>3, <2>10 DEF Kept
  <2>12. Base(old, from, old.built)
    BY <2>6, <2>7, <2>9, <2>11 DEF Base
  <2>13. QED
    BY <2>2, <2>5, <2>6, <2>12
<1>4. QED
  BY <1>2, <1>3 DEF Difference

LEMMA OldSnapshotType ==
  ASSUME ClientTypes, NEW m \in Message
  PROVE  OldSnapshot(m) \in SnapshotType
<1>1. NoSnapshot \in SnapshotType
  <2>1. <<>> \in Seq(Entity)
    OBVIOUS
  <2>2. QED
    BY <2>1 DEF NoSnapshot, SnapshotType
<1>2. (m.num - m.lastframe) % PACKET_BACKUP \in Packets
  <2>1. m.num - m.lastframe \in Int
    BY DEF Message
  <2>2. QED
    BY <2>1, Sizes, ModRange DEF Packets
<1>3. QED
  BY <1>1, <1>2 DEF OldSnapshot, ClientTypes

LEMMA MessageRead ==
  ASSUME IInv, CL_ParseServerMessage, NEW m, m = Head(toClient)
  PROVE  /\ m \in Message /\ 1 \in 1 .. Len(Path) /\ m = Path[1]
         /\ ClientRead(m)
         /\ entityBaselines' = CL_ParseBaselines(m) /\ entityBaselines' \in [Entities -> Nat]
<1> DEFINE bl == CL_ParseBaselines(m)
           old == OldSnapshot(m)
           parsed == CL_ParsePacketEntities(old, m.entities, bl)
<1>1. /\ Types /\ ClientTypes /\ toClient # <<>> /\ toClient' = Tail(toClient)
      /\ entityBaselines' = bl
      /\ UNCHANGED <<client, outgoingSequence, backlog, frames, ring, toServer>>
  BY DEF CL_ParseServerMessage, IInv, Types
<1>2. 1 \in 1 .. Len(Path) /\ m = Path[1]
  BY <1>1, PathShorter
<1>3. m \in Message
  BY <1>1, <1>2, PathType
<1>4. bl \in [Entities -> Nat]
  BY <1>1, ViewAssumption DEF CL_ParseBaselines, ClientTypes
<1>5. old \in SnapshotType /\ m.entities \in Deltas
  BY <1>1, <1>3, OldSnapshotType DEF Message
<1> HIDE DEF parsed, old, bl
<1>6. CASE ~m.snapshot
  <2>1. UNCHANGED <<snap, snapshots, parseEntities, parseEntitiesNum>>
    BY <1>6 DEF CL_ParseServerMessage
  <2>2. /\ parseEntities' \in [0 .. maxParseEntities - 1 -> Entity]
        /\ Untouched(parseEntities', parseEntitiesNum')
    BY <1>1, <2>1 DEF Untouched, ClientTypes
  <2>3. QED
    BY <1>1, <1>2, <1>3, <1>4, <2>1, <2>2 DEF ClientRead, bl
<1>7. CASE m.snapshot
  <2>1. CL_ParseSnapshot(m, bl)
    BY <1>7 DEF CL_ParseServerMessage, bl
  <2>2. \/ /\ Full(m) \/ ValidDelta(m)
           /\ parseEntities' = parsed.ring /\ parseEntitiesNum' = parsed.next
           /\ snap' = NewSnapshot(m) /\ snapshots' = Stored(m)
        \/ /\ Suck(old, m.entities)
           /\ UNCHANGED <<snap, snapshots>>
    <3>1. CASE /\ Full(m) \/ ValidDelta(m)
               /\ parseEntities' = parsed.ring /\ parseEntitiesNum' = parsed.next
               /\ snap' = [valid |-> TRUE, messageNum |-> m.num,
                           parseEntitiesNum |-> parseEntitiesNum,
                           numEntities |-> parsed.next - parseEntitiesNum, built |-> m.built]
               /\ snapshots' = [i \in Packets |->
                    IF i = m.num % PACKET_BACKUP THEN snap'
                    ELSE IF \E n \in Skipped(m) : n % PACKET_BACKUP = i
                    THEN [snapshots[i] EXCEPT !.valid = FALSE]
                    ELSE snapshots[i]]
      <4>1. snap' = NewSnapshot(m)
        BY <3>1, Zenon DEF NewSnapshot
      <4>2. snapshots' = Stored(m)
        BY <3>1, <4>1, Zenon DEF Stored
      <4>3. QED
        BY <3>1, <4>1, <4>2, Zenon
    <3>2. CASE Suck(old, m.entities) /\ UNCHANGED <<snap, snapshots>>
      BY <3>2, Zenon
    <3>3. QED
      BY <2>1, <3>1, <3>2, Zenon DEF CL_ParseSnapshot, Full, old, OldSnapshot, parsed
  <2>3. CASE Suck(old, m.entities) /\ UNCHANGED <<snap, snapshots>>
    <3>1. /\ parseEntities' \in [0 .. maxParseEntities - 1 -> Entity]
          /\ Untouched(parseEntities', parseEntitiesNum')
      BY <1>1, <1>5, <2>3, SuckType
    <3>2. QED
      BY <1>1, <1>2, <1>3, <1>4, <2>3, <3>1 DEF ClientRead, bl
  <2>4. CASE /\ Full(m) \/ ValidDelta(m)
             /\ parseEntities' = parsed.ring /\ parseEntitiesNum' = parsed.next
             /\ snap' = NewSnapshot(m) /\ snapshots' = Stored(m)
    <3>1. /\ parsed.ring \in [0 .. maxParseEntities - 1 -> Entity]
          /\ Untouched(parsed.ring, parsed.next)
      BY <1>1, <1>4, <1>5, ParsedType DEF parsed
    <3>2. ASSUME entityBaselines' = Baseline
          PROVE  ReadAs(parsed.ring, parsed.next, m.built)
      <4>1. PICK view \in Views : m.built = Sorted(view) /\ Difference(m, view)
        BY <1>2, <1>7 DEF IInv, PathSound, Sound
      <4>2. PICK from, b : /\ IsView(from) /\ Base(old, from, b)
                           /\ m.entities = SV_EmitPacketEntities(from, view)
        BY <1>1, <1>2, <1>3, <2>4, <3>2, <4>1, BaseHeld DEF old, bl
      <4>3. IsView(view) /\ Lists(m.built, view)
        BY <4>1, SortedLists, ViewType DEF IsView
      <4>4. parsed = CL_ParsePacketEntities(old, m.entities, Baseline)
        BY <1>1, <3>2 DEF parsed
      <4>5. QED
        BY <1>1, <1>5, <4>2, <4>3, <4>4, ParsedRight
    <3>3. QED
      BY <1>1, <1>2, <1>3, <1>4, <1>7, <2>4, <3>1, <3>2 DEF ClientRead, bl
  <2>5. QED
    BY <2>2, <2>3, <2>4
<1>8. QED
  BY <1>6, <1>7

\* Where nothing is stored, the client keeps what it had.
LEMMA SlotStored ==
  ASSUME NEW m \in Message, snapshots \in [Packets -> SnapshotType], snapshots' = Stored(m),
         NEW i \in Packets
  PROVE  \/ i = m.num % PACKET_BACKUP /\ snapshots'[i] = NewSnapshot(m)
         \/ /\ i # m.num % PACKET_BACKUP
            /\ \/ snapshots'[i] = snapshots[i]
               \/ /\ snapshots'[i] = [snapshots[i] EXCEPT !.valid = FALSE]
                  /\ \E n \in Skipped(m) : n % PACKET_BACKUP = i
BY Zenon DEF Stored

\* A snapshot the client holds is not overwritten by one less than PACKET_BACKUP numbers
\* later.
LEMMA HeldSurvives ==
  ASSUME NEW m \in Message, snap \in SnapshotType, snapshots \in [Packets -> SnapshotType],
         snapshots' = Stored(m) \/ UNCHANGED snapshots, snap.messageNum < m.num,
         NEW n \in 1 .. snap.messageNum, m.num < n + PACKET_BACKUP
  PROVE  snapshots'[n % PACKET_BACKUP] = snapshots[n % PACKET_BACKUP]
<1> DEFINE i == n % PACKET_BACKUP
<1>1. /\ m.num \in Int /\ n \in Int /\ PACKET_BACKUP \in Nat \ {0} /\ snap.messageNum \in Int
      /\ n < m.num
  <2>1. m.num \in Nat /\ PACKET_BACKUP \in Nat \ {0} /\ snap.messageNum \in Nat
    BY Sizes DEF Message, SnapshotType
  <2>2. QED
    BY <2>1
<1>2. i # m.num % PACKET_BACKUP
  BY <1>1, DifferentSlots
<1>3. ASSUME NEW x \in Skipped(m)
      PROVE  x % PACKET_BACKUP # i
  <2>1. x \in Int /\ snap.messageNum < x /\ x < m.num
    BY <1>1, <1>3 DEF Skipped
  <2>2. n < x /\ x < n + PACKET_BACKUP
    BY <1>1, <2>1
  <2>3. QED
    BY <1>1, <2>1, <2>2, DifferentSlots
<1>4. i \in Packets
  BY <1>1, ModRange DEF Packets
<1> HIDE DEF i
<1>5. snapshots'[i] = snapshots[i]
  BY <1>2, <1>3, <1>4, SlotStored
<1>6. QED
  BY <1>5 DEF i

\* A place for a snapshot after message m: as it was, no longer valid, or new.
SlotRead(m, i) ==
  \/ snapshots'[i] = snapshots[i]
  \/ /\ snapshots'[i] \in SnapshotType /\ ~snapshots'[i].valid
     /\ snapshots'[i].parseEntitiesNum = snapshots[i].parseEntitiesNum
     /\ snapshots'[i].numEntities = snapshots[i].numEntities
  \/ /\ i = m.num % PACKET_BACKUP /\ m.snapshot
     /\ snapshots'[i] = NewSnapshot(m) /\ snap' = NewSnapshot(m)
     /\ entityBaselines' = Baseline => ReadAs(parseEntities', parseEntitiesNum', m.built)

LEMMA SlotsRead ==
  ASSUME ClientTypes, NEW m \in Message, ClientRead(m), NEW i \in Packets
  PROVE  SlotRead(m, i)
<1>1. snapshots[i] \in SnapshotType /\ snapshots \in [Packets -> SnapshotType]
  BY DEF ClientTypes
<1>2. CASE UNCHANGED <<snap, snapshots>>
  BY <1>2 DEF SlotRead
<1>3. CASE /\ m.snapshot /\ snap' = NewSnapshot(m) /\ snapshots' = Stored(m)
           /\ entityBaselines' = Baseline => ReadAs(parseEntities', parseEntitiesNum', m.built)
  <2>1. CASE snapshots'[i] = [snapshots[i] EXCEPT !.valid = FALSE]
    <3>1. PICK s \in SnapshotType : s = snapshots[i]
      BY <1>1
    <3>2. /\ [s EXCEPT !.valid = FALSE] \in SnapshotType /\ ~[s EXCEPT !.valid = FALSE].valid
          /\ [s EXCEPT !.valid = FALSE].parseEntitiesNum = s.parseEntitiesNum
          /\ [s EXCEPT !.valid = FALSE].numEntities = s.numEntities
      BY DEF SnapshotType
    <3>3. snapshots'[i] = [s EXCEPT !.valid = FALSE]
      BY <2>1, <3>1
    <3>4. QED
      BY <3>1, <3>2, <3>3 DEF SlotRead
  <2>2. CASE snapshots'[i] = snapshots[i]
    BY <2>2 DEF SlotRead
  <2>3. CASE i = m.num % PACKET_BACKUP /\ snapshots'[i] = NewSnapshot(m)
    BY <1>3, <2>3, Zenon DEF SlotRead
  <2>4. QED
    BY <1>1, <1>3, <2>1, <2>2, <2>3, SlotStored
<1>4. QED
  BY <1>2, <1>3 DEF ClientRead

LEMMA NewSnapshotType ==
  ASSUME ClientTypes, NEW m \in Message, ClientRead(m)
  PROVE  /\ NewSnapshot(m) \in SnapshotType /\ NewSnapshot(m).valid
         /\ NewSnapshot(m).messageNum = m.num
         /\ NewSnapshot(m).parseEntitiesNum = parseEntitiesNum
         /\ NewSnapshot(m).numEntities = parseEntitiesNum' - parseEntitiesNum
         /\ NewSnapshot(m).built = m.built
<1>1. parseEntitiesNum \in Nat /\ parseEntitiesNum' \in Nat /\ parseEntitiesNum' >= parseEntitiesNum
  BY DEF ClientTypes, ClientRead, Untouched
<1>2. parseEntitiesNum' - parseEntitiesNum \in Nat
  <2>1. \A a, b \in Nat : b >= a => b - a \in Nat
    OBVIOUS
  <2>2. QED
    BY <1>1, <2>1, Zenon
<1>3. m.num \in Nat /\ m.built \in Seq(Entity)
  BY DEF Message
<1>4. QED
  BY <1>1, <1>2, <1>3 DEF NewSnapshot, SnapshotType

LEMMA ClientTypesRead ==
  ASSUME ClientTypes, NEW m \in Message, ClientRead(m), serverMessageSequence' = m.num,
         entityBaselines' \in [Entities -> Nat]
  PROVE  ClientTypes'
<1>1. parseEntitiesNum \in Nat /\ parseEntitiesNum' \in Nat /\ parseEntitiesNum' >= parseEntitiesNum
  BY DEF ClientTypes, ClientRead, Untouched
<1>2. /\ NewSnapshot(m) \in SnapshotType
      /\ NewSnapshot(m).parseEntitiesNum = parseEntitiesNum
      /\ NewSnapshot(m).numEntities = parseEntitiesNum' - parseEntitiesNum
  BY NewSnapshotType
<1>3. ASSUME NEW i \in Packets
      PROVE  /\ snapshots'[i] \in SnapshotType
             /\ snapshots'[i].parseEntitiesNum + snapshots'[i].numEntities <= parseEntitiesNum'
  <2> DEFINE s == snapshots[i]
             t == snapshots'[i]
  <2>1. /\ s \in SnapshotType /\ s.parseEntitiesNum \in Nat /\ s.numEntities \in Nat
        /\ s.parseEntitiesNum + s.numEntities <= parseEntitiesNum
    BY DEF ClientTypes, SnapshotType
  <2>2. SlotRead(m, i)
    BY SlotsRead
  <2>3. CASE t = NewSnapshot(m)
    <3>1. /\ t \in SnapshotType /\ t.parseEntitiesNum = parseEntitiesNum
          /\ t.numEntities = parseEntitiesNum' - parseEntitiesNum
      BY <1>2, <2>3, Zenon
    <3>2. \A a, b \in Nat : a + (b - a) <= b
      OBVIOUS
    <3>3. parseEntitiesNum + (parseEntitiesNum' - parseEntitiesNum) <= parseEntitiesNum'
      BY <1>1, <3>2, Zenon
    <3> HIDE DEF t
    <3>4. QED
      BY <3>1, <3>3 DEF t
  <2>4. CASE t \in SnapshotType /\ t.parseEntitiesNum = s.parseEntitiesNum
             /\ t.numEntities = s.numEntities
    <3> HIDE DEF t, s
    <3>1. t.parseEntitiesNum + t.numEntities <= parseEntitiesNum'
      BY <1>1, <2>1, <2>4
    <3>2. QED
      BY <2>4, <3>1 DEF t
  <2>5. QED
    BY <2>1, <2>2, <2>3, <2>4 DEF SlotRead
<1>4. snapshots' \in [Packets -> SnapshotType] /\ snap' \in SnapshotType
  <2>1. snapshots \in [Packets -> SnapshotType] /\ snap \in SnapshotType
    BY DEF ClientTypes
  <2>2. snapshots' = [i \in Packets |-> snapshots'[i]]
    <3>1. CASE UNCHANGED snapshots
      BY <2>1, <3>1
    <3>2. CASE snapshots' = Stored(m)
      BY <3>2, Zenon DEF Stored
    <3>3. QED
      BY <3>1, <3>2 DEF ClientRead
  <2>3. snapshots' \in [Packets -> SnapshotType]
    BY <1>3, <2>2
  <2>4. snap' \in SnapshotType
    BY <1>2, <2>1 DEF ClientRead
  <2>5. QED
    BY <2>3, <2>4
<1>5. m.num \in Nat /\ parseEntities' \in [0 .. maxParseEntities - 1 -> Entity]
  BY DEF Message, ClientRead
<1>6. QED
  BY <1>1, <1>3, <1>4, <1>5 DEF ClientTypes

\* A snapshot that was in the client's ring still is, or is lost.
LEMMA KeptStays ==
  ASSUME ClientTypes, NEW i \in Packets, NEW s, s = snapshots[i], Kept(s),
         Untouched(parseEntities', parseEntitiesNum')
  PROVE  Kept(s)'
<1> DEFINE L == maxParseEntities
           pen == parseEntitiesNum
           p == s.parseEntitiesNum
           n == Len(s.built)
<1>1. SUFFICES ASSUME s.valid, ~(pen' - p >= L)
               PROVE  /\ s.numEntities = n
                      /\ \A k \in 1 .. n : Entry(parseEntities', L, p + k - 1) = s.built[k]
  BY DEF Kept, Lost
<1>2. /\ p \in Nat /\ s.numEntities \in Nat /\ p + s.numEntities <= pen /\ pen \in Nat
      /\ L \in Nat /\ pen' \in Nat /\ pen' >= pen
  BY Sizes DEF ClientTypes, SnapshotType, Untouched
<1>3. ~(pen - p >= L)
  <2>1. \A a, b, c, d \in Nat : b >= a /\ ~(b - c >= d) => ~(a - c >= d)
    OBVIOUS
  <2>2. QED
    BY <1>1, <1>2, <2>1, Zenon
<1>4. /\ s.numEntities = n
      /\ \A k \in 1 .. n : Entry(parseEntities, L, p + k - 1) = s.built[k]
  BY <1>1, <1>3 DEF Kept, Lost
<1>5. ASSUME NEW k \in 1 .. n
      PROVE  Entry(parseEntities', L, p + k - 1) = s.built[k]
  <2>1. n \in Nat /\ p + n <= pen
    BY <1>2, <1>4
  <2>2. p + k - 1 \in Int /\ pen' - L < p + k - 1 /\ p + k - 1 < pen
    <3>1. \A a, b, c, d, l \in Nat : \A x \in 1 .. l :
            ~(b - c >= d) /\ c + l <= a => c + x - 1 \in Int /\ b - d < c + x - 1 /\ c + x - 1 < a
      OBVIOUS
    <3>2. QED
      BY <1>1, <1>2, <2>1, <3>1, Zenon
  <2> HIDE DEF L, pen, p, n
  <2>3. Entry(parseEntities', L, p + k - 1) = Entry(parseEntities, L, p + k - 1)
    BY <2>2 DEF Untouched, L, pen
  <2>4. QED
    BY <1>4, <2>3
<1>6. QED
  BY <1>4, <1>5

\* What the client holds or held is still so after message m, and nothing is under way
\* that could not be read.
LEMMA HeldRead ==
  ASSUME IInv, NEW m \in Message, ClientRead(m), serverMessageSequence < m.num,
         NEW n \in Nat, m.num < n + PACKET_BACKUP, Holds(n)
  PROVE  /\ n \in 1 .. snap.messageNum
         /\ snapshots'[n % PACKET_BACKUP] = snapshots[n % PACKET_BACKUP]
<1>1. /\ snap \in SnapshotType /\ snapshots \in [Packets -> SnapshotType]
      /\ serverMessageSequence \in Nat /\ snap.messageNum \in Nat /\ m.num \in Nat
      /\ snap.messageNum <= serverMessageSequence
  BY DEF IInv, Types, ClientTypes, SnapshotType, Numbered, Message
<1>2. n % PACKET_BACKUP \in Packets
  BY Sizes, ModRange DEF Packets
<1>3. n \in 1 .. snap.messageNum
  BY <1>2 DEF IInv, SnapshotsPlaced, Placed, Holds
<1>4. snap.messageNum < m.num
  BY <1>1
<1>5. snapshots' = Stored(m) \/ UNCHANGED snapshots
  BY DEF ClientRead
<1>6. QED
  BY <1>1, <1>3, <1>4, <1>5, HeldSurvives

LEMMA ParseStep ==
  ASSUME IInv, CL_ParseServerMessage
  PROVE  IInv'
<1>1. PICK m : m = Head(toClient)
  OBVIOUS
<1>2. /\ m \in Message /\ 1 \in 1 .. Len(Path) /\ m = Path[1] /\ ClientRead(m)
      /\ entityBaselines' = CL_ParseBaselines(m) /\ entityBaselines' \in [Entities -> Nat]
  BY <1>1, MessageRead
<1>3. /\ UNCHANGED <<active, needBaseline, deltaMessage, outgoingSequence, backlog, frames, ring,
                     toServer>>
      /\ serverMessageSequence' = m.num /\ toClient # <<>> /\ toClient' = Tail(toClient)
      /\ Types /\ ServerTypes /\ ClientTypes
  BY <1>1 DEF CL_ParseServerMessage, client, IInv, Types
<1>4. UNCHANGED <<snapshotEntities, nextSnapshotEntities>>
  BY <1>3 DEF ring
<1>5. /\ toClient' \in Seq(Message) /\ Upcoming' = Upcoming
      /\ \A k \in 1 .. Len(Path') : k + 1 \in 1 .. Len(Path) /\ Path'[k] = Path[k + 1]
  BY <1>3, PathShorter
<1>6. \A k \in 1 .. Len(Path) : /\ serverMessageSequence < Path[k].num /\ Path[k].num < Upcoming
                                /\ \A j \in 1 .. k - 1 : Path[j].num < Path[k].num
  BY DEF IInv, Numbered
<1>7. /\ Path \in Seq(Message) /\ outgoingSequence \in Nat /\ serverMessageSequence \in Nat
      /\ snap.messageNum \in Nat /\ m.num \in Nat /\ PACKET_BACKUP \in Nat \ {0}
      /\ \A k \in 1 .. Len(Path) : Path[k] \in Message
      /\ snap.messageNum <= serverMessageSequence /\ serverMessageSequence < m.num
  <2>1. Path \in Seq(Message) /\ \A k \in 1 .. Len(Path) : Path[k] \in Message
    BY <1>3, PathType
  <2>2. outgoingSequence \in Nat /\ serverMessageSequence \in Nat /\ snap.messageNum \in Nat
    BY <1>3 DEF ServerTypes, ClientTypes, SnapshotType
  <2>3. m.num \in Nat /\ PACKET_BACKUP \in Nat \ {0}
    BY <1>2, Sizes DEF Message
  <2>4. snap.messageNum <= serverMessageSequence /\ serverMessageSequence < m.num
    BY <1>2, <1>6 DEF IInv, Numbered
  <2>5. QED
    BY <2>1, <2>2, <2>3, <2>4
<1>8. m.num < outgoingSequence
  <2>1. CASE backlog = <<>>
    <3>1. Upcoming = outgoingSequence
      BY <1>7, <2>1 DEF Upcoming
    <3>2. QED
      BY <1>2, <1>6, <3>1
  <2>2. CASE backlog # <<>>
    <3> DEFINE last == [backlog[1] EXCEPT !.num = outgoingSequence]
               k == Len(toClient) + 1
    <3>1. toClient \in Seq(Message) /\ Len(toClient) \in Nat /\ Len(toClient) # 0
      BY <1>3 DEF Types
    <3>2. backlog[1] \in Message
      <4>1. backlog \in Seq(Message)
        BY <1>3 DEF ServerTypes
      <4>2. QED
        BY <2>2, <4>1
    <3>3. last \in Message /\ last.num = outgoingSequence
      BY <1>7, <3>2, MessageNumbered
    <3>4. Path = Append(toClient, last)
      BY <2>2 DEF Path
    <3> HIDE DEF last
    <3>5. k \in 1 .. Len(Path) /\ Path[k] = last /\ 1 \in 1 .. k - 1
      BY <3>1, <3>3, <3>4
    <3> HIDE DEF k
    <3>6. Path[1].num < Path[k].num
      BY <1>6, <3>5
    <3>7. QED
      BY <1>2, <3>3, <3>5, <3>6
  <2>3. QED
    BY <2>1, <2>2
<1>9. ClientTypes'
  BY <1>2, <1>3, ClientTypesRead
<1>10. ServerTypes' /\ toServer' \in Seq(Acknowledgement)
  BY <1>3, <1>4 DEF Types, ServerTypes
<1>11. /\ NewSnapshot(m).valid /\ NewSnapshot(m).messageNum = m.num
       /\ NewSnapshot(m).parseEntitiesNum = parseEntitiesNum
       /\ NewSnapshot(m).numEntities = parseEntitiesNum' - parseEntitiesNum
       /\ NewSnapshot(m).built = m.built
  BY <1>2, <1>3, NewSnapshotType
<1>12. \A i \in Packets : SlotRead(m, i)
  BY <1>2, <1>3, SlotsRead
<1>13. /\ snap.messageNum <= snap'.messageNum /\ snap'.messageNum <= m.num
       /\ snap'.messageNum \in Nat
       /\ \/ snap' = snap /\ snapshots' = snapshots
          \/ snap' = NewSnapshot(m) /\ snapshots' = Stored(m) /\ m.snapshot
  <2>1. CASE snap' = snap /\ snapshots' = snapshots
    BY <1>7, <2>1
  <2>2. CASE snap' = NewSnapshot(m) /\ snapshots' = Stored(m) /\ m.snapshot
    <3>1. snap'.messageNum = m.num
      BY <1>11, <2>2
    <3>2. QED
      BY <1>7, <2>2, <3>1
  <2>3. QED
    BY <1>2, <2>1, <2>2 DEF ClientRead
<1>14. \A n : \A b : FrameHolds(n, b) => FrameHolds(n, b)'
  BY <1>3, <1>4, <1>5 DEF FrameHolds
<1>15. Numbered'
  <2>1. ASSUME NEW k \in 1 .. Len(Path')
        PROVE  /\ m.num < Path'[k].num /\ Path'[k].num < Upcoming
               /\ \A j \in 1 .. k - 1 : Path'[j].num < Path'[k].num
    <3>1. k + 1 \in 1 .. Len(Path) /\ Path'[k] = Path[k + 1] /\ k \in Int /\ k >= 1
      <4>1. k + 1 \in 1 .. Len(Path) /\ Path'[k] = Path[k + 1] /\ k \in 1 .. Len(Path')
        BY <1>5
      <4>2. QED
        BY <4>1
    <3>2. 1 \in 1 .. (k + 1) - 1
      BY <3>1
    <3>3. m.num < Path[k + 1].num
      BY <1>2, <1>6, <3>1, <3>2
    <3>4. ASSUME NEW j \in 1 .. k - 1
          PROVE  Path'[j].num < Path'[k].num
      <4>1. j \in 1 .. Len(Path') /\ j + 1 \in 1 .. (k + 1) - 1
        <5>1. k \in 1 .. Len(Path')
          OBVIOUS
        <5>2. QED
          BY <3>1, <5>1
      <4>2. Path'[j] = Path[j + 1]
        BY <1>5, <4>1
      <4>3. QED
        BY <1>6, <3>1, <4>1, <4>2
    <3>5. QED
      BY <1>6, <3>1, <3>3, <3>4
  <2>2. QED
    BY <1>3, <1>5, <1>8, <1>13, <2>1 DEF Numbered
<1>16. SnapshotsPlaced'
  <2>1. ASSUME NEW i \in Packets, snapshots'[i].valid
        PROVE  /\ snapshots'[i].messageNum \in 1 .. snap'.messageNum
               /\ snapshots'[i].messageNum % PACKET_BACKUP = i
               /\ \E view \in Views : snapshots'[i].built = Sorted(view)
               /\ FrameHolds(snapshots[i].messageNum, snapshots[i].built)'
    <3> DEFINE s == snapshots[i]
    <3>1. PICK t : t = snapshots'[i]
      OBVIOUS
    <3>2. CASE t = s
      <4>1. /\ s.messageNum \in 1 .. snap.messageNum /\ s.messageNum % PACKET_BACKUP = i
            /\ \E view \in Views : s.built = Sorted(view)
            /\ FrameHolds(s.messageNum, s.built)
        BY <2>1, <3>1, <3>2 DEF IInv, SnapshotsPlaced, Placed
      <4>2. t.messageNum \in 1 .. snap'.messageNum
        BY <1>7, <1>13, <3>2, <4>1
      <4>3. FrameHolds(t.messageNum, t.built)'
        BY <1>14, <3>2, <4>1
      <4> HIDE DEF s
      <4>4. QED
        BY <3>1, <3>2, <4>1, <4>2, <4>3
    <3>3. CASE /\ i = m.num % PACKET_BACKUP /\ m.snapshot
               /\ t = NewSnapshot(m) /\ snap' = NewSnapshot(m)
      <4>1. FrameHolds(m.num, m.built) /\ \E view \in Views : m.built = Sorted(view)
        BY <1>2, <3>3 DEF IInv, PathSound, Sound
      <4>2. t.messageNum = m.num /\ t.built = m.built /\ snap'.messageNum = m.num
        BY <1>11, <3>3
      <4>3. t.messageNum \in 1 .. snap'.messageNum
        BY <1>7, <4>2
      <4>4. FrameHolds(t.messageNum, t.built)'
        BY <1>14, <4>1, <4>2
      <4>5. QED
        BY <3>1, <3>3, <4>1, <4>2, <4>3, <4>4
    <3>4. QED
      BY <1>12, <2>1, <3>1, <3>2, <3>3 DEF SlotRead
  <2>2. ASSUME snap'.valid
        PROVE  snap'.messageNum > 0 /\ snapshots'[snap'.messageNum % PACKET_BACKUP] = snap'
    <3>1. CASE snap' = snap /\ snapshots' = snapshots
      BY <2>2, <3>1 DEF IInv, SnapshotsPlaced
    <3>2. CASE snap' = NewSnapshot(m) /\ snapshots' = Stored(m) /\ m.snapshot
      <4>1. snap'.messageNum = m.num
        BY <1>11, <3>2
      <4>2. m.num % PACKET_BACKUP \in Packets
        <5>1. m.num \in Int
          BY <1>7
        <5>2. m.num % PACKET_BACKUP \in 0 .. PACKET_BACKUP - 1
          BY <1>7, <5>1, ModRange
        <5>3. QED
          BY <5>2 DEF Packets
      <4>3. snapshots'[m.num % PACKET_BACKUP] = NewSnapshot(m)
        BY <3>2, <4>2, Zenon DEF Stored
      <4>4. QED
        BY <1>7, <3>2, <4>1, <4>3
    <3>3. QED
      BY <1>13, <3>1, <3>2
  <2>3. QED
    BY <2>1, <2>2 DEF SnapshotsPlaced, Placed
<1>17. ASSUME NEW n, Acknowledged(n)
       PROVE  Acknowledged(n)'
  <2>1. n \in 1 .. snap.messageNum /\ n \in Nat
    BY <1>7, <1>17 DEF Acknowledged
  <2>2. n \in 1 .. snap'.messageNum
    BY <1>7, <1>13, <2>1
  <2>3. ASSUME m.num < n + PACKET_BACKUP
        PROVE  Holds(n)'
    <3>1. serverMessageSequence < n + PACKET_BACKUP
      BY <1>7, <2>1, <2>3
    <3>2. Holds(n)
      BY <1>17, <3>1 DEF Acknowledged
    <3>3. snapshots'[n % PACKET_BACKUP] = snapshots[n % PACKET_BACKUP]
      BY <1>2, <1>7, <2>1, <2>3, <3>2, HeldRead
    <3>4. QED
      BY <3>2, <3>3 DEF Holds
  <2>4. QED
    BY <1>3, <2>2, <2>3 DEF Acknowledged
<1>18. AcknowledgedHeld'
  <2>1. /\ deltaMessage = -1 \/ Acknowledged(deltaMessage)
        /\ \A k \in 1 .. Len(toServer) :
             /\ toServer[k].messageAcknowledge <= serverMessageSequence
             /\ toServer[k].delta => Acknowledged(toServer[k].messageAcknowledge)
    BY DEF IInv, AcknowledgedHeld
  <2>2. (deltaMessage = -1 \/ Acknowledged(deltaMessage))'
    <3>1. PICK n : n = deltaMessage
      OBVIOUS
    <3>2. QED
      BY <1>3, <1>17, <2>1, <3>1
  <2>3. ASSUME NEW k \in 1 .. Len(toServer')
        PROVE  /\ toServer'[k].messageAcknowledge <= serverMessageSequence'
               /\ toServer'[k].delta => Acknowledged(toServer[k].messageAcknowledge)'
    <3>1. PICK n : n = toServer[k].messageAcknowledge /\ n = toServer'[k].messageAcknowledge
      BY <1>3
    <3>2. n <= serverMessageSequence /\ (toServer[k].delta => Acknowledged(n)) /\ n \in Nat
      <4>1. k \in 1 .. Len(toServer) /\ toServer \in Seq(Acknowledgement)
        BY <1>3 DEF Types
      <4>2. toServer[k] \in Acknowledgement
        BY <4>1
      <4>3. QED
        BY <2>1, <3>1, <4>1, <4>2 DEF Acknowledgement
    <3>3. n <= serverMessageSequence'
      BY <1>3, <1>7, <3>2
    <3>4. QED
      BY <1>3, <1>17, <3>1, <3>2, <3>3
  <2>4. QED
    BY <2>2, <2>3 DEF AcknowledgedHeld
<1>19. PathSound'
  <2>1. ASSUME NEW k \in 1 .. Len(Path'), NEW x, x = Path'[k]
        PROVE  Sound(x)'
    <3>1. k + 1 \in 1 .. Len(Path) /\ x = Path[k + 1] /\ 1 \in 1 .. (k + 1) - 1
      <4>1. k + 1 \in 1 .. Len(Path) /\ x = Path[k + 1] /\ k \in 1 .. Len(Path')
        BY <1>5, <2>1
      <4>2. QED
        BY <4>1
    <3>2. x \in Message /\ Sound(x) /\ m.num < x.num
      BY <1>2, <1>6, <1>7, <3>1 DEF IInv, PathSound
    <3>3. x.snapshot => FrameHolds(x.num, x.built)'
      BY <1>14, <3>2 DEF Sound
    <3>4. ASSUME NEW view \in Views, Difference(x, view)
          PROVE  Difference(x, view)'
      <4>1. CASE x.lastframe = 0
        BY <3>4, <4>1 DEF Difference
      <4>2. CASE x.lastframe # 0
        <5> DEFINE n == x.num - x.lastframe
        <5>1. /\ x.lastframe \in 1 .. PACKET_BACKUP - 1 /\ x.lastframe < x.num /\ Holds(n)
              /\ \E from \in Views :
                   /\ snapshots[n % PACKET_BACKUP].built = Sorted(from)
                   /\ x.entities = SV_EmitPacketEntities(from, view)
          BY <3>4, <4>2 DEF Difference
        <5>2. n \in Nat /\ m.num < n + PACKET_BACKUP
          <6>1. x.num \in Nat /\ x.lastframe \in Nat
            BY <3>2 DEF Message
          <6>2. QED
            BY <1>7, <3>2, <5>1, <6>1
        <5> HIDE DEF n
        <5>3. snapshots'[n % PACKET_BACKUP] = snapshots[n % PACKET_BACKUP]
          BY <1>2, <1>7, <5>1, <5>2, HeldRead
        <5>4. Holds(n)'
          BY <5>1, <5>3 DEF Holds
        <5>5. QED
          BY <5>1, <5>3, <5>4 DEF Difference, n
      <4>3. QED
        BY <4>1, <4>2
    <3>5. QED
      BY <3>2, <3>3, <3>4 DEF Sound
  <2>2. ASSUME NEW k \in 1 .. Len(Path')
        PROVE  Sound(Path[k])'
    <3>1. PICK x : x = Path'[k]
      OBVIOUS
    <3>2. Sound(x)'
      BY <2>1, <3>1
    <3>3. QED
      BY <3>1, <3>2
  <2>3. QED
    BY <2>2 DEF PathSound
<1>20. BaselinesFirst'
  <2>1. /\ ~active => needBaseline
        /\ needBaseline => /\ \A k \in 1 .. Len(Path) : ~Path[k].snapshot
                           /\ \A i \in Packets : ~snapshots[i].valid
        /\ \A k \in 1 .. Len(Path) :
             Path[k].baselines => /\ Path[k].snapshot
                                  /\ \A j \in 1 .. k - 1 : ~Path[j].snapshot
                                  /\ \A i \in Packets : ~snapshots[i].valid
    BY DEF IInv, BaselinesFirst
  <2>2. ~m.snapshot => snapshots' = snapshots
    BY <1>13
  <2>3. needBaseline' => /\ \A k \in 1 .. Len(Path') : ~Path'[k].snapshot
                         /\ \A i \in Packets : ~snapshots'[i].valid
    <3>1. SUFFICES ASSUME needBaseline
                   PROVE  /\ \A k \in 1 .. Len(Path') : ~Path'[k].snapshot
                          /\ \A i \in Packets : ~snapshots'[i].valid
      BY <1>3
    <3>2. ~m.snapshot
      BY <1>2, <2>1, <3>1
    <3>3. QED
      BY <1>5, <2>1, <2>2, <3>1, <3>2
  <2>4. ASSUME NEW k \in 1 .. Len(Path'), Path'[k].baselines
        PROVE  /\ Path'[k].snapshot
               /\ \A j \in 1 .. k - 1 : ~Path'[j].snapshot
               /\ \A i \in Packets : ~snapshots'[i].valid
    <3>1. k + 1 \in 1 .. Len(Path) /\ Path'[k] = Path[k + 1] /\ 1 \in 1 .. (k + 1) - 1
      <4>1. k + 1 \in 1 .. Len(Path) /\ Path'[k] = Path[k + 1] /\ k \in 1 .. Len(Path')
        BY <1>5
      <4>2. QED
        BY <4>1
    <3>2. /\ Path[k + 1].snapshot /\ \A i \in Packets : ~snapshots[i].valid
          /\ \A j \in 1 .. (k + 1) - 1 : ~Path[j].snapshot
      BY <2>1, <2>4, <3>1
    <3>3. ~m.snapshot
      BY <1>2, <3>1, <3>2
    <3>4. \A j \in 1 .. k - 1 : j + 1 \in 1 .. (k + 1) - 1 /\ Path'[j] = Path[j + 1]
      <4>1. ASSUME NEW j \in 1 .. k - 1
            PROVE  j \in 1 .. Len(Path') /\ j + 1 \in 1 .. (k + 1) - 1
        <5>1. k \in 1 .. Len(Path') /\ k \in Int
          BY <3>1
        <5>2. QED
          BY <5>1
      <4>2. QED
        BY <1>5, <4>1
    <3>5. QED
      BY <2>2, <3>1, <3>2, <3>3, <3>4
  <2>5. QED
    BY <1>3, <2>1, <2>3, <2>4 DEF BaselinesFirst
<1>21. SnapshotsKept'
  <2>1. SUFFICES ASSUME entityBaselines' = Baseline, NEW i \in Packets
                 PROVE  Kept(snapshots[i])'
    BY <1>2 DEF SnapshotsKept
  <2>2. PICK t : t = snapshots'[i]
    OBVIOUS
  <2>3. SUFFICES Kept(t)'
    BY <2>2
  <2>4. CASE t = snapshots[i]
    <3>1. Kept(t)
      BY <1>2, <2>1, <2>4, WasKept
    <3>2. QED
      BY <1>2, <1>3, <2>4, <3>1, KeptStays DEF ClientRead
  <2>5. CASE ~t.valid
    BY <2>5 DEF Kept
  <2>6. CASE /\ t = NewSnapshot(m)
             /\ ReadAs(parseEntities', parseEntitiesNum', m.built)
    <3>1. /\ parseEntitiesNum' = parseEntitiesNum + Len(m.built)
          /\ \A k \in 1 .. Len(m.built) :
               Entry(parseEntities', maxParseEntities, parseEntitiesNum + k - 1) = m.built[k]
      BY <2>6 DEF ReadAs
    <3>2. t.numEntities = Len(t.built) /\ t.built = m.built /\ t.parseEntitiesNum = parseEntitiesNum
      <4>1. m.built \in Seq(Entity) /\ parseEntitiesNum \in Nat
        BY <1>2, <1>3 DEF Message, ClientTypes
      <4>2. \A a, b \in Nat : (a + b) - a = b
        OBVIOUS
      <4>3. parseEntitiesNum' - parseEntitiesNum = Len(m.built)
        <5>1. Len(m.built) \in Nat
          BY <4>1
        <5>2. QED
          BY <3>1, <4>1, <4>2, <5>1, Zenon
      <4>4. QED
        BY <1>11, <2>6, <4>3
    <3>3. QED
      BY <3>1, <3>2 DEF Kept
  <2>7. QED
    BY <1>12, <2>1, <2>2, <2>4, <2>5, <2>6 DEF SlotRead
<1>22. QED
  BY <1>5, <1>9, <1>10, <1>15, <1>16, <1>18, <1>19, <1>20, <1>21 DEF IInv, Types

-----------------------------------------------------------------------------
\* The theorems.

LEMMA InitInvariant ==
  ASSUME Init
  PROVE  IInv
<1>1. /\ active = FALSE /\ needBaseline = TRUE /\ deltaMessage = -1
      /\ outgoingSequence = 1 /\ backlog = <<>> /\ nextSnapshotEntities = UsedBefore
      /\ frames = [i \in Packets |-> [first_entity |-> 0, num_entities |-> 0]]
      /\ toClient = <<>> /\ toServer = <<>>
      /\ serverMessageSequence = 0 /\ snap = NoSnapshot
      /\ snapshots = [i \in Packets |-> NoSnapshot] /\ parseEntitiesNum = 0
      /\ entityBaselines = [e \in Entities |-> Zero]
  BY DEF Init
<1>2. \A size \in Nat : \A r \in Ring(size) : r \in [0 .. size - 1 -> Entity]
  BY DEF Ring, Entity, Zero
<1>3. /\ snapshotEntities \in [0 .. numSnapshotEntities - 1 -> Entity]
      /\ parseEntities \in [0 .. maxParseEntities - 1 -> Entity]
  BY <1>2, Sizes DEF Init
<1>4. <<>> \in Seq(Message) /\ <<>> \in Seq(Acknowledgement) /\ <<>> \in Seq(Entity)
      /\ Len(<<>>) = 0 /\ 1 .. 0 = {}
  OBVIOUS
<1>5. NoSnapshot \in SnapshotType /\ ~NoSnapshot.valid /\ NoSnapshot.messageNum = 0
      /\ NoSnapshot.parseEntitiesNum = 0 /\ NoSnapshot.numEntities = 0
  BY <1>4 DEF NoSnapshot, SnapshotType
<1>6. UsedBefore \in 0 .. WRAP - 1
  BY SizeAssumption
<1>7. ServerTypes
  <2> DEFINE f == [first_entity |-> 0, num_entities |-> 0]
  <2>1. f \in FrameType /\ f.first_entity + f.num_entities = 0
    BY Sizes DEF FrameType
  <2> HIDE DEF f
  <2>2. frames \in [Packets -> FrameType] /\ \A i \in Packets : frames[i] = f
    BY <1>1, <2>1 DEF f
  <2>3. \A i \in Packets : frames[i].first_entity + frames[i].num_entities <= nextSnapshotEntities
    BY <1>1, <1>6, <2>1, <2>2
  <2>4. /\ active \in BOOLEAN /\ needBaseline \in BOOLEAN /\ deltaMessage \in Int
        /\ outgoingSequence \in Nat /\ backlog \in Seq(Message) /\ Len(backlog) <= 1
    <3>1. Len(backlog) = 0 /\ backlog \in Seq(Message)
      BY <1>1, <1>4, Zenon
    <3>2. Len(backlog) <= 1
      BY <3>1
    <3>3. deltaMessage \in Int /\ outgoingSequence \in Nat
      BY <1>1
    <3>4. active \in BOOLEAN /\ needBaseline \in BOOLEAN
      BY <1>1
    <3>5. QED
      BY <3>1, <3>2, <3>3, <3>4
  <2>5. nextSnapshotEntities \in 0 .. WRAP - 1
    BY <1>1, <1>6
  <2>6. QED
    BY <1>3, <2>2, <2>3, <2>4, <2>5, Zenon DEF ServerTypes
<1>8. \A i \in Packets : snapshots[i] = NoSnapshot
  BY <1>1
<1>9. ClientTypes
  <2>1. snapshots \in [Packets -> SnapshotType]
    BY <1>1, <1>5
  <2>2. entityBaselines \in [Entities -> Nat]
    BY <1>1 DEF Zero
  <2>3. QED
    BY <1>1, <1>3, <1>5, <1>8, <2>1, <2>2 DEF ClientTypes
<1>10. Path = <<>> /\ Len(Path) = 0
  BY <1>1, <1>4 DEF Path
<1>11. Numbered /\ PathSound
  BY <1>1, <1>4, <1>5, <1>10 DEF Numbered, PathSound
<1>12. SnapshotsPlaced /\ SnapshotsKept
  BY <1>1, <1>5, <1>8 DEF SnapshotsPlaced, Placed, SnapshotsKept, Kept
<1>13. AcknowledgedHeld
  BY <1>1, <1>4 DEF AcknowledgedHeld
<1>14. BaselinesFirst
  BY <1>1, <1>4, <1>5, <1>8, <1>10 DEF BaselinesFirst
<1>15. Types
  BY <1>1, <1>4, <1>7, <1>9 DEF Types
<1>16. QED
  BY <1>11, <1>12, <1>13, <1>14, <1>15 DEF IInv

LEMMA StutterStep ==
  ASSUME IInv, UNCHANGED vars
  PROVE  IInv'
<1>1. /\ UNCHANGED <<active, needBaseline, deltaMessage, outgoingSequence, backlog, frames, ring,
                     toClient, toServer, cl>>
      /\ outgoingSequence \in Nat /\ Types
  BY DEF vars, client, IInv, Types, ServerTypes
<1>2. UNCHANGED <<snapshotEntities, nextSnapshotEntities, serverMessageSequence, snap, snapshots,
                  parseEntities, parseEntitiesNum, entityBaselines>>
  BY <1>1 DEF ring, cl
<1>3. Path' = Path /\ Upcoming' = Upcoming
  BY <1>1 DEF Path, Upcoming
<1>4. FramesKept
  BY <1>1, <1>3, FramesSame
<1>5. 0 \in 0 .. 1 /\ outgoingSequence' \in Nat /\ outgoingSequence <= outgoingSequence'
  BY <1>1
<1>6. \A k \in 1 .. Len(Path') : k + 0 \in 1 .. Len(Path) /\ Path'[k] = Path[k + 0]
  BY <1>1, <1>3, PathSame
<1>7. Numbered' /\ SnapshotsPlaced' /\ SnapshotsKept' /\ PathSound' /\ BaselinesFirst'
  BY <1>1, <1>3, <1>4, <1>5, <1>6, QuietStep
<1>8. AcknowledgedHeld'
  BY <1>1, ServerAhead
<1>9. ServerTypes' /\ ClientTypes' /\ toClient' \in Seq(Message) /\ toServer' \in Seq(Acknowledgement)
  BY <1>1, <1>2 DEF Types, ServerTypes, ClientTypes
<1>10. QED
  BY <1>7, <1>8, <1>9 DEF IInv, Types

\* The inductive invariant holds in every reachable state.
THEOREM Invariant == Spec => []IInv
<1>1. Init => IInv
  BY InitInvariant
<1>2. IInv /\ [Next]_vars => IInv'
  <2>1. SUFFICES ASSUME IInv, [Next]_vars PROVE IInv'
    OBVIOUS
  <2>2. CASE Lose
    BY <2>1, <2>2, LoseStep
  <2>3. CASE SV_SendClientSnapshot
    BY <2>1, <2>3, SendStep
  <2>4. CASE SV_Netchan_TransmitNextFragment
    BY <2>1, <2>4, FragmentStep
  <2>5. CASE OtherClient
    BY <2>1, <2>5, OtherClientStep
  <2>6. CASE SV_UserMove
    BY <2>1, <2>6, UserMoveStep
  <2>7. CASE CL_ParseServerMessage
    BY <2>1, <2>7, ParseStep
  <2>8. CASE CL_WritePacket
    BY <2>1, <2>8, WritePacketStep
  <2>9. CASE UNCHANGED vars
    BY <2>1, <2>9, StutterStep
  <2>10. QED
    BY <2>1, <2>2, <2>3, <2>4, <2>5, <2>6, <2>7, <2>8, <2>9 DEF Next
<1>3. QED
  BY <1>1, <1>2, PTL DEF Spec

\* "This should never hit" (SV_BuildClientSnapshot): whatever the sizes of the rings, the
\* index into the server's ring does not wrap and no frame points beyond it; and the
\* server never takes a number it has not sent for one the client acknowledged.
THEOREM TypeCorrect == Spec => []TypeOK
<1>1. IInv => TypeOK
  <2>1. SUFFICES ASSUME IInv PROVE TypeOK
    OBVIOUS
  <2>2. ServerTypes /\ ClientTypes
    BY <2>1 DEF IInv, Types
  <2>3. /\ outgoingSequence \in Nat /\ serverMessageSequence \in Nat /\ snap.messageNum \in Nat
        /\ snap.messageNum <= serverMessageSequence /\ serverMessageSequence < outgoingSequence
    BY <2>1, <2>2 DEF ServerTypes, ClientTypes, SnapshotType, IInv, Numbered
  <2>4. deltaMessage \in -1 .. outgoingSequence - 1
    <3>1. deltaMessage = -1 \/ deltaMessage \in 1 .. snap.messageNum
      BY <2>1 DEF IInv, AcknowledgedHeld, Acknowledged
    <3>2. QED
      BY <2>3, <3>1
  <2>5. serverMessageSequence \in snap.messageNum .. outgoingSequence - 1
    BY <2>3
  <2>6. ASSUME NEW i \in Packets
        PROVE  frames[i].first_entity <= nextSnapshotEntities
    <3> DEFINE a == frames[i].first_entity
               b == frames[i].num_entities
    <3>1. frames[i] \in FrameType /\ a + b <= nextSnapshotEntities /\ nextSnapshotEntities \in Int
      BY <2>2 DEF ServerTypes
    <3>2. a \in Nat /\ b \in 0 .. MAX_SNAPSHOT_ENTITIES
      BY <3>1 DEF FrameType
    <3> HIDE DEF a, b
    <3>3. a <= nextSnapshotEntities
      BY <3>1, <3>2, Sizes
    <3>4. QED
      BY <3>3 DEF a
  <2>7. ASSUME NEW i \in Packets
        PROVE  snapshots[i].parseEntitiesNum <= parseEntitiesNum
    <3> DEFINE a == snapshots[i].parseEntitiesNum
               b == snapshots[i].numEntities
    <3>1. a \in Nat /\ b \in Nat /\ a + b <= parseEntitiesNum /\ parseEntitiesNum \in Int
      BY <2>2 DEF ClientTypes, SnapshotType
    <3> HIDE DEF a, b
    <3>2. a <= parseEntitiesNum
      BY <3>1
    <3>3. QED
      BY <3>2 DEF a
  <2>8. QED
    BY <2>2, <2>4, <2>5, <2>6, <2>7 DEF TypeOK, ServerTypes, ClientTypes
<1>2. QED
  BY <1>1, Invariant, PTL

\* "Delta from invalid frame (not supposed to happen!)" (CL_ParseSnapshot): no snapshot
\* under way is the difference from one that the client does not hold, however many
\* messages were lost, delayed or left in the backlog.
THEOREM DeltaBase == Spec => []DeltaBaseHeld
<1>1. IInv => DeltaBaseHeld
  <2>1. SUFFICES ASSUME IInv, NEW k \in DOMAIN toClient, toClient[k].lastframe > 0
                 PROVE  Holds(toClient[k].num - toClient[k].lastframe)
    BY DEF DeltaBaseHeld, Holds
  <2>2. toClient \in Seq(Message) /\ k \in 1 .. Len(toClient)
    BY <2>1 DEF IInv, Types
  <2>3. k \in 1 .. Len(Path) /\ toClient[k] = Path[k]
    <3>1. Len(Path) = Len(toClient) + Len(backlog) /\ Len(backlog) \in Nat /\ Len(toClient) \in Nat
          /\ Path[k] = toClient[k]
      BY <2>1, <2>2, PathType DEF IInv, Types, ServerTypes
    <3>2. QED
      BY <2>2, <3>1
  <2>4. Sound(toClient[k])
    BY <2>1, <2>3 DEF IInv, PathSound
  <2>5. PICK view \in Views : Difference(toClient[k], view)
    BY <2>1, <2>4 DEF Sound
  <2>6. QED
    BY <2>1, <2>5 DEF Difference
<1>2. QED
  BY <1>1, Invariant, PTL

\* CL_GetSnapshot: as long as the client has the baselines of the map, every snapshot that
\* its game is given is, entity by entity, what the server's world showed when the
\* snapshot was built.
THEOREM GameSeesTheWorld == Spec => []GameSeesWorldWithBaselines
<1>1. IInv => GameSeesWorldWithBaselines
  <2>1. SUFFICES ASSUME IInv, entityBaselines = Baseline, NEW i \in Packets, Returned(snapshots[i])
                 PROVE  CL_GetSnapshot(snapshots[i]) = snapshots[i].built
    BY DEF GameSeesWorldWithBaselines, GameSeesWorld
  <2> DEFINE s == snapshots[i]
             n == Len(s.built)
  <2>2. /\ s.numEntities = n
        /\ \A k \in 1 .. n :
             Entry(parseEntities, maxParseEntities, s.parseEntitiesNum + k - 1) = s.built[k]
    BY <2>1 DEF Returned, IInv, SnapshotsKept, Kept
  <2>3. s.built \in Seq(Entity)
    BY <2>1 DEF IInv, Types, ClientTypes, SnapshotType
  <2>4. s.built = [k \in 1 .. n |-> s.built[k]]
    BY <2>3
  <2>5. CL_GetSnapshot(s) = [k \in 1 .. n |-> s.built[k]]
    BY <2>2 DEF CL_GetSnapshot
  <2>6. QED
    BY <2>4, <2>5
<1>2. QED
  BY <1>1, Invariant, PTL
=============================================================================
