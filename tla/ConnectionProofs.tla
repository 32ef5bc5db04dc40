-------------------------- MODULE ConnectionProofs --------------------------
(***************************************************************************)
(* Proofs about Connection: its types, that the two ends of a connection   *)
(* agree on its challenge, and that a client_t in use is not set up again. *)
(*                                                                         *)
(* Why a late connect does no harm is a matter of ages.  Until the client  *)
(* has its answer, the connects under way are at least as old as the       *)
(* answer, since the client does not ask again before the network has      *)
(* forgotten both; and the client_t is no older than the answer.  So as    *)
(* long as a connect is under way, the quick reject still holds.  Only a   *)
(* server that was restarted has no quick reject; but it has none of the   *)
(* challenges either.  A zombie that SV_ChangeMaxClients cleared has none, *)
(* and its challenges are left: then a late connect may be accepted, but   *)
(* not in place of the client_t of the connection the client has.          *)
(***************************************************************************)
EXTENDS Connection, ProofLemmas

Kinds == {"getchallenge", "challengeResponse", "connect", "connectResponse", "disconnect"}
Datagram == [kind : Kinds, challenge : Challenge, clientChallenge : Challenge,
             age : 0 .. MaxDelay]
Entry == [adr : Addresses, challenge : Challenge, connected : BOOLEAN,
          time : 0 .. MAX_CHALLENGES]
ClientType == [state : {"disconnected", "connecting", "challenging", "connected"},
               challenge : Challenge, connectTime : 0 .. RETRANSMIT_TIMEOUT,
               lastPacketTime : 0 .. cl_timeout]
SlotType == [state : {"free", "connected", "zombie"}, challenge : Challenge,
             lastConnectTime : 0 .. sv_reconnectlimit,
             lastPacketTime : 0 .. sv_timeout + sv_zombietime]

Types == /\ client \in ClientType
         /\ challenges \in [Indices -> Entry]
         /\ slot \in SlotType
         /\ net \in SUBSET Datagram
         /\ cleared \in BOOLEAN

\* No request or answer carries the number of a client without one.
Numbered ==
  /\ \A q \in net : q.kind \in {"connect", "connectResponse", "challengeResponse"}
                       => q.challenge # 0
  /\ client.state \in {"connecting", "challenging"} => client.challenge # 0

\* The challenge the client is about to be given was never used.
NewChallenge ==
  client.state = "connecting" =>
    \A p \in net : p.kind = "challengeResponse" /\ p.clientChallenge = client.challenge =>
      \A q \in net : q.kind # "challengeResponse" => q.challenge # p.challenge

\* Since it asked last, the client has waited no longer than its connect was under way.
Patience ==
  client.state = "challenging" =>
    \A q \in net : q.kind = "connect" /\ q.challenge = client.challenge
                      => client.connectTime <= q.age

\* The client_t of this connection is no older than age.
Held(age) == /\ slot.state # "free" /\ SameChallenge
             /\ slot.lastConnectTime <= age /\ slot.lastPacketTime <= age

\* A zombie was cleared early, and there is no connection that could be reset.
Released == cleared /\ ~(slot.state = "connected" /\ SameChallenge)

\* A connect with this number is refused, too soon or not one of the challenges, or
\* resets no connection.
Harmless(number, age) == Held(age) \/ Issued(number) = {} \/ Released

Agreed == slot.state = "connected" => SameChallenge \/ cleared

AnswerHolds ==
  client.state = "challenging" =>
    \A p \in net : p.kind = "connectResponse" /\ p.challenge = client.challenge =>
      /\ Agreed
      /\ client.connectTime <= p.age + MaxDelay
      /\ \A q \in net : q.kind = "connect" =>
            p.age <= q.age /\ Harmless(q.challenge, p.age)

ConnectionHolds ==
  client.state = "connected" =>
    /\ Agreed
    /\ \A q \in net : q.kind = "connect" => Harmless(q.challenge, q.age)

IInv == Types /\ Numbered /\ NewChallenge /\ Patience /\ AnswerHolds /\ ConnectionHolds

-----------------------------------------------------------------------------
\* The model's operators.

LEMMA Times ==
  /\ RETRANSMIT_TIMEOUT \in Nat /\ cl_timeout \in Nat /\ sv_reconnectlimit \in Nat
  /\ sv_timeout \in Nat /\ sv_zombietime \in Nat /\ MaxDelay \in Nat
  /\ MAX_CHALLENGES \in Nat /\ MAX_CHALLENGES # 0
  /\ 2 * MaxDelay < RETRANSMIT_TIMEOUT
  /\ MaxDelay < sv_reconnectlimit /\ MaxDelay < sv_zombietime /\ MaxDelay < sv_timeout
BY TableAssumption, TimeAssumption

\* A number that is drawn is new.
LEMMA DrawnIsNew ==
  ASSUME MayDraw
  PROVE  Random \in Numbers /\ Random \notin InUse /\ Random \in Challenge /\ Random # 0
<1> DEFINE S == Numbers \ InUse
<1>1. S \in SUBSET Nat /\ S # {} /\ 0 \notin Numbers
  BY TableAssumption DEF MayDraw
<1>2. \E n \in S : \A m \in S : n <= m
  <2> HIDE DEF S
  <2> QED
    BY <1>1, LeastNatural
<1>3. Random \in S
  BY <1>2 DEF Random
<1>4. QED
  BY <1>1, <1>3 DEF Challenge

\* As many values as there are challenges, at most.
LEMMA FewTimes ==
  ASSUME NEW f \in [Indices -> Int], NEW S \in SUBSET Indices
  PROVE  Cardinality({f[j] : j \in S}) \in 0 .. MAX_CHALLENGES
<1> DEFINE g == [j \in S |-> f[j]]
           T == {f[j] : j \in S}
<1>1. IsFiniteSet(Indices) /\ Cardinality(Indices) = MAX_CHALLENGES
  BY FS_Interval, Times DEF Indices
<1>2. IsFiniteSet(S) /\ Cardinality(S) <= MAX_CHALLENGES
  BY <1>1, FS_Subset
<1>3. g \in Surjection(S, T)
  BY DEF Surjection
<1>4. IsFiniteSet(T) /\ Cardinality(T) <= Cardinality(S)
  BY <1>2, <1>3, FS_Surjection
<1>5. Cardinality(T) \in Nat /\ Cardinality(S) \in Nat
  BY <1>2, <1>4, FS_CardinalityType
<1>6. QED
  BY <1>2, <1>4, <1>5, Times

\* Ranking a table changes nothing but the times, which it makes small.
LEMMA RankedKeeps ==
  ASSUME NEW table \in [Indices -> [adr : Addresses, challenge : Challenge,
                                    connected : BOOLEAN, time : Nat]]
  PROVE  /\ Ranked(table) \in [Indices -> Entry]
         /\ \A i \in Indices : /\ Ranked(table)[i].adr = table[i].adr
                               /\ Ranked(table)[i].challenge = table[i].challenge
<1> DEFINE f == [j \in Indices |-> table[j].time]
           S(i) == {k \in Indices : table[k].time # 0 /\ table[k].time <= table[i].time}
           count(i) == Cardinality({table[j].time : j \in S(i)})
           rank(i) == IF table[i].time = 0 THEN 0 ELSE count(i)
<1>1. ASSUME NEW i \in Indices
      PROVE  rank(i) \in 0 .. MAX_CHALLENGES
  <2>1. f \in [Indices -> Int] /\ S(i) \in SUBSET Indices
    OBVIOUS
  <2>2. {table[j].time : j \in S(i)} = {f[j] : j \in S(i)}
    OBVIOUS
  <2>3. Cardinality({f[j] : j \in S(i)}) \in 0 .. MAX_CHALLENGES
    <3> HIDE DEF f, S
    <3> QED
      BY <2>1, FewTimes
  <2>4. count(i) \in 0 .. MAX_CHALLENGES
    BY <2>2, <2>3, Zenon
  <2>5. 0 \in 0 .. MAX_CHALLENGES
    BY Times
  <2>6. QED
    <3> HIDE DEF count
    <3> QED
      BY <2>4, <2>5
<1>2. Ranked(table) = [i \in Indices |-> [table[i] EXCEPT !.time = rank(i)]]
  BY Zenon DEF Ranked
<1>3. QED
  <2> HIDE DEF rank
  <2> QED
    BY <1>1, <1>2 DEF Entry
\* Another challenge is the only one that is issued newly.
LEMMA GivenKeeps ==
  ASSUME Types, NEW from \in Addresses, NEW number \in Challenge, NEW i
  PROVE  /\ Given(from, number, i) \in [Indices -> Entry]
         /\ \A j \in Indices :
              \/ /\ Given(from, number, i)[j].adr = from
                 /\ Given(from, number, i)[j].challenge = number
              \/ /\ Given(from, number, i)[j].adr = challenges[j].adr
                 /\ Given(from, number, i)[j].challenge = challenges[j].challenge
<1> DEFINE entry == [adr |-> from, challenge |-> number, connected |-> FALSE,
                     time |-> MAX_CHALLENGES + 1]
           table == [challenges EXCEPT ![i] = entry]
           Loose == [adr : Addresses, challenge : Challenge, connected : BOOLEAN, time : Nat]
<1>1. challenges \in [Indices -> Loose]
  <2>1. 0 .. MAX_CHALLENGES \subseteq Nat
    BY Times
  <2>2. QED
    BY <2>1 DEF Types, Entry
<1>2. entry \in Loose
  BY Times
<1>3. /\ table \in [Indices -> Loose]
      /\ \A j \in Indices : table[j] = IF j = i THEN entry ELSE challenges[j]
  <2> HIDE DEF entry, Loose
  <2> QED
    BY <1>1, <1>2
<1>4. /\ Ranked(table) \in [Indices -> Entry]
      /\ \A j \in Indices : /\ Ranked(table)[j].adr = table[j].adr
                            /\ Ranked(table)[j].challenge = table[j].challenge
  <2> HIDE DEF table
  <2> QED
    BY <1>3, RankedKeeps
<1>5. Given(from, number, i) = Ranked(table)
  BY Zenon DEF Given
<1>6. entry.adr = from /\ entry.challenge = number
  OBVIOUS
<1>7. QED
  <2> HIDE DEF table, entry
  <2> QED
    BY <1>3, <1>4, <1>5, <1>6

\* A challenge that is removed is not issued any more.
LEMMA DroppedKeeps ==
  ASSUME Types
  PROVE  /\ Dropped \in [Indices -> Entry]
         /\ \A j \in Indices :
              \/ Dropped[j].adr = Unknown
              \/ /\ Dropped[j].adr = challenges[j].adr
                 /\ Dropped[j].challenge = challenges[j].challenge
<1> DEFINE mine == {j \in Indices : challenges[j].adr = Here}
           table == [challenges EXCEPT ![First(mine)] = NoChallenge]
           Loose == [adr : Addresses, challenge : Challenge, connected : BOOLEAN, time : Nat]
<1>1. challenges \in [Indices -> Loose]
  <2>1. 0 .. MAX_CHALLENGES \subseteq Nat
    BY Times
  <2>2. QED
    BY <2>1 DEF Types, Entry
<1>2. NoChallenge \in Loose /\ NoChallenge.adr = Unknown
  BY DEF NoChallenge, Addresses, Challenge, Unknown
<1>3. /\ table \in [Indices -> Loose]
      /\ \A j \in Indices : table[j] = challenges[j] \/ table[j] = NoChallenge
  <2> HIDE DEF Loose, mine
  <2> QED
    BY <1>1, <1>2
<1>4. /\ Ranked(table) \in [Indices -> Entry]
      /\ \A j \in Indices : /\ Ranked(table)[j].adr = table[j].adr
                            /\ Ranked(table)[j].challenge = table[j].challenge
  <2> HIDE DEF table
  <2> QED
    BY <1>3, RankedKeeps
<1>5. Dropped = challenges \/ Dropped = Ranked(table)
  BY Zenon DEF Dropped
<1>6. CASE Dropped = challenges
  BY <1>6 DEF Types
<1>7. CASE Dropped = Ranked(table)
  <2> HIDE DEF table
  <2> QED
    BY <1>2, <1>3, <1>4, <1>7
<1>8. QED
  BY <1>5, <1>6, <1>7

-----------------------------------------------------------------------------
\* Steps of the server that leave the datagrams alone.

LEMMA ServerStep ==
  ASSUME IInv, Types', client' = client, net' = net,
         Agreed => Agreed', Released => Released',
         \A n : n # 0 /\ Issued(n) = {} => Issued(n)' = {},
         \/ \A age \in 0 .. MaxDelay : Held(age) => Held(age)'
         \/ \A n : n # 0 => Issued(n)' = {}
  PROVE  IInv'
<1>1. Numbered' /\ NewChallenge' /\ Patience'
  BY DEF IInv, Numbered, NewChallenge, Patience
<1>2. ASSUME NEW q \in net, q.kind = "connect", NEW age \in 0 .. MaxDelay,
             Harmless(q.challenge, age)
      PROVE  Harmless(q.challenge, age)'
  <2>1. q.challenge # 0
    BY <1>2 DEF IInv, Numbered
  <2>2. CASE Held(age) /\ \A a \in 0 .. MaxDelay : Held(a) => Held(a)'
    BY <2>2 DEF Harmless
  <2>3. CASE Issued(q.challenge)' = {}
    BY <2>3 DEF Harmless
  <2>4. CASE Released
    BY <2>4 DEF Harmless
  <2>5. QED
    BY <1>2, <2>1, <2>2, <2>3, <2>4 DEF Harmless
<1>3. \A p \in net : p.age \in 0 .. MaxDelay
  BY DEF IInv, Types, Datagram
<1>4. AnswerHolds'
  BY <1>2, <1>3 DEF IInv, AnswerHolds
<1>5. ConnectionHolds'
  BY <1>2, <1>3 DEF IInv, ConnectionHolds
<1>6. QED
  BY <1>1, <1>4, <1>5 DEF IInv

LEMMA ElsewhereStep ==
  ASSUME IInv, SV_GetChallenge_Elsewhere
  PROVE  IInv'
<1>1. PICK i : challenges' = Given(Elsewhere, 0, i)
  BY DEF SV_GetChallenge_Elsewhere
<1>2. client' = client /\ slot' = slot /\ net' = net /\ cleared' = cleared
  BY DEF SV_GetChallenge_Elsewhere
<1>3. Elsewhere \in Addresses /\ 0 \in Challenge /\ Elsewhere # Here
  BY DEF Addresses, Challenge, Elsewhere, Here
<1>4. /\ challenges' \in [Indices -> Entry]
      /\ \A j \in Indices : \/ challenges'[j].adr = Elsewhere
                            \/ /\ challenges'[j].adr = challenges[j].adr
                               /\ challenges'[j].challenge = challenges[j].challenge
  BY <1>1, <1>3, GivenKeeps DEF IInv
<1>5. \A n : n # 0 /\ Issued(n) = {} => Issued(n)' = {}
  BY <1>3, <1>4 DEF Issued
<1>6. Types'
  BY <1>2, <1>4 DEF IInv, Types
<1>7. /\ (Agreed => Agreed') /\ (Released => Released')
      /\ \A age \in 0 .. MaxDelay : Held(age) => Held(age)'
  BY <1>2 DEF Agreed, Held, Released, SameChallenge
<1>8. QED
  BY <1>2, <1>5, <1>6, <1>7, ServerStep

LEMMA PacketEventStep ==
  ASSUME IInv, SV_PacketEvent
  PROVE  IInv'
<1>1. /\ slot' = [slot EXCEPT !.lastPacketTime = 0]
      /\ client' = client /\ challenges' = challenges /\ net' = net /\ cleared' = cleared
  BY DEF SV_PacketEvent
<1>2. Types'
  BY <1>1, Times DEF IInv, Types, SlotType
<1>3. /\ (Agreed => Agreed') /\ (Released => Released')
      /\ \A age \in 0 .. MaxDelay : Held(age) => Held(age)'
  BY <1>1, Times DEF Agreed, Held, Released, SameChallenge, IInv, Types, SlotType
<1>4. \A n : n # 0 /\ Issued(n) = {} => Issued(n)' = {}
  BY <1>1 DEF Issued
<1>5. QED
  BY <1>1, <1>2, <1>3, <1>4, ServerStep

LEMMA DroppedIssuesNone ==
  ASSUME IInv, challenges' = Dropped \/ challenges' = challenges
  PROVE  /\ challenges' \in [Indices -> Entry]
         /\ \A n : n # 0 /\ Issued(n) = {} => Issued(n)' = {}
<1>1. Unknown # Here
  BY DEF Unknown, Here
<1>2. /\ challenges' \in [Indices -> Entry]
      /\ \A j \in Indices : \/ challenges'[j].adr = Unknown
                            \/ /\ challenges'[j].adr = challenges[j].adr
                               /\ challenges'[j].challenge = challenges[j].challenge
  BY DroppedKeeps DEF IInv, Types
<1>3. QED
  BY <1>1, <1>2 DEF Issued

LEMMA DropClientStep ==
  ASSUME IInv, SV_DropClient
  PROVE  IInv'
<1>1. /\ slot' = [slot EXCEPT !.state = "zombie",
                              !.lastPacketTime = IF @ < sv_zombietime THEN @ ELSE sv_zombietime]
      /\ challenges' = Dropped /\ client' = client /\ net' = net /\ cleared' = cleared
  BY DEF SV_DropClient
<1>2. /\ challenges' \in [Indices -> Entry]
      /\ \A n : n # 0 /\ Issued(n) = {} => Issued(n)' = {}
  BY <1>1, DroppedIssuesNone
<1>3. slot' \in SlotType
  <2>1. slot \in SlotType
    BY DEF IInv, Types
  <2> DEFINE age == IF slot.lastPacketTime < sv_zombietime THEN slot.lastPacketTime
                    ELSE sv_zombietime
  <2>2. age \in 0 .. sv_timeout + sv_zombietime
    BY <2>1, Times DEF SlotType
  <2>3. slot' = [slot EXCEPT !.state = "zombie", !.lastPacketTime = age]
    BY <1>1, Zenon
  <2>4. QED
    <3> HIDE DEF age
    <3> QED
      BY <2>1, <2>2, <2>3 DEF SlotType
<1>4. Types'
  BY <1>1, <1>2, <1>3 DEF IInv, Types
<1>5. /\ (Agreed => Agreed') /\ (Released => Released')
      /\ \A age \in 0 .. MaxDelay : Held(age) => Held(age)'
  BY <1>1, Times DEF Agreed, Held, Released, SameChallenge, IInv, Types, SlotType
<1>6. QED
  BY <1>1, <1>2, <1>4, <1>5, ServerStep

\* A client_t whose time is over was set up before any of the connects was sent.
LEMMA CheckTimeoutsStep ==
  ASSUME IInv, SV_CheckTimeouts
  PROVE  IInv'
<1>1. /\ slot' = NoClient /\ client' = client /\ net' = net /\ cleared' = cleared
      /\ challenges' = Dropped \/ challenges' = challenges
      /\ slot.lastPacketTime >= sv_zombietime \/ slot.lastPacketTime >= sv_timeout
  BY DEF SV_CheckTimeouts
<1>2. /\ challenges' \in [Indices -> Entry]
      /\ \A n : n # 0 /\ Issued(n) = {} => Issued(n)' = {}
  BY <1>1, DroppedIssuesNone
<1>3. slot' \in SlotType
  BY <1>1, Times DEF NoClient, SlotType, Challenge
<1>4. Types'
  BY <1>1, <1>2, <1>3 DEF IInv, Types
<1>5. Agreed' /\ (Released => Released')
  BY <1>1 DEF Agreed, Released, NoClient
<1>6. \A age \in 0 .. MaxDelay : ~Held(age)
  BY <1>1, Times DEF Held, IInv, Types, SlotType
<1>7. QED
  BY <1>1, <1>2, <1>4, <1>5, <1>6, ServerStep

LEMMA RestartStep ==
  ASSUME IInv, SV_Restart
  PROVE  IInv'
<1>1. /\ slot' = NoClient /\ client' = client /\ net' = net /\ cleared' = cleared
      /\ challenges' = [i \in Indices |-> NoChallenge]
  BY DEF SV_Restart
<1>2. Types'
  BY <1>1, Times DEF IInv, Types, NoClient, SlotType, Challenge, NoChallenge, Entry, Addresses
<1>3. Agreed' /\ (Released => Released')
  BY <1>1 DEF Agreed, Released, NoClient
<1>4. \A n : n # 0 => Issued(n)' = {}
  BY <1>1 DEF Issued, NoChallenge, Unknown, Here
<1>5. QED
  BY <1>1, <1>2, <1>3, <1>4, ServerStep

\* While a connect is under way, clearing a zombie is what cleared says; otherwise there
\* is none that could do harm.
LEMMA ChangeMaxClientsStep ==
  ASSUME IInv, SV_ChangeMaxClients
  PROVE  IInv'
<1>1. /\ slot' = NoClient /\ client' = client /\ net' = net /\ challenges' = challenges
      /\ cleared' = (cleared \/ Arrived("connect") # {})
  BY DEF SV_ChangeMaxClients
<1>2. NoClient \in SlotType
  BY Times DEF NoClient, SlotType, Challenge
<1>3. Types'
  BY <1>1, <1>2 DEF IInv, Types
<1>4. Numbered' /\ NewChallenge' /\ Patience'
  BY <1>1 DEF IInv, Numbered, NewChallenge, Patience
<1>5. Agreed' /\ \A q \in net : q.kind = "connect" => \A age : Harmless(q.challenge, age)'
  BY <1>1 DEF Agreed, Harmless, Released, NoClient, Arrived
<1>6. AnswerHolds' /\ ConnectionHolds'
  BY <1>1, <1>5 DEF IInv, AnswerHolds, ConnectionHolds
<1>7. QED
  BY <1>3, <1>4, <1>6 DEF IInv
-----------------------------------------------------------------------------
\* A tick.

LEMMA TickStep ==
  ASSUME IInv, Tick
  PROVE  IInv'
<1>1. /\ client \in ClientType /\ slot \in SlotType /\ net \in SUBSET Datagram
      /\ challenges \in [Indices -> Entry]
  BY DEF IInv, Types
<1>2. \A p \in net' : \E q \in net : q.age < MaxDelay /\ p = [q EXCEPT !.age = @ + 1]
  BY DEF Tick
<1>3. \A p \in net' : \E q \in net :
        /\ q.age \in 0 .. MaxDelay - 1 /\ p \in Datagram /\ p.age = q.age + 1
        /\ p.kind = q.kind /\ p.challenge = q.challenge
        /\ p.clientChallenge = q.clientChallenge
  <2>1. SUFFICES ASSUME NEW p \in net'
                 PROVE  \E q \in net :
                          /\ q.age \in 0 .. MaxDelay - 1 /\ p \in Datagram
                          /\ p.age = q.age + 1 /\ p.kind = q.kind
                          /\ p.challenge = q.challenge
                          /\ p.clientChallenge = q.clientChallenge
    OBVIOUS
  <2>2. PICK q \in net : q.age < MaxDelay /\ p = [q EXCEPT !.age = @ + 1]
    BY <1>2, <2>1
  <2>3. q \in Datagram
    BY <1>1
  <2>4. QED
    BY <2>2, <2>3, Times DEF Datagram
<1>4. /\ client' \in ClientType /\ client'.state = client.state
      /\ client'.challenge = client.challenge
      /\ client'.connectTime <= client.connectTime + 1
  <2>1. /\ Older(client.lastPacketTime, cl_timeout) \in 0 .. cl_timeout
        /\ Older(client.connectTime, RETRANSMIT_TIMEOUT) \in 0 .. RETRANSMIT_TIMEOUT
        /\ Older(client.connectTime, RETRANSMIT_TIMEOUT) <= client.connectTime + 1
    BY <1>1, Times DEF Older, ClientType
  <2>2. \/ client' = client
        \/ client' = [client EXCEPT !.lastPacketTime = Older(@, cl_timeout)]
        \/ client' = [client EXCEPT !.connectTime = Older(@, RETRANSMIT_TIMEOUT)]
    BY DEF Tick
  <2>3. QED
    BY <1>1, <2>1, <2>2 DEF ClientType
<1>5. /\ slot' \in SlotType /\ slot'.state = slot.state
      /\ slot'.challenge = slot.challenge
      /\ slot'.lastConnectTime <= slot.lastConnectTime + 1
      /\ slot'.lastPacketTime <= slot.lastPacketTime + 1
  <2> DEFINE limit == IF slot.state = "zombie" THEN sv_zombietime ELSE sv_timeout
             a == Older(slot.lastConnectTime, sv_reconnectlimit)
             b == Older(slot.lastPacketTime, limit)
  <2>1. /\ a \in 0 .. sv_reconnectlimit /\ a <= slot.lastConnectTime + 1
        /\ b \in 0 .. sv_timeout + sv_zombietime /\ b <= slot.lastPacketTime + 1
    BY <1>1, Times DEF Older, SlotType
  <2>2. \/ slot' = slot
        \/ slot' = [slot EXCEPT !.lastConnectTime = a, !.lastPacketTime = b]
    BY Zenon DEF Tick
  <2>3. CASE slot' = slot
    BY <1>1, <2>3, Times DEF SlotType
  <2>4. CASE slot' = [slot EXCEPT !.lastConnectTime = a, !.lastPacketTime = b]
    <3> HIDE DEF a, b
    <3> QED
      BY <1>1, <2>1, <2>4 DEF SlotType
  <2>5. QED
    BY <2>2, <2>3, <2>4
<1>6. /\ challenges' \in [Indices -> Entry]
      /\ \A i \in Indices : /\ challenges'[i].adr = challenges[i].adr
                            /\ \/ challenges'[i].challenge = 0
                               \/ challenges'[i].challenge = challenges[i].challenge
  <2>1. 0 \in Challenge
    BY DEF Challenge
  <2>2. QED
    BY <1>1, <2>1 DEF Tick, Entry
<1>7. \A n : n # 0 /\ Issued(n) = {} => Issued(n)' = {}
  BY <1>6 DEF Issued
<1>8. Types' /\ cleared' = cleared
  BY <1>3, <1>4, <1>5, <1>6 DEF IInv, Types, Tick
<1>9. Numbered'
  BY <1>3, <1>4 DEF IInv, Numbered
<1>10. NewChallenge'
  BY <1>3, <1>4 DEF IInv, NewChallenge
<1>11. Patience'
  BY <1>1, <1>3, <1>4, Times DEF IInv, Patience, ClientType
<1>12. (Agreed => Agreed') /\ (Released => Released')
  BY <1>4, <1>5, <1>8 DEF Agreed, Released, SameChallenge
<1>13. \A age \in Nat : Held(age) => Held(age + 1)'
  BY <1>1, <1>4, <1>5, Times DEF Held, SameChallenge, SlotType
<1>14. ASSUME NEW q \in net, q.kind = "connect", NEW age \in Nat,
              Harmless(q.challenge, age)
       PROVE  Harmless(q.challenge, age + 1)'
  BY <1>7, <1>12, <1>13, <1>14 DEF Harmless, IInv, Numbered
<1>15. AnswerHolds'
  <2>1. SUFFICES ASSUME client'.state = "challenging", NEW p \in net',
                        p.kind = "connectResponse", p.challenge = client'.challenge
                 PROVE  /\ Agreed'
                        /\ client'.connectTime <= p.age + MaxDelay
                        /\ \A q \in net' : q.kind = "connect" =>
                              p.age <= q.age /\ Harmless(q.challenge, p.age)'
    BY DEF AnswerHolds
  <2>2. PICK p0 \in net : /\ p0.age \in 0 .. MaxDelay - 1 /\ p.age = p0.age + 1
                          /\ p.kind = p0.kind /\ p.challenge = p0.challenge
    BY <1>3, <2>1
  <2>3. /\ Agreed /\ client.connectTime <= p0.age + MaxDelay
        /\ \A q \in net : q.kind = "connect" => p0.age <= q.age /\ Harmless(q.challenge, p0.age)
    BY <1>4, <2>1, <2>2 DEF IInv, AnswerHolds
  <2>4. client'.connectTime <= p.age + MaxDelay
    BY <1>1, <1>4, <2>2, <2>3, Times DEF ClientType
  <2>5. ASSUME NEW q \in net', q.kind = "connect"
        PROVE  p.age <= q.age /\ Harmless(q.challenge, p.age)'
    <3>1. PICK q0 \in net : /\ q0.age \in 0 .. MaxDelay - 1 /\ q.age = q0.age + 1
                            /\ q.kind = q0.kind /\ q.challenge = q0.challenge
      BY <1>3, <2>5
    <3>2. p0.age <= q0.age /\ Harmless(q0.challenge, p0.age)
      BY <2>3, <2>5, <3>1
    <3>3. p0.age \in Nat
      BY <2>2, Times
    <3>4. Harmless(q0.challenge, p0.age + 1)'
      BY <1>14, <2>5, <3>1, <3>2, <3>3
    <3>5. QED
      BY <2>2, <3>1, <3>2, <3>4, Times
  <2>6. QED
    BY <1>12, <2>3, <2>4, <2>5
<1>16. ConnectionHolds'
  <2>1. SUFFICES ASSUME client'.state = "connected"
                 PROVE  /\ Agreed'
                        /\ \A q \in net' : q.kind = "connect" =>
                              Harmless(q.challenge, q.age)'
    BY DEF ConnectionHolds
  <2>2. Agreed /\ \A q \in net : q.kind = "connect" => Harmless(q.challenge, q.age)
    BY <1>4, <2>1 DEF IInv, ConnectionHolds
  <2>3. ASSUME NEW q \in net', q.kind = "connect"
        PROVE  Harmless(q.challenge, q.age)'
    <3>1. PICK q0 \in net : /\ q0.age \in 0 .. MaxDelay - 1 /\ q.age = q0.age + 1
                            /\ q.kind = q0.kind /\ q.challenge = q0.challenge
      BY <1>3, <2>3
    <3>2. q0.age \in Nat /\ Harmless(q0.challenge, q0.age)
      BY <2>2, <2>3, <3>1, Times
    <3>3. Harmless(q0.challenge, q0.age + 1)'
      BY <1>14, <2>3, <3>1, <3>2
    <3>4. QED
      BY <3>1, <3>3
  <2>4. QED
    BY <1>12, <2>2, <2>3
<1>17. QED
  BY <1>8, <1>9, <1>10, <1>11, <1>15, <1>16 DEF IInv
-----------------------------------------------------------------------------
\* The client's own steps, and the server's answers.

LEMMA SentIn ==
  /\ \A packets : Sent(packets) \subseteq net \cup packets
  /\ \A p, answer : Answered(p, answer) \subseteq net \cup {answer}
BY DEF Sent, Answered

LEMMA PacketType ==
  ASSUME NEW kind \in Kinds, NEW challenge \in Challenge, NEW clientChallenge \in Challenge
  PROVE  /\ Packet(kind, challenge, clientChallenge) \in Datagram
         /\ Packet(kind, challenge, clientChallenge).kind = kind
         /\ Packet(kind, challenge, clientChallenge).challenge = challenge
         /\ Packet(kind, challenge, clientChallenge).clientChallenge = clientChallenge
         /\ Packet(kind, challenge, clientChallenge).age = 0
BY Times DEF Packet, Datagram

LEMMA DisconnectStep ==
  ASSUME IInv, CL_Disconnect
  PROVE  IInv'
<1>1. /\ client' = Disconnected /\ net' = Sent(Farewell)
      /\ challenges' = challenges /\ slot' = slot /\ cleared' = cleared
  BY DEF CL_Disconnect
<1>2. \A q \in net' : q \in net \/ (q.kind = "disconnect" /\ q \in Datagram)
  <2>1. client.challenge \in Challenge /\ 0 \in Challenge /\ "disconnect" \in Kinds
    BY DEF IInv, Types, ClientType, Challenge, Kinds
  <2>2. \A q \in Farewell : q.kind = "disconnect" /\ q \in Datagram
    BY <2>1, PacketType DEF Farewell
  <2>3. QED
    BY <1>1, <2>2, SentIn
<1>3. Disconnected \in ClientType /\ Disconnected.state = "disconnected"
  BY Times DEF Disconnected, ClientType, Challenge
<1>4. Types'
  BY <1>1, <1>2, <1>3 DEF IInv, Types
<1>5. Numbered'
  BY <1>1, <1>2, <1>3 DEF IInv, Numbered
<1>6. NewChallenge' /\ Patience' /\ AnswerHolds' /\ ConnectionHolds'
  BY <1>1, <1>3 DEF NewChallenge, Patience, AnswerHolds, ConnectionHolds
<1>7. QED
  BY <1>4, <1>5, <1>6 DEF IInv

LEMMA ConnectStep ==
  ASSUME IInv, CL_Connect_f
  PROVE  IInv'
<1>1. /\ client' = [Disconnected EXCEPT !.state = "connecting", !.challenge = Random,
                                        !.connectTime = RETRANSMIT_TIMEOUT]
      /\ challenges' = challenges /\ slot' = slot /\ net' = net /\ cleared' = cleared
      /\ MayDraw
  BY DEF CL_Connect_f
<1>2. Random \in Challenge /\ Random # 0 /\ Random \notin InUse
  BY <1>1, DrawnIsNew
<1>3. /\ client' \in ClientType /\ client'.state = "connecting"
      /\ client'.challenge = Random
  <2>1. Disconnected \in ClientType
    BY Times DEF Disconnected, ClientType, Challenge
  <2>2. RETRANSMIT_TIMEOUT \in 0 .. RETRANSMIT_TIMEOUT
    BY Times
  <2>3. PICK n \in Challenge : n = Random
    BY <1>2
  <2>4. client' = [Disconnected EXCEPT !.state = "connecting", !.challenge = n,
                                       !.connectTime = RETRANSMIT_TIMEOUT]
    BY <1>1, <2>3
  <2>5. QED
    BY <2>1, <2>2, <2>3, <2>4 DEF ClientType
<1>4. Types'
  BY <1>1, <1>3 DEF IInv, Types
<1>5. Numbered'
  BY <1>1, <1>2, <1>3 DEF IInv, Numbered
<1>6. NewChallenge'
  <2>1. \A p \in net : p.clientChallenge # Random
    BY <1>2 DEF InUse
  <2>2. QED
    BY <1>1, <1>3, <2>1 DEF NewChallenge
<1>7. Patience' /\ AnswerHolds' /\ ConnectionHolds'
  BY <1>3 DEF Patience, AnswerHolds, ConnectionHolds
<1>8. QED
  BY <1>4, <1>5, <1>6, <1>7 DEF IInv

\* The client asks again only when an answer cannot be under way any more.
LEMMA CheckForResendStep ==
  ASSUME IInv, CL_CheckForResend
  PROVE  IInv'
<1> DEFINE packet == IF client.state = "connecting"
                     THEN Packet("getchallenge", 0, client.challenge)
                     ELSE Packet("connect", client.challenge, 0)
<1>1. /\ client' = [client EXCEPT !.connectTime = 0] /\ net' = Sent({packet})
      /\ challenges' = challenges /\ slot' = slot /\ cleared' = cleared
      /\ client.state \in {"connecting", "challenging"}
      /\ client.connectTime >= RETRANSMIT_TIMEOUT
  BY DEF CL_CheckForResend, Asking
<1>2. /\ packet \in Datagram /\ packet.age = 0
      /\ client.state = "connecting" =>
           packet.kind = "getchallenge" /\ packet.challenge = 0
      /\ client.state # "connecting" =>
           packet.kind = "connect" /\ packet.challenge = client.challenge
  <2>1. client.challenge \in Challenge /\ 0 \in Challenge
    BY DEF IInv, Types, ClientType, Challenge
  <2>2. QED
    BY <2>1, PacketType DEF Kinds
<1>3. \A q \in net' : q \in net \/ q = packet
  BY <1>1, SentIn
<1> HIDE DEF packet
<1>4. /\ client' \in ClientType /\ client'.state = client.state
      /\ client'.challenge = client.challenge /\ client'.connectTime = 0
  BY <1>1, Times DEF IInv, Types, ClientType
<1>5. Types'
  BY <1>1, <1>2, <1>3, <1>4 DEF IInv, Types
<1>6. Numbered'
  BY <1>1, <1>2, <1>3, <1>4 DEF IInv, Numbered
<1>7. NewChallenge'
  BY <1>2, <1>3, <1>4 DEF IInv, NewChallenge, Numbered
<1>8. Patience'
  BY <1>2, <1>3, <1>4, Times DEF IInv, Types, Datagram, Patience
<1>9. AnswerHolds'
  <2>1. ASSUME client.state = "challenging", NEW p \in net, p.kind = "connectResponse",
               p.challenge = client.challenge
        PROVE  FALSE
    <3>1. client.connectTime <= p.age + MaxDelay
      BY <2>1 DEF IInv, AnswerHolds
    <3>2. p.age \in 0 .. MaxDelay /\ client.connectTime \in Nat
      BY Times DEF IInv, Types, Datagram, ClientType
    <3>3. QED
      BY <1>1, <3>1, <3>2, Times
  <2>2. QED
    BY <1>1, <1>2, <1>3, <1>4, <2>1 DEF AnswerHolds
<1>10. ConnectionHolds'
  BY <1>1, <1>4 DEF ConnectionHolds
<1>11. QED
  BY <1>5, <1>6, <1>7, <1>8, <1>9, <1>10 DEF IInv

LEMMA GetChallengeStep ==
  ASSUME IInv, NEW p \in net, SV_GetChallenge(p)
  PROVE  IInv'
<1>1. PICK i : challenges' = Given(Here, Random, i)
  BY DEF SV_GetChallenge
<1> DEFINE answer == Packet("challengeResponse", Random, p.clientChallenge)
<1>2. /\ client' = client /\ slot' = slot /\ cleared' = cleared /\ MayDraw
      /\ net' \subseteq net \cup {answer}
  BY SentIn DEF SV_GetChallenge
<1>3. Random \in Challenge /\ Random # 0 /\ Random \notin InUse
  BY <1>2, DrawnIsNew
<1>4. /\ answer \in Datagram /\ answer.kind = "challengeResponse"
      /\ answer.challenge = Random
  <2>1. p.clientChallenge \in Challenge
    BY DEF IInv, Types, Datagram
  <2>2. QED
    BY <1>3, <2>1, PacketType DEF Kinds
<1> HIDE DEF answer
<1>5. /\ challenges' \in [Indices -> Entry]
      /\ \A j \in Indices : \/ challenges'[j].challenge = Random
                            \/ /\ challenges'[j].adr = challenges[j].adr
                               /\ challenges'[j].challenge = challenges[j].challenge
  <2>1. Here \in Addresses
    BY DEF Addresses
  <2>2. QED
    BY <1>1, <1>3, <2>1, GivenKeeps DEF IInv
<1>6. \A q \in net : q.challenge # Random
  BY <1>3 DEF InUse, Known
<1>7. \A q \in net : Issued(q.challenge) = {} => Issued(q.challenge)' = {}
  BY <1>5, <1>6 DEF Issued
<1>8. Types'
  BY <1>2, <1>4, <1>5 DEF IInv, Types
<1>9. Numbered'
  BY <1>2, <1>3, <1>4 DEF IInv, Numbered
<1>10. NewChallenge'
  BY <1>2, <1>4, <1>6 DEF IInv, NewChallenge
<1>11. Patience'
  BY <1>2, <1>4 DEF IInv, Patience
<1>12. /\ (Agreed => Agreed') /\ (Released => Released')
       /\ \A age : Held(age) => Held(age)'
  BY <1>2 DEF Agreed, Held, Released, SameChallenge
<1>13. \A q \in net : \A age : Harmless(q.challenge, age) => Harmless(q.challenge, age)'
  BY <1>7, <1>12 DEF Harmless
<1>14. AnswerHolds'
  BY <1>2, <1>4, <1>12, <1>13 DEF IInv, AnswerHolds
<1>15. ConnectionHolds'
  BY <1>2, <1>4, <1>12, <1>13 DEF IInv, ConnectionHolds
<1>16. QED
  BY <1>8, <1>9, <1>10, <1>11, <1>14, <1>15 DEF IInv
\* A connect that is accepted is no late one: the client is not connected, and no
\* answer to the challenge it is waiting with is under way.
LEMMA AcceptedIsWanted ==
  ASSUME IInv, NEW p \in net, p.kind = "connect", Accepted(p), ~Released
  PROVE  /\ client.state # "connected"
         /\ client.state = "challenging" =>
              \A q \in net : q.kind = "connectResponse" => q.challenge # client.challenge
<1>1. \A age \in 0 .. MaxDelay : ~Harmless(p.challenge, age)
  BY Times DEF IInv, Types, SlotType, Harmless, Held, Accepted, TooSoon
<1>2. \A q \in net : q.age \in 0 .. MaxDelay
  BY DEF IInv, Types, Datagram
<1>3. client.state # "connected"
  BY <1>1, <1>2 DEF IInv, ConnectionHolds
<1>4. ASSUME client.state = "challenging", NEW q \in net,
             q.kind = "connectResponse", q.challenge = client.challenge
      PROVE  FALSE
  BY <1>1, <1>2, <1>4 DEF IInv, AnswerHolds
<1>5. QED
  BY <1>3, <1>4

LEMMA AcceptedTable ==
  ASSUME IInv, NEW p, Accepted(p)
  PROVE  challenges' \in [Indices -> Entry]
<1>1. PICK i : challenges' = [challenges EXCEPT ![i].connected = TRUE]
  BY DEF Accepted
<1>2. challenges \in [Indices -> Entry]
  BY DEF IInv, Types
<1>3. CASE i \in Indices
  <2>1. [challenges[i] EXCEPT !.connected = TRUE] \in Entry
    BY <1>2, <1>3 DEF Entry
  <2>2. QED
    BY <1>1, <1>2, <2>1
<1>4. CASE i \notin Indices
  BY <1>1, <1>2, <1>4
<1>5. QED
  BY <1>3, <1>4

LEMMA DirectConnectStep ==
  ASSUME IInv, NEW p \in net, p.kind = "connect", SV_DirectConnect(p)
  PROVE  IInv'
<1> DEFINE answer == Packet("connectResponse", p.challenge, 0)
<1>1. /\ slot' = [NoClient EXCEPT !.state = "connected", !.challenge = p.challenge]
      /\ net' \subseteq net \cup {answer} /\ client' = client /\ cleared' = cleared
      /\ Accepted(p)
  BY SentIn DEF SV_DirectConnect
<1>2. p \in Datagram /\ p.challenge # 0
  BY DEF IInv, Types, Numbered
<1>3. /\ answer \in Datagram /\ answer.kind = "connectResponse"
      /\ answer.challenge = p.challenge /\ answer.age = 0
  <2>1. p.challenge \in Challenge /\ 0 \in Challenge
    BY <1>2 DEF Datagram, Challenge
  <2>2. QED
    BY <2>1, PacketType DEF Kinds
<1> HIDE DEF answer
<1>4. \/ Released
      \/ /\ client.state # "connected"
         /\ client.state = "challenging" =>
              \A q \in net : q.kind = "connectResponse" => q.challenge # client.challenge
  BY <1>1, AcceptedIsWanted
<1>5. /\ slot' \in SlotType /\ slot'.state # "free" /\ slot'.challenge = p.challenge
      /\ slot'.lastConnectTime = 0 /\ slot'.lastPacketTime = 0
  <2>1. /\ NoClient \in SlotType /\ NoClient.lastConnectTime = 0
        /\ NoClient.lastPacketTime = 0
    BY Times DEF NoClient, SlotType, Challenge
  <2>2. PICK n \in Challenge : n = p.challenge
    BY <1>2 DEF Datagram
  <2>3. slot' = [NoClient EXCEPT !.state = "connected", !.challenge = n]
    BY <1>1, <2>2
  <2>4. QED
    BY <2>1, <2>2, <2>3 DEF SlotType
<1>6. Types'
  BY <1>1, <1>3, <1>5, AcceptedTable DEF IInv, Types
<1>7. Numbered'
  BY <1>1, <1>2, <1>3 DEF IInv, Numbered
<1>8. NewChallenge'
  BY <1>1, <1>3 DEF IInv, NewChallenge
<1>9. Patience'
  BY <1>1, <1>3 DEF IInv, Patience
<1>10. \A q \in net' : q.age \in 0 .. MaxDelay
  BY <1>6 DEF Types, Datagram
\* The client_t is as new as can be, or another connection's.
<1>11. ASSUME Released
       PROVE  Agreed' /\ \A n : \A age \in 0 .. MaxDelay : Harmless(n, age)'
  BY <1>1, <1>5, <1>11 DEF Released, Agreed, Harmless, Held
<1>12. AnswerHolds'
  <2>1. SUFFICES ASSUME client'.state = "challenging", NEW r \in net',
                        r.kind = "connectResponse", r.challenge = client'.challenge
                 PROVE  /\ Agreed'
                        /\ client'.connectTime <= r.age + MaxDelay
                        /\ \A q \in net' : q.kind = "connect" =>
                              r.age <= q.age /\ Harmless(q.challenge, r.age)'
    BY DEF AnswerHolds
  <2>2. CASE r = answer
    <3>1. client.connectTime <= p.age /\ p.age \in 0 .. MaxDelay
      BY <1>1, <1>2, <1>3, <2>1, <2>2 DEF IInv, Patience, Datagram
    <3>2. client.connectTime \in Nat
      BY Times DEF IInv, Types, ClientType
    <3>3. client'.connectTime <= r.age + MaxDelay
      BY <1>1, <1>3, <2>2, <3>1, <3>2, Times
    <3>4. Agreed' /\ Held(r.age)'
      BY <1>1, <1>3, <1>5, <2>1, <2>2 DEF Agreed, Held, SameChallenge
    <3>5. QED
      BY <1>3, <1>10, <2>2, <3>3, <3>4, Times DEF Harmless
  <2>3. CASE r # answer
    <3>1. r \in net /\ Released
      BY <1>1, <1>4, <2>1, <2>3
    <3>2. /\ client.connectTime <= r.age + MaxDelay
          /\ \A q \in net : q.kind = "connect" => r.age <= q.age
      BY <1>1, <2>1, <3>1 DEF IInv, AnswerHolds
    <3>3. r.age \in 0 .. MaxDelay /\ \A q \in net' : q.kind = "connect" => q \in net
      BY <1>1, <1>3, <1>10, <2>1
    <3>4. QED
      BY <1>1, <1>11, <3>1, <3>2, <3>3
  <2>4. QED
    BY <2>2, <2>3
<1>13. ConnectionHolds'
  <2>1. SUFFICES ASSUME client'.state = "connected"
                 PROVE  /\ Agreed'
                        /\ \A q \in net' : q.kind = "connect" =>
                              Harmless(q.challenge, q.age)'
    BY DEF ConnectionHolds
  <2>2. Released
    BY <1>1, <1>4, <2>1
  <2>3. QED
    BY <1>10, <1>11, <2>2
<1>14. QED
  BY <1>6, <1>7, <1>8, <1>9, <1>12, <1>13 DEF IInv

LEMMA DeniedStep ==
  ASSUME IInv, NEW p \in net, p.kind = "connect", SV_DirectConnect_Denied(p)
  PROVE  IInv'
<1>1. /\ slot' = NoClient /\ net' = net /\ client' = client /\ cleared' = cleared
      /\ Accepted(p)
  BY DEF SV_DirectConnect_Denied
<1>2. \/ Released
      \/ /\ client.state # "connected"
         /\ client.state = "challenging" =>
              \A q \in net : q.kind = "connectResponse" => q.challenge # client.challenge
  BY <1>1, AcceptedIsWanted
<1>3. slot' \in SlotType
  BY <1>1, Times DEF NoClient, SlotType, Challenge
<1>4. Types'
  BY <1>1, <1>3, AcceptedTable DEF IInv, Types
<1>5. Numbered' /\ NewChallenge' /\ Patience'
  BY <1>1 DEF IInv, Numbered, NewChallenge, Patience
<1>6. ASSUME Released
      PROVE  Agreed' /\ \A n, age : Harmless(n, age)'
  BY <1>1, <1>6 DEF Released, Agreed, Harmless, NoClient
<1>7. AnswerHolds' /\ ConnectionHolds'
  BY <1>1, <1>2, <1>6 DEF IInv, AnswerHolds, ConnectionHolds
<1>8. QED
  BY <1>4, <1>5, <1>7 DEF IInv

LEMMA ChallengeResponseStep ==
  ASSUME IInv, NEW p \in net, p.kind = "challengeResponse", ChallengeResponse(p)
  PROVE  IInv'
<1>1. /\ client.state = "connecting" /\ p.clientChallenge = client.challenge
      /\ client' = [client EXCEPT !.state = "challenging", !.challenge = p.challenge,
                                  !.connectTime = RETRANSMIT_TIMEOUT]
      /\ net' \subseteq net /\ challenges' = challenges /\ slot' = slot
      /\ cleared' = cleared
  BY DEF ChallengeResponse
<1>2. p.challenge \in Challenge /\ p.challenge # 0
  BY DEF IInv, Types, Datagram, Numbered
<1>3. /\ client' \in ClientType /\ client'.state = "challenging"
      /\ client'.challenge = p.challenge
  <2>1. RETRANSMIT_TIMEOUT \in 0 .. RETRANSMIT_TIMEOUT
    BY Times
  <2>2. QED
    BY <1>1, <1>2, <2>1 DEF IInv, Types, ClientType
<1>4. Types'
  BY <1>1, <1>3 DEF IInv, Types
<1>5. Numbered'
  BY <1>1, <1>2, <1>3 DEF IInv, Numbered
<1>6. \A q \in net' : q.kind # "challengeResponse" => q.challenge # client'.challenge
  BY <1>1, <1>3 DEF IInv, NewChallenge
<1>7. NewChallenge' /\ ConnectionHolds'
  BY <1>3 DEF NewChallenge, ConnectionHolds
<1>8. Patience' /\ AnswerHolds'
  BY <1>6 DEF Patience, AnswerHolds
<1>9. QED
  BY <1>4, <1>5, <1>7, <1>8 DEF IInv

LEMMA ConnectResponseStep ==
  ASSUME IInv, NEW p \in net, p.kind = "connectResponse", ConnectResponse(p)
  PROVE  IInv'
<1>1. /\ client.state = "challenging" /\ p.challenge = client.challenge
      /\ client' = [Disconnected EXCEPT !.state = "connected", !.challenge = p.challenge]
      /\ net' \subseteq net /\ challenges' = challenges /\ slot' = slot
      /\ cleared' = cleared
  BY DEF ConnectResponse
<1>2. /\ client' \in ClientType /\ client'.state = "connected"
      /\ client'.challenge = client.challenge
  <2>1. Disconnected \in ClientType
    BY Times DEF Disconnected, ClientType, Challenge
  <2>2. PICK n \in Challenge : n = client.challenge
    BY DEF IInv, Types, ClientType
  <2>3. client' = [Disconnected EXCEPT !.state = "connected", !.challenge = n]
    BY <1>1, <2>2
  <2>4. QED
    BY <2>1, <2>2, <2>3 DEF ClientType
<1>3. Types'
  BY <1>1, <1>2 DEF IInv, Types
<1>4. Numbered'
  BY <1>1, <1>2 DEF IInv, Numbered
<1>5. NewChallenge' /\ Patience' /\ AnswerHolds'
  BY <1>2 DEF NewChallenge, Patience, AnswerHolds
<1>6. /\ Agreed
      /\ \A q \in net : q.kind = "connect" => p.age <= q.age /\ Harmless(q.challenge, p.age)
  BY <1>1 DEF IInv, AnswerHolds
<1>7. Agreed' /\ \A n, age : Harmless(n, age) => Harmless(n, age)'
  BY <1>1, <1>2, <1>6 DEF Agreed, Harmless, Held, Released, SameChallenge, Issued
<1>8. \A q \in net : q.kind = "connect" => Harmless(q.challenge, q.age)
  <2>1. /\ slot.lastConnectTime \in Int /\ slot.lastPacketTime \in Int
        /\ \A q \in net : q.age \in Int
    BY Times DEF IInv, Types, SlotType, Datagram
  <2>2. QED
    BY <1>6, <2>1 DEF Harmless, Held
<1>9. ConnectionHolds'
  BY <1>1, <1>7, <1>8 DEF ConnectionHolds
<1>10. QED
  BY <1>3, <1>4, <1>5, <1>9 DEF IInv

LEMMA ClientHearsStep ==
  ASSUME IInv, CL_PacketEvent
  PROVE  IInv'
<1>1. /\ client' = [client EXCEPT !.lastPacketTime = 0] /\ client.state = "connected"
      /\ challenges' = challenges /\ slot' = slot /\ net' = net /\ cleared' = cleared
  BY DEF CL_PacketEvent
<1>2. /\ client' \in ClientType /\ client'.state = "connected"
      /\ client'.challenge = client.challenge
  BY <1>1, Times DEF IInv, Types, ClientType
<1>3. Types'
  BY <1>1, <1>2 DEF IInv, Types
<1>4. Numbered'
  BY <1>1, <1>2 DEF IInv, Numbered
<1>5. NewChallenge' /\ Patience' /\ AnswerHolds'
  BY <1>2 DEF NewChallenge, Patience, AnswerHolds
<1>6. (Agreed => Agreed') /\ \A n, age : Harmless(n, age) => Harmless(n, age)'
  BY <1>1, <1>2 DEF Agreed, Harmless, Held, Released, SameChallenge, Issued
<1>7. ConnectionHolds'
  BY <1>1, <1>6 DEF IInv, ConnectionHolds
<1>8. QED
  BY <1>3, <1>4, <1>5, <1>7 DEF IInv

-----------------------------------------------------------------------------
\* Theorems.

LEMMA InitHolds ==
  ASSUME Init
  PROVE  IInv
<1>1. Types
  <2>1. /\ client \in ClientType /\ challenges \in [Indices -> Entry]
        /\ slot \in SlotType /\ net \in SUBSET Datagram
    BY Times DEF Init, Disconnected, ClientType, NoChallenge, Entry, NoClient, SlotType,
                 Challenge, Addresses
  <2>2. cleared \in BOOLEAN
    BY DEF Init
  <2>3. QED
    BY <2>1, <2>2 DEF Types
<1>2. QED
  BY <1>1 DEF Init, IInv, Numbered, NewChallenge, Patience, AnswerHolds, ConnectionHolds,
              Disconnected

LEMMA NextHolds ==
  ASSUME IInv, [Next]_vars
  PROVE  IInv'
<1>1. CASE Tick
  BY <1>1, TickStep
<1>2. CASE CL_Connect_f \/ CL_Disconnect \/ ServerDisconnect \/ CL_CheckTimeout
  BY <1>2, ConnectStep, DisconnectStep DEF ServerDisconnect, CL_CheckTimeout
<1>3. CASE CL_CheckForResend
  BY <1>3, CheckForResendStep
<1>4. CASE \E p \in Arrived("getchallenge") : SV_GetChallenge(p)
  BY <1>4, GetChallengeStep DEF Arrived
<1>5. CASE SV_GetChallenge_Elsewhere
  BY <1>5, ElsewhereStep
<1>6. CASE \E p \in Arrived("connect") : SV_DirectConnect(p) \/ SV_DirectConnect_Denied(p)
  BY <1>6, DirectConnectStep, DeniedStep DEF Arrived
<1>7. CASE \E p \in Arrived("challengeResponse") : ChallengeResponse(p)
  BY <1>7, ChallengeResponseStep DEF Arrived
<1>8. CASE \E p \in Arrived("connectResponse") : ConnectResponse(p)
  BY <1>8, ConnectResponseStep DEF Arrived
<1>9. CASE SV_PacketEvent \/ CL_PacketEvent
  BY <1>9, PacketEventStep, ClientHearsStep
<1>10. CASE SV_DropClient \/ \E p \in Arrived("disconnect") : SV_Disconnect_f(p)
  BY <1>10, DropClientStep DEF SV_Disconnect_f
<1>11. CASE SV_CheckTimeouts \/ SV_ChangeMaxClients \/ SV_Restart
  BY <1>11, CheckTimeoutsStep, ChangeMaxClientsStep, RestartStep
<1>12. CASE UNCHANGED vars
  <2>1. /\ client' = client /\ challenges' = challenges /\ slot' = slot /\ net' = net
        /\ cleared' = cleared
    BY <1>12 DEF vars
  <2>2. /\ Types' /\ (Agreed => Agreed') /\ (Released => Released')
        /\ \A age : Held(age) => Held(age)'
        /\ \A n : Issued(n) = {} => Issued(n)' = {}
    BY <2>1 DEF IInv, Types, Agreed, Held, Released, SameChallenge, Issued
  <2>3. QED
    BY <2>1, <2>2, ServerStep
<1>13. QED
  BY <1>1, <1>2, <1>3, <1>4, <1>5, <1>6, <1>7, <1>8, <1>9, <1>10, <1>11, <1>12 DEF Next

\* The inductive invariant: the types, that challenges are new when they are given, and
\* what the ages of the datagrams under way say of the client_t.
THEOREM Invariant == Spec => []IInv
<1>1. Init => IInv
  BY InitHolds
<1>2. IInv /\ [Next]_vars => IInv'
  BY NextHolds
<1>3. QED
  BY <1>1, <1>2, PTL DEF Spec

\* The client, the client_t, the table of challenges and the datagrams keep their types:
\* the ages stay below their limits, and the ranks of the challenges within the table.
THEOREM TypeCorrect == Spec => []TypeOK
<1>1. IInv => TypeOK
  BY DEF IInv, Types, ClientType, Entry, SlotType, Datagram, TypeOK
<1>2. QED
  BY <1>1, Invariant, PTL

\* SV_DirectConnect, CL_ConnectionlessPacket: a client and a client_t that are both
\* connected have the same challenge, unless SV_ChangeMaxClients cleared a zombie while a
\* connect of its address was under way.
THEOREM Agreement == Spec => []EndsAgree
<1>1. IInv => EndsAgree
  BY DEF IInv, ConnectionHolds, Agreed, EndsAgree
<1>2. QED
  BY <1>1, Invariant, PTL

\* SV_DirectConnect never sets up the client_t of a connection anew, not even after a
\* zombie was cleared early.
THEOREM SetUpOnce == Spec => OneSetup
<1>1. ASSUME IInv, NEW p \in Arrived("connect"), SV_DirectConnect(p)
      PROVE  ~(client.state = "connected" /\ slot.state = "connected" /\ SameChallenge)
  BY <1>1, AcceptedIsWanted DEF Arrived, SV_DirectConnect, Released
<1>2. IInv /\ [Next]_vars =>
        [client.state = "connected" /\ slot.state = "connected" /\ SameChallenge
           => ~ \E p \in Arrived("connect") : SV_DirectConnect(p)]_vars
  BY <1>1
<1>3. QED
  BY <1>2, Invariant, PTL DEF Spec, OneSetup
=============================================================================
