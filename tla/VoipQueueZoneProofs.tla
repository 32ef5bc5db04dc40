------------------------ MODULE VoipQueueZoneProofs ------------------------
(***************************************************************************)
(* The queue of voice packets, for every length of the ring and however    *)
(* many packets are spoken; and, in the second part, the zone that packets *)
(* and other small things are allocated from, for zones, requests and tags *)
(* of every size and number.  The parts share no variable and neither      *)
(* needs the other.                                                        *)
(***************************************************************************)
EXTENDS VoipQueue, Zone, ProofLemmas

ClientType ==
  [state : States, bot : BOOLEAN, hasVoip : BOOLEAN, muteAllVoip : BOOLEAN,
   ignoreVoipFromPlayer : BOOLEAN, downloadName : BOOLEAN,
   voipPacket : [Slots -> 0 .. MaxPackets],
   queuedVoipPackets : 0 .. VOIP_QUEUE_LENGTH, queuedVoipIndex : Slots]

\* Memory holds no packet that was not queued yet.
AllocatedWasQueued == allocated \subseteq 1 .. queued

\* SV_FreeClient leaves no packet counted: whoever takes the slot, a bot included,
\* begins with an empty queue.
FreeIsEmpty == client.state = "free" => client.queuedVoipPackets = 0

\* HeardInOrder needs the first of the two, a new packet being newer than any, and
\* the second, a bot's queue being the one that was left.
IInv == /\ TypeOK
        /\ AllocatedWasQueued /\ FreeIsEmpty
        /\ HeardInOrder /\ NothingLeaksUnlessForgotten

-----------------------------------------------------------------------------
\* The ring.

\* The slots of as many packets as there may be are slots of the ring, each for
\* one packet.
LEMMA SlotsDiffer ==
  ASSUME NEW c \in ClientType, NEW i \in Nat
  PROVE  /\ Slot(c, i) \in Slots
         /\ \A j \in Nat : i < j /\ j < VOIP_QUEUE_LENGTH => Slot(c, i) # Slot(c, j)
<1>1. VOIP_QUEUE_LENGTH \in Nat \ {0}
  BY LengthAssumption
<1>2. c.queuedVoipIndex \in Nat
  BY <1>1 DEF ClientType, Slots
<1> DEFINE x == c.queuedVoipIndex
<1> HIDE DEF x
<1>3. x \in Nat
  BY <1>2 DEF x
<1>4. (x + i) % VOIP_QUEUE_LENGTH \in 0 .. VOIP_QUEUE_LENGTH - 1
  BY <1>1, <1>3, ModRange
<1>5. ASSUME NEW j \in Nat, i < j, j < VOIP_QUEUE_LENGTH
      PROVE  (x + i) % VOIP_QUEUE_LENGTH # (x + j) % VOIP_QUEUE_LENGTH
  <2>1. x + i \in Int /\ x + j \in Int /\ x + i < x + j /\ ~(x + i + VOIP_QUEUE_LENGTH <= x + j)
    BY <1>1, <1>3, <1>5
  <2>2. QED
    BY <1>1, <2>1, SameSlotTurnApart
<1>6. QED
  BY <1>4, <1>5 DEF Slot, Slots, x

\* After n packets were sent the i-th is the one that was the (n + i)-th.
LEMMA SentSlot ==
  ASSUME NEW c \in ClientType, NEW n \in Nat, NEW i \in Nat
  PROVE  Slot(SV_WriteVoipToClient(c, n), i) = Slot(c, n + i)
<1>1. VOIP_QUEUE_LENGTH \in Nat \ {0}
  BY LengthAssumption
<1>2. c.queuedVoipIndex \in Nat
  BY <1>1 DEF ClientType, Slots
<1>3. SV_WriteVoipToClient(c, n).queuedVoipIndex = (c.queuedVoipIndex + n) % VOIP_QUEUE_LENGTH
  BY DEF SV_WriteVoipToClient, ClientType
<1> DEFINE x == c.queuedVoipIndex
<1>4. (((x + n) % VOIP_QUEUE_LENGTH) + i) % VOIP_QUEUE_LENGTH = (x + n + i) % VOIP_QUEUE_LENGTH
  <2>1. x + n \in Int /\ i \in Int
    BY <1>2
  <2> HIDE DEF x
  <2>2. QED
    BY <1>1, <2>1, ModOfSum
<1>5. x + n + i = x + (n + i)
  BY <1>2
<1>6. QED
  BY <1>3, <1>4, <1>5 DEF Slot

\* What is kept of a client_t from which packets were sent.
LEMMA SentType ==
  ASSUME NEW c \in ClientType, NEW n \in 0 .. c.queuedVoipPackets
  PROVE  /\ SV_WriteVoipToClient(c, n) \in ClientType
         /\ SV_WriteVoipToClient(c, n).state = c.state
         /\ SV_WriteVoipToClient(c, n).voipPacket = c.voipPacket
         /\ SV_WriteVoipToClient(c, n).queuedVoipPackets = c.queuedVoipPackets - n
<1>1. VOIP_QUEUE_LENGTH \in Nat \ {0}
  BY LengthAssumption
<1>2. (c.queuedVoipIndex + n) % VOIP_QUEUE_LENGTH \in Slots
  <2>1. c.queuedVoipIndex + n \in Int
    BY <1>1 DEF ClientType, Slots
  <2>2. QED
    BY <1>1, <2>1, ModRange DEF Slots
<1>3. c.queuedVoipPackets - n \in 0 .. VOIP_QUEUE_LENGTH
  BY <1>1 DEF ClientType
<1>4. QED
  BY <1>2, <1>3 DEF SV_WriteVoipToClient, ClientType

-----------------------------------------------------------------------------
\* The actions, by what they do to the queue.

LEMMA ClearedType ==
  Cleared \in ClientType
<1>1. VOIP_QUEUE_LENGTH \in Nat \ {0} /\ MaxPackets \in Nat
  BY LengthAssumption
<1>2. /\ 0 \in Slots /\ 0 \in 0 .. VOIP_QUEUE_LENGTH
      /\ [s \in Slots |-> NULL] \in [Slots -> 0 .. MaxPackets]
  BY <1>1 DEF Slots, NULL
<1>3. QED
  BY <1>2 DEF Cleared, ClientType, States

LEMMA InitInvariant == Init => IInv
<1> SUFFICES ASSUME Init PROVE IInv
  OBVIOUS
<1>1. VOIP_QUEUE_LENGTH \in Nat \ {0} /\ MaxPackets \in Nat
  BY LengthAssumption
<1>2. TypeOK
  <2>1. client \in ClientType
    BY ClearedType DEF Init
  <2>2. /\ allocated \subseteq 1 .. MaxPackets /\ queued \in 0 .. MaxPackets
        /\ heard \in 0 .. queued /\ forgotten \subseteq 0 .. MaxPackets
    <3>1. 0 \in 0 .. MaxPackets /\ 0 \in 0 .. 0
      BY <1>1
    <3>2. QED
      BY <3>1, Zenon DEF Init
  <2>3. QED
    BY <2>1, <2>2, Zenon DEF TypeOK, ClientType
<1>3. QED
  BY <1>2 DEF Init, IInv, AllocatedWasQueued, FreeIsEmpty, HeardInOrder,
              NothingLeaksUnlessForgotten, Cleared

\* The queue is left alone.
LEMMA QueueKept ==
  ASSUME IInv, client' \in ClientType,
         client.state # "free", client'.state # "free",
         UNCHANGED <<client.voipPacket, client.queuedVoipPackets, client.queuedVoipIndex>>,
         UNCHANGED <<allocated, queued, heard, forgotten>>
  PROVE  IInv'
<1>1. \A i : Slot(client, i)' = Slot(client, i)
  BY DEF Slot
<1>2. Waiting(client)' = Waiting(client)
  BY <1>1 DEF Waiting
<1>3. HeardInOrder'
  BY <1>1 DEF HeardInOrder, IInv
<1>4. QED
  BY <1>2, <1>3 DEF IInv, TypeOK, ClientType, AllocatedWasQueued, FreeIsEmpty,
                    NothingLeaksUnlessForgotten

\* Nothing waits afterwards: what is still in memory was forgotten.
LEMMA QueueEmptied ==
  ASSUME IInv, client' \in ClientType, client'.queuedVoipPackets = 0,
         allocated' \subseteq allocated, UNCHANGED queued, heard' \in 0 .. queued,
         forgotten' \subseteq 0 .. MaxPackets, allocated' \subseteq forgotten'
  PROVE  IInv'
<1>1. TypeOK'
  BY DEF IInv, TypeOK, ClientType
<1>2. HeardInOrder'
  BY DEF HeardInOrder
<1>3. NothingLeaksUnlessForgotten'
  BY DEF NothingLeaksUnlessForgotten
<1>4. QED
  BY <1>1, <1>2, <1>3 DEF IInv, AllocatedWasQueued, FreeIsEmpty

LEMMA WaitingType ==
  ASSUME NEW c \in ClientType
  PROVE  Waiting(c) \subseteq 0 .. MaxPackets
<1>1. ASSUME NEW i \in 0 .. c.queuedVoipPackets - 1
      PROVE  c.voipPacket[Slot(c, i)] \in 0 .. MaxPackets
  <2>1. i \in Nat
    BY LengthAssumption DEF ClientType
  <2>2. QED
    BY <2>1, SlotsDiffer DEF ClientType
<1>2. QED
  BY <1>1 DEF Waiting

\* Of the packets in memory, those that are not freed are forgotten.
LEMMA ForgottenOrWaiting ==
  ASSUME IInv, NEW gone
  PROVE  LET f == forgotten \cup (Waiting(client) \ gone)
         IN  f \subseteq 0 .. MaxPackets /\ allocated \ gone \subseteq f
<1>1. allocated \subseteq Waiting(client) \cup forgotten
  BY DEF IInv, NothingLeaksUnlessForgotten
<1>2. forgotten \subseteq 0 .. MaxPackets /\ Waiting(client) \subseteq 0 .. MaxPackets
  BY WaitingType DEF IInv, TypeOK, ClientType
<1>3. QED
  BY <1>1, <1>2

LEMMA UserVoipStep ==
  ASSUME IInv, SV_UserVoip
  PROVE  IInv'
<1>0. PICK packet, n : packet = queued + 1 /\ n = client.queuedVoipPackets
  OBVIOUS
<1>1. /\ VOIP_QUEUE_LENGTH \in Nat \ {0} /\ MaxPackets \in Nat
      /\ client \in ClientType /\ queued \in Nat /\ heard \in 0 .. queued
  BY LengthAssumption DEF IInv, TypeOK, ClientType
<1>2. n \in Nat /\ n < VOIP_QUEUE_LENGTH /\ packet \in 1 .. MaxPackets /\ packet \in Nat
  BY <1>0, <1>1 DEF SV_UserVoip, Full, ClientType
<1>3. Slot(client, n) \in Slots
  BY <1>1, <1>2, SlotsDiffer
<1>4. /\ client' = [client EXCEPT !.voipPacket[Slot(client, n)] = packet,
                                  !.queuedVoipPackets = n + 1]
      /\ client.state = "active"
  BY <1>0 DEF SV_UserVoip
<1>5. /\ client' \in ClientType /\ client.state # "free"
      /\ client'.state = client.state
      /\ client'.queuedVoipPackets = n + 1
      /\ client'.queuedVoipIndex = client.queuedVoipIndex
      /\ client'.voipPacket = [client.voipPacket EXCEPT ![Slot(client, n)] = packet]
  <2>1. /\ [client.voipPacket EXCEPT ![Slot(client, n)] = packet] \in [Slots -> 0 .. MaxPackets]
        /\ n + 1 \in 0 .. VOIP_QUEUE_LENGTH
    BY <1>1, <1>2, <1>3 DEF ClientType
  <2>2. QED
    BY <1>1, <1>4, <2>1 DEF ClientType
<1>6. /\ queued' = packet /\ allocated' = allocated \cup {packet}
      /\ UNCHANGED <<heard, forgotten>>
  BY <1>0 DEF SV_UserVoip
<1>7. \A i : Slot(client', i) = Slot(client, i)
  BY <1>5 DEF Slot
<1>8. ASSUME NEW i \in 0 .. n - 1
      PROVE  client'.voipPacket[Slot(client', i)] = client.voipPacket[Slot(client, i)]
  <2>1. i \in Nat /\ i < n
    BY <1>2, <1>8
  <2>2. Slot(client, i) # Slot(client, n) /\ Slot(client, i) \in Slots
    BY <1>1, <1>2, <2>1, SlotsDiffer
  <2>3. QED
    BY <1>1, <1>5, <1>7, <2>2 DEF ClientType
<1>9. client'.voipPacket[Slot(client', n)] = packet
  BY <1>1, <1>3, <1>5, <1>7 DEF ClientType
<1>10. TypeOK' /\ AllocatedWasQueued' /\ FreeIsEmpty'
  BY <1>0, <1>1, <1>2, <1>5, <1>6 DEF IInv, TypeOK, ClientType, AllocatedWasQueued, FreeIsEmpty
<1>11. \A i \in 0 .. n - 1 :
         LET p == client.voipPacket[Slot(client, i)]
         IN  /\ p \in allocated /\ p > heard
             /\ \A j \in 0 .. i - 1 : client.voipPacket[Slot(client, j)] < p
  BY <1>0, <1>5 DEF IInv, HeardInOrder
<1>12. HeardInOrder'
  <2>1. ASSUME NEW i \in 0 .. n
        PROVE  LET p == client'.voipPacket[Slot(client', i)]
               IN  /\ p \in allocated' /\ p > heard'
                   /\ \A j \in 0 .. i - 1 : client'.voipPacket[Slot(client', j)] < p
    <3>1. CASE i = n
      <4>1. packet \in allocated' /\ packet > heard'
        BY <1>0, <1>1, <1>6
      <4>2. \A j \in 0 .. n - 1 : client'.voipPacket[Slot(client', j)] < packet
        <5>1. ASSUME NEW j \in 0 .. n - 1
              PROVE  client.voipPacket[Slot(client, j)] < packet
          <6>1. client.voipPacket[Slot(client, j)] \in 1 .. queued
            BY <1>11 DEF IInv, AllocatedWasQueued
          <6>2. QED
            BY <1>0, <1>1, <6>1
        <5>2. QED
          BY <1>8, <5>1
      <4>3. QED
        BY <1>9, <3>1, <4>1, <4>2
    <3>2. CASE i \in 0 .. n - 1
      <4>1. \A j \in 0 .. i - 1 : j \in 0 .. n - 1
        BY <1>2, <3>2
      <4>2. QED
        BY <1>6, <1>8, <1>11, <3>2, <4>1
    <3>3. QED
      BY <1>2, <3>1, <3>2
  <2>2. 0 .. client'.queuedVoipPackets - 1 = 0 .. n
    BY <1>2, <1>5
  <2>3. QED
    BY <2>1, <2>2 DEF HeardInOrder
<1>13. NothingLeaksUnlessForgotten'
  <2>1. ASSUME NEW p \in Waiting(client)
        PROVE  p \in Waiting(client)'
    <3>1. PICK i \in 0 .. n - 1 : p = client.voipPacket[Slot(client, i)]
      BY <1>0 DEF Waiting
    <3>2. i \in 0 .. client'.queuedVoipPackets - 1
      BY <1>2, <1>5
    <3>3. QED
      BY <1>8, <3>1, <3>2 DEF Waiting
  <2>2. packet \in Waiting(client)'
    <3>1. n \in 0 .. client'.queuedVoipPackets - 1
      BY <1>2, <1>5
    <3>2. QED
      BY <1>9, <3>1 DEF Waiting
  <2>3. QED
    BY <1>6, <2>1, <2>2 DEF IInv, NothingLeaksUnlessForgotten
<1>14. QED
  BY <1>10, <1>12, <1>13 DEF IInv

\* After a message with n packets the newest that was heard is the last of them.
LEMMA NewestSent ==
  ASSUME IInv, client.state # "free", NEW n \in 0 .. client.queuedVoipPackets
  PROVE  /\ Newest(First(client, n), heard) \in 0 .. queued
         /\ n = 0 => Newest(First(client, n), heard) = heard
         /\ n > 0 => Newest(First(client, n), heard) = client.voipPacket[Slot(client, n - 1)]
<1>0. PICK count : count = client.queuedVoipPackets
  OBVIOUS
<1>1. queued \in Nat /\ heard \in 0 .. queued /\ count \in Nat /\ n \in 0 .. count
  BY <1>0 DEF IInv, TypeOK
<1> DEFINE P(i) == client.voipPacket[Slot(client, i)]
           top == Newest(First(client, n), heard)
<1>2. ASSUME NEW i \in 0 .. count - 1
      PROVE  P(i) \in 1 .. queued /\ \A j \in 0 .. i - 1 : P(j) < P(i)
  BY <1>0 DEF IInv, HeardInOrder, AllocatedWasQueued
<1>3. First(client, n) = {P(i) : i \in 0 .. n - 1}
  BY DEF First
<1> HIDE DEF P
<1>4. CASE n = 0
  <2>1. First(client, n) = {}
    BY <1>3, <1>4
  <2>2. QED
    BY <1>1, <1>4, <2>1 DEF Newest
<1>5. CASE n > 0
  <2>1. n - 1 \in 0 .. n - 1 /\ n - 1 \in 0 .. count - 1
    BY <1>1, <1>5
  <2>2. \A i \in 0 .. n - 1 : i \in 0 .. count - 1 /\ (i = n - 1 \/ i \in 0 .. (n - 1) - 1)
    BY <1>1, <1>5
  <2>3. \A i \in 0 .. n - 1 : P(i) <= P(n - 1) /\ P(i) \in 1 .. queued
    BY <1>1, <1>2, <2>1, <2>2
  <2>4. P(n - 1) \in First(client, n) /\ \A y \in First(client, n) : y <= P(n - 1)
    BY <1>3, <2>1, <2>3
  <2>5. PICK x \in First(client, n) : x = top /\ \A y \in First(client, n) : y <= x
    <3>1. \E x \in First(client, n) : \A y \in First(client, n) : y <= x
      BY <2>4
    <3>2. First(client, n) # {}
      BY <2>4
    <3>3. QED
      BY <3>1, <3>2, Zenon DEF Newest
  <2>6. PICK i \in 0 .. n - 1 : x = P(i)
    BY <1>3
  <2>7. x = P(n - 1)
    BY <1>1, <2>1, <2>3, <2>4, <2>5, <2>6
  <2>8. top \in 0 .. queued /\ top = P(n - 1)
    BY <1>1, <2>1, <2>3, <2>5, <2>7
  <2>9. QED
    BY <1>5, <2>8 DEF P
<1>6. QED
  BY <1>1, <1>4, <1>5

\* A packet that waits is sent or goes on waiting.
LEMMA SentOrWaiting ==
  ASSUME NEW c \in ClientType, NEW n \in 0 .. c.queuedVoipPackets
  PROVE  Waiting(c) \subseteq First(c, n) \cup Waiting(SV_WriteVoipToClient(c, n))
<1>0. PICK count, sent : count = c.queuedVoipPackets /\ sent = SV_WriteVoipToClient(c, n)
  OBVIOUS
<1>1. count \in Nat /\ n \in 0 .. count /\ n \in Nat
  BY <1>0, LengthAssumption DEF ClientType
<1>2. sent.queuedVoipPackets = count - n /\ sent.voipPacket = c.voipPacket
  BY <1>0, SentType
<1>3. ASSUME NEW p \in Waiting(c), p \notin First(c, n)
      PROVE  p \in Waiting(sent)
  <2>1. PICK i \in 0 .. count - 1 : p = c.voipPacket[Slot(c, i)]
    BY <1>0 DEF Waiting
  <2>2. i \notin 0 .. n - 1
    BY <1>3, <2>1 DEF First
  <2>3. i - n \in 0 .. sent.queuedVoipPackets - 1 /\ i - n \in Nat /\ n + (i - n) = i
    BY <1>1, <1>2, <2>1, <2>2
  <2>4. Slot(sent, i - n) = Slot(c, i)
    BY <1>0, <1>1, <2>3, SentSlot
  <2>5. sent.voipPacket[Slot(sent, i - n)] = p
    BY <1>2, <2>1, <2>4
  <2>6. QED
    BY <2>3, <2>5 DEF Waiting
<1>4. QED
  BY <1>0, <1>3

LEMMA SendStep ==
  ASSUME IInv, NEW n \in 0 .. client.queuedVoipPackets, SV_SendClientSnapshot(n)
  PROVE  IInv'
<1>0. PICK c, count : c = client /\ count = client.queuedVoipPackets
  OBVIOUS
<1>1. /\ client \in ClientType /\ queued \in Nat /\ heard \in 0 .. queued /\ count \in Nat
      /\ n \in 0 .. count
  BY <1>0 DEF IInv, TypeOK, ClientType
<1>2. /\ client' = SV_WriteVoipToClient(client, n)
      /\ allocated' = allocated \ First(client, n)
      /\ heard' = Newest(First(client, n), heard)
      /\ UNCHANGED <<queued, forgotten>> /\ client.state # "free"
  BY DEF SV_SendClientSnapshot
<1>3. /\ client' \in ClientType /\ client'.state # "free"
      /\ client'.queuedVoipPackets = count - n
      /\ client'.voipPacket = client.voipPacket
  BY <1>0, <1>1, <1>2, SentType
<1> DEFINE P(i) == client.voipPacket[Slot(client, i)]
<1>4. ASSUME NEW i \in 0 .. count - n - 1
      PROVE  client'.voipPacket[Slot(client', i)] = P(n + i) /\ n + i \in n .. count - 1
  <2>1. i \in Nat /\ n \in Nat /\ n + i \in n .. count - 1
    BY <1>1
  <2>2. Slot(SV_WriteVoipToClient(client, n), i) = Slot(client, n + i)
    BY <1>1, <2>1, SentSlot, Zenon
  <2>3. QED
    BY <1>2, <1>3, <2>1, <2>2, Zenon
<1>5. ASSUME NEW i \in 0 .. count - 1
      PROVE  /\ P(i) \in allocated /\ P(i) > heard
             /\ P(i) \in 1 .. queued
             /\ \A j \in 0 .. i - 1 : P(j) < P(i)
  BY <1>0, <1>2 DEF IInv, HeardInOrder, AllocatedWasQueued
<1>6. First(client, n) = {P(i) : i \in 0 .. n - 1}
  BY DEF First
<1>7. /\ heard' \in 0 .. queued
      /\ n = 0 => heard' = heard
      /\ n > 0 => heard' = P(n - 1)
  BY <1>2, NewestSent
<1> HIDE DEF P
<1>8. ASSUME NEW i \in n .. count - 1
      PROVE  P(i) \in allocated' /\ P(i) > heard'
  <2>1. i \in 0 .. count - 1 /\ \A j \in 0 .. n - 1 : j \in 0 .. i - 1 /\ j \in 0 .. count - 1
    BY <1>1
  <2>2. \A j \in 0 .. n - 1 : P(j) # P(i)
    BY <1>5, <2>1
  <2>3. P(i) \in allocated'
    BY <1>2, <1>5, <1>6, <2>1, <2>2
  <2>4. P(i) > heard'
    <3>1. n > 0 => n - 1 \in 0 .. i - 1
      BY <1>1
    <3>2. QED
      BY <1>1, <1>5, <1>7, <2>1, <3>1
  <2>5. QED
    BY <2>3, <2>4
<1>9. TypeOK' /\ AllocatedWasQueued' /\ FreeIsEmpty'
  BY <1>2, <1>3, <1>7 DEF IInv, TypeOK, ClientType, AllocatedWasQueued, FreeIsEmpty
<1>10. HeardInOrder'
  <2>1. ASSUME NEW i \in 0 .. client'.queuedVoipPackets - 1
        PROVE  /\ client'.voipPacket[Slot(client', i)] \in allocated'
               /\ client'.voipPacket[Slot(client', i)] > heard'
               /\ \A j \in 0 .. i - 1 :
                    client'.voipPacket[Slot(client', j)] < client'.voipPacket[Slot(client', i)]
    <3>1. i \in 0 .. count - n - 1 /\ n + i \in n .. count - 1 /\ n + i \in 0 .. count - 1
      BY <1>1, <1>3
    <3>2. \A j \in 0 .. i - 1 : j \in 0 .. count - n - 1 /\ n + j \in 0 .. (n + i) - 1
      BY <1>1, <3>1
    <3>3. QED
      BY <1>4, <1>5, <1>8, <3>1, <3>2
  <2>2. QED
    BY <2>1 DEF HeardInOrder
<1>11. NothingLeaksUnlessForgotten'
  <2>1. ASSUME NEW p \in Waiting(client), p \notin First(client, n)
        PROVE  p \in Waiting(client')
    <3>1. PICK i \in 0 .. count - 1 : p = P(i)
      BY <1>0 DEF Waiting, P
    <3>2. i \in n .. count - 1
      BY <1>1, <1>6, <2>1, <3>1
    <3>3. i - n \in 0 .. count - n - 1 /\ n + (i - n) = i
      BY <1>1, <3>2
    <3>4. client'.voipPacket[Slot(client', i - n)] = p
      BY <1>4, <3>1, <3>3
    <3>5. QED
      BY <1>3, <3>3, <3>4 DEF Waiting
  <2>2. QED
    BY <1>2, <2>1 DEF IInv, NothingLeaksUnlessForgotten
<1>12. QED
  BY <1>9, <1>10, <1>11 DEF IInv

LEMMA FreeClientStep ==
  ASSUME IInv, SV_FreeClient(client)
  PROVE  IInv'
<1>1. /\ client' = [client EXCEPT !.state = "free", !.downloadName = FALSE,
                                  !.queuedVoipPackets = 0]
      /\ allocated' = allocated \ Destroyed(client)
      /\ forgotten' = forgotten \cup (Waiting(client) \ Destroyed(client))
      /\ UNCHANGED <<queued, heard>>
  BY DEF SV_FreeClient
<1>2. 0 \in 0 .. VOIP_QUEUE_LENGTH
  BY LengthAssumption
<1>3. client \in ClientType /\ heard \in 0 .. queued
  BY DEF IInv, TypeOK, ClientType
<1>4. client' \in ClientType /\ client'.queuedVoipPackets = 0
  BY <1>1, <1>2, <1>3 DEF ClientType, States
<1>5. forgotten' \subseteq 0 .. MaxPackets /\ allocated' \subseteq forgotten'
  BY <1>1, ForgottenOrWaiting
<1>6. allocated' \subseteq allocated /\ heard' \in 0 .. queued
  BY <1>1, <1>3
<1>7. QED
  BY <1>1, <1>4, <1>5, <1>6, QueueEmptied

LEMMA DirectConnectStep ==
  ASSUME IInv, NEW hasVoip \in BOOLEAN, SV_DirectConnect(hasVoip)
  PROVE  IInv'
<1>1. /\ client' = [Cleared EXCEPT !.state = "connected", !.hasVoip = hasVoip]
      /\ forgotten' = forgotten \cup Waiting(client)
      /\ heard' = queued
      /\ UNCHANGED <<allocated, queued>>
  BY DEF SV_DirectConnect
<1>2. client' \in ClientType
  BY <1>1, ClearedType DEF ClientType, States
<1>3. client'.queuedVoipPackets = 0
  BY <1>1 DEF Cleared
<1>4. forgotten' \subseteq 0 .. MaxPackets /\ allocated' \subseteq forgotten'
  BY <1>1, WaitingType DEF IInv, TypeOK, ClientType, NothingLeaksUnlessForgotten
<1>5. heard' \in 0 .. queued /\ allocated' \subseteq allocated
  BY <1>1 DEF IInv, TypeOK
<1>6. QED
  BY <1>1, <1>2, <1>3, <1>4, <1>5, QueueEmptied

LEMMA ChangeMaxClientsStep ==
  ASSUME IInv, SV_ChangeMaxClients
  PROVE  IInv'
<1>1. /\ client' = Cleared
      /\ forgotten' = forgotten \cup Waiting(client)
      /\ UNCHANGED <<allocated, queued, heard>>
  BY DEF SV_ChangeMaxClients
<1>2. client' \in ClientType /\ client'.queuedVoipPackets = 0
  BY <1>1, ClearedType DEF Cleared
<1>3. forgotten' \subseteq 0 .. MaxPackets /\ allocated' \subseteq forgotten'
  BY <1>1, WaitingType DEF IInv, TypeOK, ClientType, NothingLeaksUnlessForgotten
<1>4. heard' \in 0 .. queued /\ allocated' \subseteq allocated
  BY <1>1 DEF IInv, TypeOK
<1>5. QED
  BY <1>1, <1>2, <1>3, <1>4, QueueEmptied

LEMMA BotAllocateClientStep ==
  ASSUME IInv, SV_BotAllocateClient
  PROVE  IInv'
<1>1. /\ client.state = "free"
      /\ client' = [client EXCEPT !.state = "active", !.bot = TRUE]
      /\ heard' = queued /\ UNCHANGED <<allocated, queued, forgotten>>
  BY DEF SV_BotAllocateClient
<1>2. client \in ClientType /\ client.queuedVoipPackets = 0
  BY <1>1 DEF IInv, TypeOK, ClientType, FreeIsEmpty
<1>3. client' \in ClientType /\ client'.queuedVoipPackets = 0
  BY <1>1, <1>2 DEF ClientType, States
<1>4. Waiting(client) = {}
  BY <1>2 DEF Waiting
<1>5. forgotten' \subseteq 0 .. MaxPackets /\ allocated' \subseteq forgotten'
  BY <1>1, <1>4 DEF IInv, TypeOK, NothingLeaksUnlessForgotten
<1>6. heard' \in 0 .. queued /\ allocated' \subseteq allocated
  BY <1>1 DEF IInv, TypeOK
<1>7. QED
  BY <1>1, <1>3, <1>5, <1>6, QueueEmptied

\* SV_ClientEnterWorld, SV_SpawnServer, a client's commands, and the person that
\* SV_DropPlayer leaves behind as a zombie.
LEMMA OccupantStep ==
  ASSUME IInv,
         \/ SV_ClientEnterWorld \/ SV_SpawnServer \/ ClientCommand
         \/ SV_DropPlayer /\ ~client.bot
  PROVE  IInv'
<1>1. client \in ClientType
  BY DEF IInv, TypeOK, ClientType
<1>2. client.state # "free"
  BY DEF SV_ClientEnterWorld, SV_SpawnServer, ClientCommand, SV_DropPlayer, People
<1>3. /\ client' \in ClientType /\ client'.state # "free"
      /\ UNCHANGED <<client.voipPacket, client.queuedVoipPackets, client.queuedVoipIndex>>
  <2>1. CASE SV_ClientEnterWorld
    BY <1>1, <2>1 DEF SV_ClientEnterWorld, ClientType, States
  <2>2. CASE SV_SpawnServer
    BY <1>1, <2>2 DEF SV_SpawnServer, ClientType, States
  <2>3. CASE ClientCommand
    <3>1. PICK b \in BOOLEAN :
            client' \in {[client EXCEPT !.muteAllVoip = b],
                         [client EXCEPT !.ignoreVoipFromPlayer = b],
                         [client EXCEPT !.hasVoip = b],
                         [client EXCEPT !.downloadName = b]}
      BY <2>3 DEF ClientCommand
    <3>2. QED
      BY <1>1, <1>2, <3>1 DEF ClientType
  <2>4. CASE SV_DropPlayer /\ ~client.bot
    BY <1>1, <2>4 DEF SV_DropPlayer, ClientType, States
  <2>5. QED
    BY <2>1, <2>2, <2>3, <2>4
<1>4. UNCHANGED <<allocated, queued, heard, forgotten>>
  BY DEF SV_ClientEnterWorld, SV_SpawnServer, ClientCommand, SV_DropPlayer
<1>5. QED
  BY <1>2, <1>3, <1>4, QueueKept

LEMMA ShutdownStep ==
  ASSUME IInv, NEW n \in 0 .. client.queuedVoipPackets, SV_Shutdown(n)
  PROVE  IInv'
<1> DEFINE sent == IF client.state \in People /\ ~client.bot
                   THEN SV_WriteVoipToClient(client, n) ELSE client
           gone == IF sent = client THEN {} ELSE First(client, n)
<1>1. /\ client' = Cleared
      /\ allocated' = allocated \ (gone \cup Destroyed(sent))
      /\ forgotten' = forgotten \cup (Waiting(sent) \ Destroyed(sent))
      /\ heard' = Newest(gone, heard)
      /\ UNCHANGED queued
  BY DEF SV_Shutdown
<1>2. client \in ClientType /\ heard \in 0 .. queued
  BY DEF IInv, TypeOK, ClientType
<1>3. /\ sent \in ClientType /\ Waiting(client) \subseteq gone \cup Waiting(sent)
      /\ heard' \in 0 .. queued
  <2>1. CASE sent = client
    BY <1>1, <1>2, <2>1 DEF Newest
  <2>2. CASE sent # client
    <3>1. /\ client.state # "free" /\ sent = SV_WriteVoipToClient(client, n)
          /\ gone = First(client, n)
      BY <2>2 DEF People
    <3>2. QED
      BY <1>1, <1>2, <3>1, NewestSent, SentOrWaiting, SentType
  <2>3. QED
    BY <2>1, <2>2
<1> HIDE DEF sent, gone
<1>4. allocated' \subseteq allocated
  BY <1>1
<1>5. forgotten' \subseteq 0 .. MaxPackets /\ allocated' \subseteq forgotten'
  <2>1. /\ forgotten \subseteq 0 .. MaxPackets
        /\ allocated \subseteq Waiting(client) \cup forgotten
    BY DEF IInv, TypeOK, NothingLeaksUnlessForgotten
  <2>2. Waiting(sent) \subseteq 0 .. MaxPackets
    BY <1>3, WaitingType
  <2>3. QED
    BY <1>1, <1>3, <2>1, <2>2
<1>6. client' \in ClientType /\ client'.queuedVoipPackets = 0
  BY <1>1, ClearedType DEF Cleared
<1>7. QED
  BY <1>1, <1>3, <1>4, <1>5, <1>6, QueueEmptied

-----------------------------------------------------------------------------
\* The queue's counters stay within the ring, what waits is in memory and in the
\* order in which it was queued, and memory holds nothing else unless it was
\* forgotten, whoever comes and goes in the slot.
THEOREM Invariant ==
  Spec => []IInv
<1>1. Init => IInv
  BY InitInvariant
<1>2. IInv /\ [Next]_vars => IInv'
  <2> SUFFICES ASSUME IInv, [Next]_vars PROVE IInv'
    OBVIOUS
  <2>1. CASE SV_UserVoip
    BY <2>1, UserVoipStep
  <2>2. CASE \E n \in 0 .. client.queuedVoipPackets : SV_SendClientSnapshot(n)
    BY <2>2, SendStep
  <2>3. CASE \E hasVoip \in BOOLEAN : SV_DirectConnect(hasVoip)
    BY <2>3, DirectConnectStep
  <2>4. CASE SV_BotAllocateClient
    BY <2>4, BotAllocateClientStep
  <2>5. CASE SV_ClientEnterWorld
    BY <2>5, OccupantStep
  <2>6. CASE SV_SpawnServer
    BY <2>6, OccupantStep
  <2>7. CASE ClientCommand
    BY <2>7, OccupantStep
  <2>8. CASE SV_DropPlayer
    <3>1. CASE client.bot
      BY <2>8, <3>1, FreeClientStep DEF SV_DropPlayer
    <3>2. CASE ~client.bot
      BY <2>8, <3>2, OccupantStep
    <3>3. QED
      BY <3>1, <3>2
  <2>9. CASE SV_CheckTimeouts
    BY <2>9, FreeClientStep DEF SV_CheckTimeouts
  <2>10. CASE \E n \in 0 .. client.queuedVoipPackets : SV_Shutdown(n)
    BY <2>10, ShutdownStep
  <2>11. CASE SV_ChangeMaxClients
    BY <2>11, ChangeMaxClientsStep
  <2>12. CASE UNCHANGED vars
    <3>1. UNCHANGED <<Waiting(client), HeardInOrder>>
      BY <2>12 DEF vars, Waiting, HeardInOrder, Slot
    <3>2. QED
      BY <2>12, <3>1 DEF vars, IInv, TypeOK, AllocatedWasQueued, FreeIsEmpty,
                         NothingLeaksUnlessForgotten
  <2>13. QED
    BY <2>1, <2>2, <2>3, <2>4, <2>5, <2>6, <2>7, <2>8, <2>9, <2>10, <2>11, <2>12 DEF Next
<1>3. QED
  BY <1>1, <1>2, PTL DEF Spec

\* The ring's index and count never leave the ring, although SV_BotAllocateClient
\* takes them over from the last occupant.
THEOREM TypeCorrect ==
  Spec => []TypeOK
<1>1. IInv => TypeOK
  BY DEF IInv
<1>2. QED
  BY <1>1, Invariant, PTL

\* SV_WriteVoipToClient sends each packet once, in the order in which SV_UserVoip
\* queued them, and reads none that was freed.
THEOREM VoiceInOrder ==
  Spec => []HeardInOrder
<1>1. IInv => HeardInOrder
  BY DEF IInv
<1>2. QED
  BY <1>1, Invariant, PTL

\* A packet in memory waits in the queue, or was in a client_t that was given up: it was
\* missed by SV_FreeClient's loop in a ring that had turned, or the client_t was cleared
\* by SV_DirectConnect or by SV_ChangeMaxClients.  The queue itself leaves none behind,
\* in whatever state of the ring and whatever was forgotten before.
THEOREM LeaksOnlyForgotten ==
  Spec => []NothingLeaksUnlessForgotten
<1>1. IInv => NothingLeaksUnlessForgotten
  BY DEF IInv
<1>2. QED
  BY <1>1, Invariant, PTL
-----------------------------------------------------------------------------
(***************************************************************************)
(* The zone.                                                               *)
(***************************************************************************)

(***************************************************************************)
(* The list of blocks.                                                     *)
(***************************************************************************)
Header == [size : 0 .. ZONE, tag : Tags \cup {FREE, 1}, prev : Addresses, next : Addresses]

Real(f) == DOMAIN f \ {BLOCKLIST}

NextIs(f, b) == IF f[b].next = BLOCKLIST THEN ZONE + 1 ELSE f[b].next

\* The list is a ring through the cap in the order of the addresses, each block ends
\* where the next one begins, and none begins inside another.
Linked(f) ==
  /\ f \in UNION {[D -> Header] : D \in SUBSET Addresses}
  /\ BLOCKLIST \in DOMAIN f /\ FIRST \in DOMAIN f
  /\ f[BLOCKLIST].next = FIRST /\ f[BLOCKLIST].tag = 1
  /\ \A b \in DOMAIN f : /\ f[b].prev \in DOMAIN f /\ f[b].next \in DOMAIN f
                         /\ f[f[b].next].prev = b /\ f[f[b].prev].next = b
  /\ \A b \in Real(f) : /\ f[b].tag \in Tags \cup {FREE} /\ f[b].size >= 1
                        /\ b + f[b].size = NextIs(f, b)
  /\ \A b, c \in Real(f) : b < c => b + f[b].size <= c

\* What a list is made of.
LEMMA ListFacts ==
  ASSUME NEW f, Linked(f)
  PROVE  /\ DOMAIN f \subseteq Addresses /\ f \in [DOMAIN f -> Header]
         /\ BLOCKLIST \in DOMAIN f /\ FIRST \in Real(f) /\ f[FIRST].prev = BLOCKLIST
         /\ Addresses = 0 .. ZONE /\ ZONE \in Nat \ {0}
         /\ \A b \in DOMAIN f : f[b] \in Header /\ b \in 0 .. ZONE /\ (b \in Real(f) <=> b # 0)
<1>1. PICK D \in SUBSET Addresses : f \in [D -> Header]
  BY DEF Linked
<1>2. DOMAIN f = D
  BY <1>1
<1>3. Addresses = 0 .. ZONE /\ ZONE \in Nat \ {0}
  BY ZoneAssumption DEF Addresses, BLOCKLIST
<1>4. BLOCKLIST \in DOMAIN f /\ FIRST \in Real(f) /\ f[FIRST].prev = BLOCKLIST
  <2>1. BLOCKLIST \in DOMAIN f /\ FIRST \in DOMAIN f /\ f[BLOCKLIST].next = FIRST
        /\ f[f[BLOCKLIST].next].prev = BLOCKLIST
    BY DEF Linked
  <2>2. QED
    BY <2>1 DEF Real, BLOCKLIST, FIRST
<1>5. \A b \in DOMAIN f : f[b] \in Header /\ b \in 0 .. ZONE /\ (b \in Real(f) <=> b # 0)
  BY <1>1, <1>2, <1>3 DEF Real, BLOCKLIST
<1>6. QED
  BY <1>1, <1>2, <1>3, <1>4, <1>5

\* A block, and the blocks before and behind it.
LEMMA BlockFacts ==
  ASSUME NEW f, Linked(f), NEW b \in Real(f)
  PROVE  /\ b \in DOMAIN f /\ b \in 1 .. ZONE /\ f[b].size \in 1 .. ZONE
         /\ b + f[b].size <= ZONE + 1
         /\ f[b].tag \in Tags \cup {FREE}
         /\ f[b].next \in DOMAIN f /\ f[b].prev \in DOMAIN f
         /\ f[b].next # 0 => f[b].next = b + f[b].size /\ f[b].next > b /\ f[b].next \in Real(f)
         /\ f[b].next = 0 => b + f[b].size = ZONE + 1
         /\ f[b].next # b /\ f[b].next # 1 /\ f[b].prev # b
         /\ f[b].prev = 0 <=> b = 1
         /\ f[b].prev # 0 => /\ f[b].prev \in Real(f) /\ f[b].prev < b
                             /\ f[b].prev + f[f[b].prev].size = b
         /\ f[f[b].next].prev = b /\ f[f[b].prev].next = b
         /\ \A c \in Real(f) : b < c => b + f[b].size <= c
         /\ \A c \in DOMAIN f : f[c].next = f[b].next => c = b
         /\ \A c \in DOMAIN f : f[c].prev = f[b].prev => c = b
<1>1. /\ b \in DOMAIN f /\ b \in 1 .. ZONE /\ f[b] \in Header /\ ZONE \in Nat \ {0}
      /\ Addresses = 0 .. ZONE
  <2>1. b \in DOMAIN f
    BY DEF Real
  <2>2. QED
    BY <2>1, ListFacts
<1>2. f[b].size \in 0 .. ZONE /\ f[b].size >= 1 /\ f[b].tag \in Tags \cup {FREE}
      /\ b + f[b].size = NextIs(f, b)
  BY <1>1 DEF Linked, Header
<1>3. /\ f[b].next \in DOMAIN f /\ f[b].prev \in DOMAIN f
      /\ f[f[b].next].prev = b /\ f[f[b].prev].next = b
  BY <1>1 DEF Linked
<1>4. /\ f[b].next # 0 => f[b].next \in 1 .. ZONE /\ f[b].next \in Real(f)
      /\ f[b].prev # 0 => f[b].prev \in 1 .. ZONE /\ f[b].prev \in Real(f)
  BY <1>3, ListFacts
<1>5. /\ f[b].next # 0 => f[b].next = b + f[b].size /\ f[b].next > b
      /\ f[b].next = 0 => b + f[b].size = ZONE + 1
      /\ b + f[b].size <= ZONE + 1 /\ f[b].next # b /\ f[b].next # 1
  BY <1>1, <1>2, <1>4 DEF NextIs, BLOCKLIST
<1>6. f[b].prev = 0 <=> b = 1
  <2>1. f[0].next = 1 /\ f[1].prev = 0
    BY ListFacts DEF Linked, BLOCKLIST, FIRST
  <2>2. QED
    BY <1>3, <2>1
<1>7. f[b].prev # 0 => f[b].prev < b /\ f[b].prev + f[f[b].prev].size = b
  <2>1. SUFFICES ASSUME f[b].prev # 0 PROVE f[b].prev < b /\ f[b].prev + f[f[b].prev].size = b
    OBVIOUS
  <2>2. PICK a : a = f[b].prev
    OBVIOUS
  <2>3. a \in Real(f) /\ a \in 1 .. ZONE /\ f[a].next = b
    BY <1>3, <1>4, <2>1, <2>2
  <2>4. f[a].size \in 0 .. ZONE /\ f[a].size >= 1 /\ a + f[a].size = NextIs(f, a)
    <3>1. f[a] \in Header
      BY <2>3, ListFacts DEF Real
    <3>2. QED
      BY <2>3, <3>1 DEF Linked, Header
  <2>5. a < b /\ a + f[a].size = b
    BY <1>1, <2>3, <2>4 DEF NextIs, BLOCKLIST
  <2>6. QED
    BY <2>2, <2>5
<1>8. f[b].prev # b
  <2>1. f[b].prev # 0 => f[b].prev < b
    BY <1>7
  <2>2. b # 0 /\ ~(b < b)
    BY <1>1
  <2>3. QED
    BY <2>1, <2>2
<1>9. \A c \in Real(f) : b < c => b + f[b].size <= c
  BY DEF Linked
<1>10. \A c \in DOMAIN f : f[f[c].next].prev = c /\ f[f[c].prev].next = c
  BY DEF Linked
<1>11. /\ \A c \in DOMAIN f : f[c].next = f[b].next => c = b
       /\ \A c \in DOMAIN f : f[c].prev = f[b].prev => c = b
  BY <1>3, <1>10
<1>12. f[b].size \in 1 .. ZONE
  BY <1>1, <1>2
<1>13. QED
  BY <1>1, <1>2, <1>3, <1>4, <1>5, <1>6, <1>7, <1>8, <1>9, <1>11, <1>12

(***************************************************************************)
(* One block more, and one less.                                           *)
(***************************************************************************)
\* g is f without block o, which its neighbour b took in.
Joined(g, f, b, o) ==
  /\ DOMAIN g = DOMAIN f \ {o}
  /\ g[b].size = f[b].size + f[o].size /\ g[b].tag = f[b].tag
  /\ g[b].prev = f[b].prev /\ g[b].next = f[o].next
  /\ \A c \in DOMAIN g \ {b} :
       /\ g[c].size = f[c].size /\ g[c].tag = f[c].tag /\ g[c].next = f[c].next
       /\ g[c].prev = IF c = f[o].next THEN b ELSE f[c].prev

LEMMA AbsorbJoins ==
  ASSUME NEW f, Linked(f), NEW b \in Real(f), NEW o, o = f[b].next, o # BLOCKLIST,
         NEW g, g = Absorb(f, b)
  PROVE  Joined(g, f, b, o) /\ g \in [DOMAIN f \ {o} -> Header]
         /\ o \in Real(f) /\ f[o].prev = b /\ o # FIRST /\ f[o].next # b
<1>1. /\ b \in DOMAIN f /\ b \in 1 .. ZONE /\ f[b].size \in 1 .. ZONE
      /\ o \in DOMAIN f /\ o = b + f[b].size /\ o > b /\ o \in Real(f)
      /\ o # b /\ o # 1 /\ f[o].prev = b
  BY BlockFacts DEF BLOCKLIST
<1>2. /\ f[o].size \in 1 .. ZONE /\ o + f[o].size <= ZONE + 1 /\ f[o].next \in DOMAIN f
      /\ f[o].next # 0 => f[o].next > o
      /\ f[o].next # o /\ f[o].next # 1
  BY <1>1, BlockFacts
<1>3. PICK n : n = f[o].next
  OBVIOUS
<1>4. n # b /\ n # o /\ n \in DOMAIN f
  <2>1. b \in Nat /\ o \in Nat /\ b < o
    BY <1>1
  <2>2. n # 0 => n > o
    BY <1>2, <1>3
  <2>3. QED
    BY <1>1, <1>2, <1>3, <2>1, <2>2
<1>5. f \in [DOMAIN f -> Header] /\ DOMAIN f \subseteq Addresses /\ Addresses = 0 .. ZONE
      /\ ZONE \in Nat
  BY ListFacts
<1>6. f[b] \in Header /\ f[n] \in Header /\ f[o] \in Header
  BY <1>1, <1>4, <1>5
<1> DEFINE s == f[b].size + f[o].size
           x == [f[b] EXCEPT !.size = s, !.next = n]
           y == [f[n] EXCEPT !.prev = b]
<1>7. s \in 0 .. ZONE
  BY <1>1, <1>2, <1>5
<1>8. /\ x \in Header /\ y \in Header
      /\ x.size = s /\ x.next = n /\ x.tag = f[b].tag /\ x.prev = f[b].prev
      /\ y.size = f[n].size /\ y.next = f[n].next /\ y.tag = f[n].tag /\ y.prev = b
  <2> HIDE DEF s
  <2>1. QED
    BY <1>1, <1>4, <1>5, <1>6, <1>7 DEF Header
<1> HIDE DEF x, y
<1>9. g = [c \in DOMAIN f \ {o} |-> IF c = b THEN x ELSE IF c = n THEN y ELSE f[c]]
  <2> DEFINE m == [f EXCEPT ![b].size = @ + f[o].size, ![b].next = f[o].next,
                            ![f[o].next].prev = b]
  <2>1. g = [c \in DOMAIN f \ {o} |-> m[c]]
    BY DEF Absorb
  <2>2. \A c \in DOMAIN f : m[c] = IF c = b THEN x ELSE IF c = n THEN y ELSE f[c]
    BY <1>1, <1>3, <1>4, <1>6 DEF x, y, Header
  <2> HIDE DEF m
  <2>3. QED
    BY <2>1, <2>2
<1>10. g \in [DOMAIN f \ {o} -> Header]
  BY <1>5, <1>8, <1>9
<1>11. Joined(g, f, b, o)
  <2>1. DOMAIN g = DOMAIN f \ {o}
    BY <1>9
  <2>2. g[b] = x
    BY <1>1, <1>9
  <2>3. ASSUME NEW c \in DOMAIN g \ {b}
        PROVE  /\ g[c].size = f[c].size /\ g[c].tag = f[c].tag /\ g[c].next = f[c].next
               /\ g[c].prev = IF c = n THEN b ELSE f[c].prev
    <3>1. g[c] = IF c = n THEN y ELSE f[c]
      BY <1>9, <2>1, <2>3
    <3>2. QED
      BY <1>8, <3>1
  <2>4. QED
    BY <1>3, <1>8, <2>1, <2>2, <2>3 DEF Joined
<1>12. QED
  BY <1>1, <1>3, <1>4, <1>10, <1>11 DEF FIRST

\* A list without the block that was taken in is a list.
LEMMA JoinedLinked ==
  ASSUME NEW f, Linked(f), NEW b \in Real(f), NEW o \in Real(f), o = f[b].next, f[o].prev = b,
         o # FIRST, f[o].next # b,
         NEW g, g \in [DOMAIN f \ {o} -> Header], Joined(g, f, b, o)
  PROVE  Linked(g)
<1> DEFINE n == f[o].next
<1>1. /\ DOMAIN g = DOMAIN f \ {o} /\ DOMAIN f \subseteq 0 .. ZONE
      /\ Addresses = 0 .. ZONE /\ ZONE \in Nat \ {0}
  BY ListFacts DEF Joined
<1>2. /\ b \in DOMAIN f /\ b \in 1 .. ZONE /\ f[b].size \in 1 .. ZONE /\ o # b /\ o # 0
      /\ o = b + f[b].size /\ f[b].tag \in Tags \cup {FREE}
      /\ f[b].prev \in DOMAIN f /\ f[f[b].prev].next = b /\ f[b].prev # b
      /\ \A c \in Real(f) : b < c => b + f[b].size <= c
  BY BlockFacts DEF Real, BLOCKLIST
<1>3. /\ o \in DOMAIN f /\ o \in 1 .. ZONE /\ f[o].size \in 1 .. ZONE
      /\ o + f[o].size = NextIs(f, o)
      /\ n \in DOMAIN f /\ n # o /\ f[n].prev = o
      /\ \A c \in Real(f) : o < c => o + f[o].size <= c
  <2>1. o + f[o].size = NextIs(f, o)
    BY DEF Linked
  <2>2. QED
    BY <2>1, BlockFacts
<1>4. \A c \in DOMAIN f : /\ f[c].prev \in DOMAIN f /\ f[c].next \in DOMAIN f
                          /\ f[f[c].next].prev = c /\ f[f[c].prev].next = c
  BY DEF Linked
<1>5. /\ g[b].size = f[b].size + f[o].size /\ g[b].tag = f[b].tag
      /\ g[b].prev = f[b].prev /\ g[b].next = n
      /\ \A c \in DOMAIN g \ {b} :
           /\ g[c].size = f[c].size /\ g[c].tag = f[c].tag /\ g[c].next = f[c].next
           /\ g[c].prev = IF c = n THEN b ELSE f[c].prev
  BY DEF Joined
<1>6. b \in DOMAIN g /\ n \in DOMAIN g /\ n # b
  BY <1>1, <1>2, <1>3
<1>7. g \in UNION {[D -> Header] : D \in SUBSET Addresses}
  BY <1>1
<1>8. /\ BLOCKLIST \in DOMAIN g /\ FIRST \in DOMAIN g
      /\ g[BLOCKLIST].next = FIRST /\ g[BLOCKLIST].tag = 1
  <2>1. BLOCKLIST \in DOMAIN f /\ FIRST \in DOMAIN f /\ BLOCKLIST # b /\ BLOCKLIST # o
        /\ f[BLOCKLIST].next = FIRST /\ f[BLOCKLIST].tag = 1
    BY <1>2, <1>3 DEF Linked, BLOCKLIST
  <2>2. QED
    BY <1>1, <1>5, <2>1
<1>9. ASSUME NEW c \in DOMAIN g
      PROVE  /\ g[c].prev \in DOMAIN g /\ g[c].next \in DOMAIN g
             /\ g[g[c].next].prev = c /\ g[g[c].prev].next = c
  <2>1. CASE c = b
    <3>1. g[c].next \in DOMAIN g /\ g[g[c].next].prev = c
      BY <1>5, <1>6, <2>1
    <3>2. f[b].prev # o
      BY <1>2, <1>6
    <3>3. QED
      BY <1>1, <1>2, <1>5, <2>1, <3>1, <3>2
  <2>2. CASE c # b
    <3>1. c \in DOMAIN f /\ c # o
      BY <1>1
    <3>2. g[c].next = f[c].next /\ f[c].next # o
      BY <1>4, <1>5, <2>2, <3>1
    <3>3. g[g[c].next].prev = c
      <4>1. f[c].next # n
        BY <1>3, <1>4, <3>1
      <4>2. f[c].next \in DOMAIN g /\ f[f[c].next].prev = c
        BY <1>1, <1>4, <3>1, <3>2
      <4>3. CASE f[c].next = b
        BY <1>5, <3>2, <4>2, <4>3
      <4>4. CASE f[c].next # b
        BY <1>5, <3>2, <4>1, <4>2, <4>4
      <4>5. QED
        BY <4>3, <4>4
    <3>4. CASE c = n
      <4>1. g[c].prev = b
        BY <1>5, <2>2, <3>4
      <4>2. QED
        BY <1>1, <1>4, <1>5, <1>6, <3>1, <3>2, <3>3, <3>4, <4>1
    <3>5. CASE c # n
      <4>1. g[c].prev = f[c].prev
        BY <1>5, <2>2, <3>5
      <4>2. f[c].prev # o /\ f[c].prev # b
        BY <1>4, <3>1, <3>5
      <4>3. f[c].prev \in DOMAIN g
        BY <1>1, <1>4, <3>1, <4>2
      <4>4. g[f[c].prev].next = f[f[c].prev].next
        BY <1>5, <4>2, <4>3
      <4>5. QED
        BY <1>1, <1>4, <3>1, <3>2, <3>3, <4>1, <4>3, <4>4
    <3>6. QED
      BY <3>4, <3>5
  <2>3. QED
    BY <2>1, <2>2
<1>10. Real(g) = Real(f) \ {o} /\ b \in Real(g)
  BY <1>1, <1>6 DEF Real
<1>11. ASSUME NEW c \in Real(g)
       PROVE  /\ g[c].tag \in Tags \cup {FREE} /\ g[c].size >= 1
              /\ c + g[c].size = NextIs(g, c)
  <2>1. CASE c = b
    <3>1. b + g[b].size = o + f[o].size
      BY <1>2, <1>3, <1>5
    <3>2. NextIs(g, b) = NextIs(f, o)
      BY <1>5 DEF NextIs
    <3>3. g[b].size >= 1
      BY <1>2, <1>3, <1>5
    <3>4. QED
      BY <1>2, <1>3, <1>5, <2>1, <3>1, <3>2, <3>3
  <2>2. CASE c # b
    <3>1. c \in Real(f) /\ c \in DOMAIN g \ {b}
      BY <1>10, <2>2 DEF Real
    <3>2. g[c].size = f[c].size /\ g[c].tag = f[c].tag /\ g[c].next = f[c].next
      BY <1>5, <3>1
    <3>3. f[c].tag \in Tags \cup {FREE} /\ f[c].size >= 1 /\ c + f[c].size = NextIs(f, c)
      BY <3>1 DEF Linked
    <3>4. QED
      BY <3>2, <3>3 DEF NextIs
  <2>3. QED
    BY <2>1, <2>2
<1>12. ASSUME NEW c \in Real(g), NEW d \in Real(g), c < d
       PROVE  c + g[c].size <= d
  <2>1. c \in Real(f) /\ d \in Real(f) /\ d # o /\ d \in 1 .. ZONE
    BY <1>10, BlockFacts
  <2>2. CASE c = b
    <3>1. b + f[b].size <= d
      BY <1>2, <1>12, <2>1, <2>2
    <3>2. o < d
      BY <1>2, <1>3, <2>1, <3>1
    <3>3. o + f[o].size <= d
      BY <1>3, <2>1, <3>2
    <3>4. QED
      BY <1>2, <1>3, <1>5, <2>1, <2>2, <3>3
  <2>3. CASE c # b
    <3>1. c + f[c].size <= d
      BY <1>12, <2>1 DEF Linked
    <3>2. g[c].size = f[c].size
      BY <1>5, <1>12, <2>3 DEF Real
    <3>3. QED
      BY <3>1, <3>2
  <2>4. QED
    BY <2>2, <2>3
<1>13. QED
  BY <1>7, <1>8, <1>9, <1>11, <1>12 DEF Linked

\* Another tag.
Tag(f, b, tag) == [f EXCEPT ![b].tag = tag]

Tagged(g, f, b, tag) ==
  /\ DOMAIN g = DOMAIN f /\ g[b].tag = tag
  /\ \A c \in DOMAIN f : /\ g[c].size = f[c].size /\ g[c].prev = f[c].prev
                         /\ g[c].next = f[c].next
                         /\ c # b => g[c].tag = f[c].tag

\* Tags may change in a list.
LEMMA TagLinked ==
  ASSUME NEW f, Linked(f), NEW b \in Real(f), NEW tag \in Tags \cup {FREE},
         NEW g, g = Tag(f, b, tag)
  PROVE  Linked(g) /\ Tagged(g, f, b, tag)
<1>1. /\ f \in [DOMAIN f -> Header] /\ DOMAIN f \subseteq Addresses /\ b \in DOMAIN f
      /\ f[b] \in Header /\ b # 0
  BY ListFacts DEF Real, BLOCKLIST
<1> DEFINE x == [f[b] EXCEPT !.tag = tag]
<1>2. /\ x \in Header /\ x.tag = tag /\ x.size = f[b].size /\ x.prev = f[b].prev
      /\ x.next = f[b].next
  BY <1>1 DEF Header
<1>3. g = [f EXCEPT ![b] = x]
  BY DEF Tag
<1> HIDE DEF x
<1>4. g \in [DOMAIN f -> Header] /\ DOMAIN g = DOMAIN f
  BY <1>1, <1>2, <1>3
<1>5. g[b] = x /\ \A c \in DOMAIN f \ {b} : g[c] = f[c]
  BY <1>1, <1>3
<1>6. Tagged(g, f, b, tag)
  BY <1>2, <1>4, <1>5 DEF Tagged
<1>7. g \in UNION {[D -> Header] : D \in SUBSET Addresses}
  BY <1>1, <1>4
<1>8. /\ BLOCKLIST \in DOMAIN g /\ FIRST \in DOMAIN g
      /\ g[BLOCKLIST].next = FIRST /\ g[BLOCKLIST].tag = 1
  <2>1. BLOCKLIST \in DOMAIN f /\ FIRST \in DOMAIN f /\ BLOCKLIST # b
        /\ f[BLOCKLIST].next = FIRST /\ f[BLOCKLIST].tag = 1
    BY <1>1 DEF Linked, BLOCKLIST
  <2>2. QED
    BY <1>4, <1>5, <2>1
<1>9. \A c \in DOMAIN g : /\ g[c].prev \in DOMAIN g /\ g[c].next \in DOMAIN g
                          /\ g[g[c].next].prev = c /\ g[g[c].prev].next = c
  <2>1. \A c \in DOMAIN f : /\ f[c].prev \in DOMAIN f /\ f[c].next \in DOMAIN f
                            /\ f[f[c].next].prev = c /\ f[f[c].prev].next = c
    BY DEF Linked
  <2>2. \A c \in DOMAIN f : g[c].prev = f[c].prev /\ g[c].next = f[c].next
    BY <1>6 DEF Tagged
  <2>3. ASSUME NEW c \in DOMAIN g
        PROVE  /\ g[c].prev \in DOMAIN g /\ g[c].next \in DOMAIN g
               /\ g[g[c].next].prev = c /\ g[g[c].prev].next = c
    <3>1. /\ f[c].prev \in DOMAIN f /\ f[c].next \in DOMAIN f
          /\ f[f[c].next].prev = c /\ f[f[c].prev].next = c
      BY <1>4, <2>1
    <3>2. g[c].prev = f[c].prev /\ g[c].next = f[c].next
      BY <1>4, <2>2
    <3>3. g[f[c].next].prev = c /\ g[f[c].prev].next = c
      BY <2>2, <3>1
    <3>4. QED
      BY <1>4, <3>1, <3>2, <3>3
  <2>4. QED
    BY <2>3
<1>10. Real(g) = Real(f)
  BY <1>4 DEF Real
<1>11. ASSUME NEW c \in Real(g)
       PROVE  /\ g[c].tag \in Tags \cup {FREE} /\ g[c].size >= 1
              /\ c + g[c].size = NextIs(g, c)
  <2>1. f[c].tag \in Tags \cup {FREE} /\ f[c].size >= 1 /\ c + f[c].size = NextIs(f, c)
    BY <1>10 DEF Linked
  <2>2. g[c].size = f[c].size /\ NextIs(g, c) = NextIs(f, c) /\ g[c].tag \in {tag, f[c].tag}
    BY <1>6, <1>10 DEF Tagged, NextIs, Real
  <2>3. QED
    BY <2>1, <2>2
<1>12. \A c, d \in Real(g) : c < d => c + g[c].size <= d
  <2>1. \A c, d \in Real(f) : c < d => c + f[c].size <= d
    BY DEF Linked
  <2>2. \A c \in Real(f) : g[c].size = f[c].size
    BY <1>6 DEF Tagged, Real
  <2>3. QED
    BY <1>10, <2>1, <2>2
<1>13. QED
  BY <1>6, <1>7, <1>8, <1>9, <1>11, <1>12 DEF Linked

\* g is f with the words of b from o on in a free block of their own.
Parted(g, f, b, need, o) ==
  /\ DOMAIN g = DOMAIN f \cup {o}
  /\ g[b].size = need /\ g[b].tag = f[b].tag /\ g[b].prev = f[b].prev /\ g[b].next = o
  /\ g[o].size = f[b].size - need /\ g[o].tag = FREE /\ g[o].prev = b
  /\ g[o].next = f[b].next
  /\ \A c \in DOMAIN f \ {b} :
       /\ g[c].size = f[c].size /\ g[c].tag = f[c].tag /\ g[c].next = f[c].next
       /\ g[c].prev = IF c = f[b].next THEN o ELSE f[c].prev

\* Split makes two blocks out of a big one.
LEMMA SplitParts ==
  ASSUME NEW f, Linked(f), NEW b \in Real(f), NEW need \in Nat \ {0}, need < f[b].size,
         f[b].size - need > MINFRAGMENT, NEW o, o = b + need, NEW g, g = Split(f, b, need)
  PROVE  /\ Parted(g, f, b, need, o) /\ g \in [DOMAIN f \cup {o} -> Header]
         /\ o \in 1 .. ZONE /\ o \notin DOMAIN f
<1>1. /\ b \in DOMAIN f /\ b \in 1 .. ZONE /\ f[b].size \in 1 .. ZONE
      /\ b + f[b].size <= ZONE + 1 /\ f[b].next \in DOMAIN f /\ f[b].prev \in DOMAIN f
      /\ f[b].next # b /\ \A c \in Real(f) : b < c => b + f[b].size <= c
  BY BlockFacts
<1>2. f \in [DOMAIN f -> Header] /\ DOMAIN f \subseteq Addresses /\ Addresses = 0 .. ZONE
      /\ ZONE \in Nat /\ \A c \in DOMAIN f : c \in Real(f) <=> c # 0
  BY ListFacts
<1>3. o \in 1 .. ZONE /\ o > b /\ o < b + f[b].size
  BY <1>1, <1>2
<1>4. o \notin DOMAIN f
  BY <1>1, <1>2, <1>3
<1>5. PICK n : n = f[b].next
  OBVIOUS
<1>6. f[b] \in Header /\ f[n] \in Header /\ n \in DOMAIN f /\ n # b /\ n # o
  BY <1>1, <1>2, <1>4, <1>5
<1> DEFINE e == f[b].size - need
           z == [size |-> e, tag |-> FREE, prev |-> b, next |-> n]
           x == [f[b] EXCEPT !.size = need, !.next = o]
           y == [f[n] EXCEPT !.prev = o]
<1>7. e \in 0 .. ZONE /\ need \in 0 .. ZONE
  BY <1>1, <1>2
<1>8. /\ x \in Header /\ y \in Header /\ z \in Header
      /\ x.size = need /\ x.next = o /\ x.tag = f[b].tag /\ x.prev = f[b].prev
      /\ y.size = f[n].size /\ y.next = f[n].next /\ y.tag = f[n].tag /\ y.prev = o
      /\ z.size = e /\ z.tag = FREE /\ z.prev = b /\ z.next = n
  <2> HIDE DEF e
  <2>1. z \in Header /\ z.size = e /\ z.tag = FREE /\ z.prev = b /\ z.next = n
    <3>1. b \in Addresses /\ n \in Addresses
      BY <1>1, <1>2, <1>6
    <3>2. QED
      BY <1>7, <3>1 DEF Header
  <2>2. x \in Header /\ x.size = need /\ x.next = o /\ x.tag = f[b].tag /\ x.prev = f[b].prev
    <3>1. o \in Addresses
      BY <1>2, <1>3
    <3>2. QED
      BY <1>6, <1>7, <3>1 DEF Header
  <2>3. y \in Header /\ y.size = f[n].size /\ y.next = f[n].next /\ y.tag = f[n].tag /\ y.prev = o
    <3>1. o \in Addresses
      BY <1>2, <1>3
    <3>2. QED
      BY <1>6, <3>1 DEF Header
  <2>4. QED
    BY <2>1, <2>2, <2>3
<1>9. g = [c \in DOMAIN f \cup {o} |->
             IF c = o THEN z ELSE IF c = b THEN x ELSE IF c = n THEN y ELSE f[c]]
  <2>1. ~(f[b].size - need <= MINFRAGMENT)
    BY <1>1, ZoneAssumption
  <2> DEFINE header(c) ==
               CASE c = b + need -> [size |-> f[b].size - need, tag |-> FREE, prev |-> b,
                                     next |-> f[b].next]
                 [] c = b -> [f[c] EXCEPT !.size = need, !.next = b + need]
                 [] c = f[b].next -> [f[c] EXCEPT !.prev = b + need]
                 [] OTHER -> f[c]
  <2>2. g = [c \in DOMAIN f \cup {b + need} |-> header(c)]
    BY <2>1, Zenon DEF Split
  <2>3. ASSUME NEW c
        PROVE  header(c) = IF c = o THEN z ELSE IF c = b THEN x ELSE IF c = n THEN y ELSE f[c]
    <3>1. b + need # b /\ b + need # f[b].next /\ f[b].next # b
      BY <1>1, <1>4, <1>5, <1>6
    <3>2. CASE c = b + need
      <4>1. header(c) = [size |-> f[b].size - need, tag |-> FREE, prev |-> b, next |-> f[b].next]
        BY <3>1, <3>2, Zenon
      <4>2. QED
        BY <1>5, <3>2, <4>1, Zenon
    <3>3. CASE c = b
      <4>1. c # b + need /\ c # f[b].next
        BY <3>1, <3>3, Zenon
      <4>2. header(c) = [f[c] EXCEPT !.size = need, !.next = b + need]
        BY <3>3, <4>1, Zenon
      <4>3. QED
        BY <3>3, <4>1, <4>2, Zenon
    <3>4. CASE c = f[b].next
      <4>1. c # b + need /\ c # b
        BY <3>1, <3>4, Zenon
      <4>2. header(c) = [f[c] EXCEPT !.prev = b + need]
        BY <3>4, <4>1, Zenon
      <4>3. QED
        BY <1>5, <3>4, <4>1, <4>2, Zenon
    <3>5. CASE c # b + need /\ c # b /\ c # f[b].next
      <4>1. header(c) = f[c]
        BY <3>5, Zenon
      <4>2. QED
        BY <1>5, <3>5, <4>1, Zenon
    <3>6. QED
      BY <3>2, <3>3, <3>4, <3>5, Zenon
  <2> HIDE DEF x, y, z, header
  <2>4. QED
    BY <2>2, <2>3
<1> HIDE DEF x, y, z
<1>10. g \in [DOMAIN f \cup {o} -> Header]
  BY <1>2, <1>8, <1>9
<1>11. Parted(g, f, b, need, o)
  <2>1. DOMAIN g = DOMAIN f \cup {o}
    BY <1>9
  <2>2. g[b] = x /\ g[o] = z
    BY <1>1, <1>4, <1>9
  <2>3. ASSUME NEW c \in DOMAIN f \ {b}
        PROVE  /\ g[c].size = f[c].size /\ g[c].tag = f[c].tag /\ g[c].next = f[c].next
               /\ g[c].prev = IF c = n THEN o ELSE f[c].prev
    <3>1. g[c] = IF c = n THEN y ELSE f[c]
      BY <1>4, <1>9, <2>3
    <3>2. QED
      BY <1>8, <3>1
  <2>4. QED
    BY <1>5, <1>8, <2>1, <2>2, <2>3 DEF Parted
<1>12. QED
  BY <1>3, <1>4, <1>10, <1>11

\* A list with a block split in two is a list.
LEMMA PartedLinked ==
  ASSUME NEW f, Linked(f), NEW b \in Real(f), NEW need \in Nat \ {0}, need < f[b].size,
         NEW o \in 1 .. ZONE, o = b + need, o \notin DOMAIN f,
         NEW g, g \in [DOMAIN f \cup {o} -> Header], Parted(g, f, b, need, o)
  PROVE  Linked(g)
<1> DEFINE n == f[b].next
<1>1. /\ DOMAIN g = DOMAIN f \cup {o} /\ DOMAIN f \subseteq 0 .. ZONE
      /\ Addresses = 0 .. ZONE /\ ZONE \in Nat \ {0}
  BY ListFacts DEF Parted
<1>2. /\ b \in DOMAIN f /\ b \in 1 .. ZONE /\ f[b].size \in 1 .. ZONE
      /\ f[b].tag \in Tags \cup {FREE} /\ n \in DOMAIN f /\ n # b /\ f[n].prev = b
      /\ f[b].prev \in DOMAIN f /\ f[f[b].prev].next = b /\ f[b].prev # b
      /\ \A c \in Real(f) : b < c => b + f[b].size <= c
  BY BlockFacts
<1>3. b + f[b].size = NextIs(f, b)
  BY DEF Linked
<1>4. \A c \in DOMAIN f : /\ f[c].prev \in DOMAIN f /\ f[c].next \in DOMAIN f
                          /\ f[f[c].next].prev = c /\ f[f[c].prev].next = c
  BY DEF Linked
<1>5. /\ g[b].size = need /\ g[b].tag = f[b].tag /\ g[b].prev = f[b].prev /\ g[b].next = o
      /\ g[o].size = f[b].size - need /\ g[o].tag = FREE /\ g[o].prev = b /\ g[o].next = n
      /\ \A c \in DOMAIN f \ {b} :
           /\ g[c].size = f[c].size /\ g[c].tag = f[c].tag /\ g[c].next = f[c].next
           /\ g[c].prev = IF c = n THEN o ELSE f[c].prev
  BY DEF Parted
<1>6. b # o /\ n # o /\ b \in DOMAIN g /\ o \in DOMAIN g /\ n \in DOMAIN g
  BY <1>1, <1>2
<1>7. g \in UNION {[D -> Header] : D \in SUBSET Addresses}
  <2>1. DOMAIN f \cup {o} \in SUBSET Addresses
    BY <1>1
  <2>2. QED
    BY <2>1
<1>8. /\ BLOCKLIST \in DOMAIN g /\ FIRST \in DOMAIN g
      /\ g[BLOCKLIST].next = FIRST /\ g[BLOCKLIST].tag = 1
  <2>1. BLOCKLIST \in DOMAIN f /\ FIRST \in DOMAIN f /\ BLOCKLIST # b
        /\ f[BLOCKLIST].next = FIRST /\ f[BLOCKLIST].tag = 1
    BY <1>2 DEF Linked, BLOCKLIST
  <2>2. QED
    BY <1>1, <1>5, <2>1
<1>9. ASSUME NEW c \in DOMAIN g
      PROVE  /\ g[c].prev \in DOMAIN g /\ g[c].next \in DOMAIN g
             /\ g[g[c].next].prev = c /\ g[g[c].prev].next = c
  <2>1. CASE c = o
    BY <1>2, <1>5, <1>6, <2>1
  <2>2. CASE c = b
    <3>1. g[f[b].prev].next = b
      BY <1>2, <1>5
    <3>2. QED
      BY <1>1, <1>2, <1>5, <1>6, <2>2, <3>1
  <2>3. CASE c # o /\ c # b
    <3>1. c \in DOMAIN f
      BY <1>1, <2>3
    <3>2. g[c].next = f[c].next /\ f[c].next \in DOMAIN f /\ f[f[c].next].prev = c
      BY <1>4, <1>5, <2>3, <3>1
    <3>3. f[c].next # n
      BY <1>2, <2>3, <3>2
    <3>4. g[g[c].next].prev = c
      <4>1. CASE f[c].next = b
        BY <1>5, <3>2, <4>1
      <4>2. CASE f[c].next # b
        BY <1>5, <3>2, <3>3, <4>2
      <4>3. QED
        BY <4>1, <4>2
    <3>5. CASE c = n
      BY <1>1, <1>5, <1>6, <2>3, <3>1, <3>2, <3>4, <3>5
    <3>6. CASE c # n
      <4>1. g[c].prev = f[c].prev /\ f[c].prev \in DOMAIN f /\ f[f[c].prev].next = c
        BY <1>4, <1>5, <2>3, <3>1, <3>6
      <4>2. f[c].prev # b
        BY <3>6, <4>1
      <4>3. g[f[c].prev].next = f[f[c].prev].next
        BY <1>5, <4>1, <4>2
      <4>4. QED
        BY <1>1, <3>2, <3>4, <4>1, <4>3
    <3>7. QED
      BY <3>5, <3>6
  <2>4. QED
    BY <2>1, <2>2, <2>3
<1>10. Real(g) = Real(f) \cup {o}
  BY <1>1 DEF Real, BLOCKLIST
<1>11. \A c \in Real(f) \ {b} :
         g[c].size = f[c].size /\ g[c].tag = f[c].tag /\ NextIs(g, c) = NextIs(f, c)
  BY <1>5 DEF Real, NextIs
<1>12. ASSUME NEW c \in Real(g)
       PROVE  /\ g[c].tag \in Tags \cup {FREE} /\ g[c].size >= 1
              /\ c + g[c].size = NextIs(g, c)
  <2>1. CASE c = o
    <3>1. NextIs(g, o) = NextIs(f, b)
      BY <1>5 DEF NextIs
    <3>2. o + g[o].size = b + f[b].size /\ g[o].size >= 1
      BY <1>2, <1>5
    <3>3. QED
      BY <1>3, <1>5, <2>1, <3>1, <3>2
  <2>2. CASE c = b
    <3>1. NextIs(g, b) = o
      BY <1>5 DEF NextIs, BLOCKLIST
    <3>2. QED
      BY <1>2, <1>5, <2>2, <3>1
  <2>3. CASE c # o /\ c # b
    <3>1. c \in Real(f) \ {b}
      BY <1>10, <2>3
    <3>2. f[c].tag \in Tags \cup {FREE} /\ f[c].size >= 1 /\ c + f[c].size = NextIs(f, c)
      BY <3>1 DEF Linked
    <3>3. QED
      BY <1>11, <3>1, <3>2
  <2>4. QED
    BY <2>1, <2>2, <2>3
<1>13. ASSUME NEW c \in Real(g), NEW d \in Real(g), c < d
       PROVE  c + g[c].size <= d
  <2>1. \A a \in Real(f) : a \in 1 .. ZONE /\ f[a].size \in 1 .. ZONE
    BY BlockFacts
  <2>2. \A a, e \in Real(f) : a < e => a + f[a].size <= e
    BY DEF Linked
  <2>3. CASE c = o
    <3>1. d \in Real(f) /\ b < d
      BY <1>2, <1>10, <1>13, <2>1, <2>3
    <3>2. b + f[b].size <= d
      BY <1>2, <3>1
    <3>3. o + g[o].size = b + f[b].size
      BY <1>2, <1>5
    <3>4. QED
      BY <2>3, <3>2, <3>3
  <2>4. CASE c = b /\ d # o
    <3>1. b + f[b].size <= d /\ d \in 1 .. ZONE
      BY <1>2, <1>10, <1>13, <2>1, <2>4
    <3>2. QED
      BY <1>2, <1>5, <2>4, <3>1
  <2>5. CASE c = b /\ d = o
    BY <1>5, <2>5
  <2>6. CASE c # b /\ c # o /\ d # o
    <3>1. c \in Real(f) \ {b} /\ d \in Real(f)
      BY <1>10, <2>6
    <3>2. QED
      BY <1>11, <1>13, <2>2, <3>1
  <2>7. CASE c # b /\ c # o /\ d = o
    <3>1. c \in Real(f) \ {b} /\ g[c].size = f[c].size
      BY <1>10, <1>11, <2>7
    <3>2. ~(b < c)
      <4>1. SUFFICES ASSUME b < c PROVE FALSE
        OBVIOUS
      <4>2. b + f[b].size <= c
        BY <1>2, <3>1, <4>1
      <4>3. QED
        BY <1>2, <1>13, <2>1, <2>7, <3>1, <4>2
    <3>3. c < b
      BY <1>2, <2>1, <2>7, <3>1, <3>2
    <3>4. c + f[c].size <= b
      BY <2>2, <3>1, <3>3
    <3>5. QED
      BY <1>2, <2>1, <2>7, <3>1, <3>4
  <2>8. QED
    BY <2>3, <2>4, <2>5, <2>6, <2>7
<1>14. QED
  BY <1>7, <1>8, <1>9, <1>12, <1>13 DEF Linked

(***************************************************************************)
(* The pieces in use.                                                      *)
(***************************************************************************)
Used(f) == {b \in Real(f) : f[b].tag # FREE}

Words(f) == UNION {b .. b + f[b].size - 1 : b \in Used(f)}

NoTwoFree(f) == \A b \in DOMAIN f : f[b].tag = FREE => f[f[b].next].tag # FREE

\* g has the pieces that f has, but for b.
UsedBut(g, f, b) ==
  /\ Used(g) = Used(f) \ {b}
  /\ \A c \in Used(g) : g[c].size = f[c].size /\ g[c].tag = f[c].tag

\* The words in use can be counted.
LEMMA WordsFacts ==
  ASSUME NEW f, Linked(f)
  PROVE  /\ IsFiniteSet(Words(f)) /\ Cardinality(Words(f)) \in 0 .. ZONE
         /\ \A w : w \in Words(f) <=> \E b \in Used(f) : w \in b .. b + f[b].size - 1
<1>1. ZONE \in Nat \ {0}
  BY ListFacts
<1>2. \A w : w \in Words(f) <=> \E b \in Used(f) : w \in b .. b + f[b].size - 1
  BY DEF Words
<1>3. \A b \in Used(f) : b \in 1 .. ZONE /\ f[b].size \in 1 .. ZONE /\ b + f[b].size <= ZONE + 1
  BY BlockFacts DEF Used
<1>4. Words(f) \in SUBSET (1 .. ZONE)
  BY <1>1, <1>2, <1>3
<1>5. IsFiniteSet(1 .. ZONE) /\ Cardinality(1 .. ZONE) = ZONE
  <2>1. 1 \in Int /\ ZONE \in Int /\ ~(1 > ZONE) /\ ZONE - 1 + 1 = ZONE
    BY <1>1
  <2>2. QED
    BY <2>1, FS_Interval
<1>6. IsFiniteSet(Words(f)) /\ Cardinality(Words(f)) <= ZONE
  BY <1>4, <1>5, FS_Subset
<1>7. Cardinality(Words(f)) \in Nat
  BY <1>6, FS_CardinalityType
<1>8. QED
  BY <1>1, <1>2, <1>6, <1>7

\* A piece counts with its words, because no other one has them.
LEMMA WordsOfPiece ==
  ASSUME NEW g, Linked(g), NEW f, Linked(f), NEW b \in Used(g), UsedBut(f, g, b)
  PROVE  Cardinality(Words(g)) = Cardinality(Words(f)) + g[b].size
<1> DEFINE B == b .. b + g[b].size - 1
<1>1. b \in 1 .. ZONE /\ g[b].size \in 1 .. ZONE /\ ZONE \in Nat \ {0}
  BY BlockFacts, ListFacts DEF Used
<1>2. IsFiniteSet(B) /\ Cardinality(B) = g[b].size
  <2>1. b \in Int /\ b + g[b].size - 1 \in Int /\ ~(b > b + g[b].size - 1)
        /\ (b + g[b].size - 1) - b + 1 = g[b].size
    BY <1>1
  <2>2. QED
    BY <2>1, FS_Interval
<1>3. /\ \A w : w \in Words(f) <=> \E c \in Used(f) : w \in c .. c + f[c].size - 1
      /\ \A w : w \in Words(g) <=> \E c \in Used(g) : w \in c .. c + g[c].size - 1
      /\ IsFiniteSet(Words(f)) /\ Cardinality(Words(f)) \in 0 .. ZONE
  BY WordsFacts
<1>4. /\ Used(f) = Used(g) \ {b}
      /\ \A c \in Used(f) : f[c].size = g[c].size
  BY DEF UsedBut
<1>5. Words(g) = Words(f) \cup B
  BY <1>3, <1>4
<1>6. Words(f) \cap B = {}
  <2>1. SUFFICES ASSUME NEW c \in Used(g) \ {b}, NEW w \in B, w \in c .. c + g[c].size - 1
                 PROVE  FALSE
    BY <1>3, <1>4
  <2>2. c \in 1 .. ZONE /\ g[c].size \in 1 .. ZONE /\ c \in Real(g) /\ b \in Real(g)
    BY BlockFacts DEF Used
  <2>3. (c < b => c + g[c].size <= b) /\ (b < c => b + g[b].size <= c)
    BY <2>2 DEF Linked
  <2>4. c # b
    BY <2>1
  <2>5. QED
    BY <1>1, <2>1, <2>2, <2>3, <2>4
<1>7. Cardinality(Words(f) \cap B) = 0
  BY <1>6, FS_EmptySet
<1>8. Cardinality(Words(f) \cup B)
        = Cardinality(Words(f)) + Cardinality(B) - Cardinality(Words(f) \cap B)
  BY <1>2, <1>3, FS_Union
<1>9. QED
  BY <1>1, <1>2, <1>3, <1>5, <1>7, <1>8

(***************************************************************************)
(* Z_TagMalloc takes a block.                                              *)
(***************************************************************************)
\* Block b of f is a piece of need words or a few more in g.
Taken(g, f, b, need, tag) ==
  /\ Linked(g) /\ NoTwoFree(g)
  /\ b \in Used(g) /\ g[b].tag = tag /\ need <= g[b].size /\ g[b].size <= need + MINFRAGMENT
  /\ UsedBut(f, g, b) /\ b \notin Used(f)
  /\ g[b].next \in DOMAIN g

\* The rest is too small to be a block.
LEMMA TakenWhole ==
  ASSUME NEW f, Linked(f), NoTwoFree(f), NEW b \in Real(f), f[b].tag = FREE,
         NEW need \in Nat \ {0}, need <= f[b].size, f[b].size <= need + MINFRAGMENT,
         NEW tag \in Tags, NEW g, g = Tag(f, b, tag)
  PROVE  Taken(g, f, b, need, tag) /\ g[b].next = f[b].next /\ g[b].size = f[b].size
<1>1. Linked(g) /\ Tagged(g, f, b, tag)
  BY TagLinked
<1>2. tag # FREE /\ b \in DOMAIN f
  BY ZoneAssumption DEF Real
<1>3. /\ DOMAIN g = DOMAIN f /\ g[b].tag = tag
      /\ \A c \in DOMAIN f : /\ g[c].size = f[c].size /\ g[c].next = f[c].next
                             /\ c # b => g[c].tag = f[c].tag
  BY <1>1 DEF Tagged
<1>4. \A c \in DOMAIN f : f[c].next \in DOMAIN f
  BY DEF Linked
<1>5. NoTwoFree(g)
  BY <1>2, <1>3, <1>4 DEF NoTwoFree
<1>6. b \in Used(g) /\ b \notin Used(f) /\ Used(f) = Used(g) \ {b}
  BY <1>2, <1>3 DEF Used, Real
<1>7. UsedBut(f, g, b)
  BY <1>3, <1>6 DEF UsedBut, Used, Real
<1>8. QED
  BY <1>1, <1>2, <1>3, <1>4, <1>5, <1>6, <1>7 DEF Taken

\* The rest is a block of its own, in front of one that is in use.
LEMMA TakenPart ==
  ASSUME NEW f, Linked(f), NoTwoFree(f), NEW b \in Real(f), f[b].tag = FREE,
         NEW need \in Nat \ {0}, need < f[b].size, f[b].size - need > MINFRAGMENT,
         NEW s, s = Split(f, b, need), NEW tag \in Tags, NEW g, g = Tag(s, b, tag)
  PROVE  Taken(g, f, b, need, tag) /\ g[b].next = s[b].next /\ g[b].size = s[b].size
<1>1. PICK o : o = b + need
  OBVIOUS
<1>2. /\ Parted(s, f, b, need, o) /\ s \in [DOMAIN f \cup {o} -> Header]
      /\ o \in 1 .. ZONE /\ o \notin DOMAIN f
  BY <1>1, SplitParts
<1>3. Linked(s)
  BY <1>1, <1>2, PartedLinked
<1>4. /\ DOMAIN s = DOMAIN f \cup {o} /\ s[b].size = need /\ s[b].next = o
      /\ s[o].tag = FREE /\ s[o].next = f[b].next
      /\ \A c \in DOMAIN f \ {b} :
           s[c].size = f[c].size /\ s[c].tag = f[c].tag /\ s[c].next = f[c].next
  BY <1>2 DEF Parted
<1>5. b \in Real(s) /\ tag # FREE /\ b \in DOMAIN f /\ b # o
  BY <1>2, <1>4, ZoneAssumption DEF Real
<1>6. Linked(g) /\ Tagged(g, s, b, tag)
  BY <1>3, <1>5, TagLinked
<1>7. /\ DOMAIN g = DOMAIN s /\ g[b].tag = tag
      /\ \A c \in DOMAIN s : /\ g[c].size = s[c].size /\ g[c].next = s[c].next
                             /\ c # b => g[c].tag = s[c].tag
  BY <1>6 DEF Tagged
<1>8. NoTwoFree(g)
  <2>1. SUFFICES ASSUME NEW c \in DOMAIN g, g[c].tag = FREE PROVE g[g[c].next].tag # FREE
    BY DEF NoTwoFree
  <2>2. c # b /\ s[c].tag = FREE /\ g[c].next = s[c].next
    BY <1>5, <1>7, <2>1
  <2>3. f[b].next \in DOMAIN f /\ f[f[b].next].tag # FREE /\ f[b].next # b /\ f[b].next # o
    BY <1>2, <1>5, BlockFacts DEF NoTwoFree
  <2>4. CASE c = o
    BY <1>4, <1>7, <2>2, <2>3, <2>4
  <2>5. CASE c # o
    <3>1. c \in DOMAIN f /\ f[c].tag = FREE /\ s[c].next = f[c].next
      BY <1>4, <1>7, <2>1, <2>2, <2>5
    <3>2. f[c].next \in DOMAIN f /\ f[f[c].next].tag # FREE
      BY <3>1 DEF NoTwoFree, Linked
    <3>3. f[c].next # b /\ f[c].next # o
      BY <1>2, <3>2
    <3>4. QED
      BY <1>4, <1>7, <2>2, <3>1, <3>2, <3>3
  <2>6. QED
    BY <2>4, <2>5
<1>9. b \in Used(g) /\ b \notin Used(f) /\ o \notin Used(g)
  BY <1>4, <1>5, <1>7 DEF Used, Real
<1>10. \A c \in DOMAIN f \ {b} : g[c].size = f[c].size /\ g[c].tag = f[c].tag
  BY <1>4, <1>7
<1>11. Used(f) = Used(g) \ {b}
  <2>1. Real(g) = Real(f) \cup {o} /\ o \notin Real(f)
    BY <1>2, <1>4, <1>7 DEF Real, BLOCKLIST
  <2>2. QED
    BY <1>9, <1>10, <2>1 DEF Used, Real
<1>12. UsedBut(f, g, b)
  BY <1>10, <1>11 DEF UsedBut, Used, Real
<1>13. need <= g[b].size /\ g[b].size <= need + MINFRAGMENT /\ g[b].next \in DOMAIN g
  BY <1>4, <1>5, <1>7, ZoneAssumption
<1>14. QED
  BY <1>4, <1>5, <1>6, <1>7, <1>8, <1>9, <1>12, <1>13 DEF Taken

\* Either way the block is taken.
LEMMA SplitTaken ==
  ASSUME NEW f, Linked(f), NoTwoFree(f), NEW b \in Real(f), f[b].tag = FREE,
         NEW need \in Nat \ {0}, need <= f[b].size,
         NEW s, s = Split(f, b, need), NEW tag \in Tags, NEW g, g = Tag(s, b, tag)
  PROVE  Taken(g, f, b, need, tag) /\ g[b].next = s[b].next /\ g[b].size = s[b].size
<1>1. f[b].size \in 1 .. ZONE /\ MINFRAGMENT \in Nat /\ ZONE \in Nat
  BY BlockFacts, ListFacts, ZoneAssumption
<1>2. CASE f[b].size - need <= MINFRAGMENT
  <2>1. s = f
    BY <1>2, Zenon DEF Split
  <2>2. f[b].size <= need + MINFRAGMENT
    BY <1>1, <1>2
  <2>3. g = Tag(f, b, tag)
    BY <2>1
  <2>4. Taken(g, f, b, need, tag) /\ g[b].next = f[b].next /\ g[b].size = f[b].size
    BY <2>2, <2>3, TakenWhole
  <2>5. QED
    BY <2>1, <2>4
<1>3. CASE ~(f[b].size - need <= MINFRAGMENT)
  <2>1. need < f[b].size /\ f[b].size - need > MINFRAGMENT
    BY <1>1, <1>3
  <2>2. Linked(f) /\ NoTwoFree(f) /\ b \in Real(f) /\ f[b].tag = FREE /\ need \in Nat \ {0}
        /\ tag \in Tags
    OBVIOUS
  <2>3. s = Split(f, b, need) /\ g = Tag(s, b, tag)
    OBVIOUS
  <2>4. QED
    BY <2>1, TakenPart
<1>4. QED
  BY <1>2, <1>3

(***************************************************************************)
(* Z_Free merges blocks.                                                   *)
(***************************************************************************)
\* Nobody but b may be followed by another free block.
FreeOnlyAt(f, b) ==
  \A c \in DOMAIN f \ {b} : f[c].tag = FREE => f[f[c].next].tag # FREE

\* A free block that took in the free one behind it.
LEMMA JoinedUsed ==
  ASSUME NEW f, Linked(f), NEW b \in Real(f), f[b].tag = FREE, NEW o \in Real(f),
         f[o].tag = FREE, o # b, NEW g, Joined(g, f, b, o)
  PROVE  /\ Used(g) = Used(f) /\ \A c \in Used(f) : g[c].size = f[c].size /\ g[c].tag = f[c].tag
         /\ b \in Real(g) /\ g[b].tag = FREE
<1>1. /\ DOMAIN g = DOMAIN f \ {o} /\ b \in DOMAIN f /\ b # BLOCKLIST /\ g[b].tag = f[b].tag
      /\ \A c \in DOMAIN g \ {b} : g[c].size = f[c].size /\ g[c].tag = f[c].tag
  BY DEF Joined, Real
<1>2. b \in Real(g) /\ g[b].tag = FREE /\ Real(g) = Real(f) \ {o}
  BY <1>1 DEF Real
<1>3. \A c \in Used(f) : c \in DOMAIN g \ {b}
  BY <1>1 DEF Used, Real
<1>4. Used(g) = Used(f)
  BY <1>1, <1>2, <1>3 DEF Used, Real
<1>5. QED
  BY <1>1, <1>2, <1>3, <1>4

\* A free block takes in the one behind it if that is free.
LEMMA MergedBehind ==
  ASSUME NEW f, Linked(f), NEW b \in Real(f), f[b].tag = FREE, FreeOnlyAt(f, b),
         NEW g, g = IF f[f[b].next].tag = FREE THEN Absorb(f, b) ELSE f
  PROVE  /\ Linked(g) /\ NoTwoFree(g) /\ b \in Real(g) /\ g[b].tag = FREE
         /\ g[b].size >= f[b].size /\ Used(g) = Used(f)
         /\ \A c \in Used(f) : g[c].size = f[c].size /\ g[c].tag = f[c].tag
<1>1. f[b].size \in 1 .. ZONE
  BY BlockFacts
<1>2. CASE f[f[b].next].tag # FREE
  <2>1. g = f
    BY <1>2
  <2>2. NoTwoFree(f)
    BY <1>2 DEF NoTwoFree, FreeOnlyAt
  <2>3. QED
    BY <1>1, <2>1, <2>2
<1>3. CASE f[f[b].next].tag = FREE
  <2>1. PICK o : o = f[b].next
    OBVIOUS
  <2>2. o # BLOCKLIST
    <3>1. f[BLOCKLIST].tag = 1
      BY DEF Linked
    <3>2. f[o].tag = 0
      BY <1>3, <2>1 DEF FREE
    <3>3. QED
      BY <3>1, <3>2
  <2>3. g = Absorb(f, b)
    BY <1>3
  <2>4. /\ Joined(g, f, b, o) /\ g \in [DOMAIN f \ {o} -> Header]
        /\ o \in Real(f) /\ f[o].prev = b /\ o # FIRST /\ f[o].next # b
    BY <2>1, <2>2, <2>3, AbsorbJoins
  <2>5. Linked(g)
    BY <2>1, <2>4, JoinedLinked
  <2>6. f[o].size \in 1 .. ZONE /\ o # b /\ f[o].next \in DOMAIN f /\ f[o].next # o
    BY <2>1, <2>4, BlockFacts
  <2>7. /\ Used(g) = Used(f) /\ \A c \in Used(f) : g[c].size = f[c].size /\ g[c].tag = f[c].tag
        /\ b \in Real(g) /\ g[b].tag = FREE
    BY <1>3, <2>1, <2>4, <2>6, JoinedUsed
  <2>8. /\ DOMAIN g = DOMAIN f \ {o} /\ g[b].size = f[b].size + f[o].size
        /\ g[b].next = f[o].next /\ g[b].tag = f[b].tag
        /\ \A c \in DOMAIN g \ {b} : g[c].tag = f[c].tag /\ g[c].next = f[c].next
    BY <2>4 DEF Joined
  <2>9. g[b].size >= f[b].size
    BY <1>1, <2>6, <2>8
  <2>10. NoTwoFree(g)
    <3>1. SUFFICES ASSUME NEW c \in DOMAIN g, g[c].tag = FREE PROVE g[g[c].next].tag # FREE
      BY DEF NoTwoFree
    <3>2. \A d \in DOMAIN g : g[d].tag = f[d].tag
      BY <2>8
    <3>3. CASE c = b
      <4>1. f[f[o].next].tag # FREE
        BY <1>3, <2>1, <2>4, <2>6 DEF FreeOnlyAt, Real
      <4>2. g[c].next = f[o].next /\ f[o].next \in DOMAIN g
        BY <2>6, <2>8, <3>3
      <4>3. QED
        BY <3>2, <4>1, <4>2
    <3>4. CASE c # b
      <4>1. c \in DOMAIN f /\ f[c].tag = FREE /\ g[c].next = f[c].next
        BY <2>8, <3>1, <3>4
      <4>2. f[f[c].next].tag # FREE /\ f[c].next \in DOMAIN f /\ f[f[c].next].prev = c
        BY <3>4, <4>1 DEF FreeOnlyAt, Linked
      <4>3. f[c].next \in DOMAIN g
        BY <2>4, <2>8, <3>4, <4>2
      <4>4. QED
        BY <3>2, <4>1, <4>2, <4>3
    <3>5. QED
      BY <3>3, <3>4
  <2>11. QED
    BY <2>5, <2>7, <2>9, <2>10
<1>4. QED
  BY <1>2, <1>3

\* Block b of f is free in h, where it lies in block.
Released(h, f, b, block) ==
  /\ Linked(h) /\ NoTwoFree(h) /\ UsedBut(h, f, b)
  /\ block \in Real(h) /\ h[block].tag = FREE
  /\ block <= b /\ b + f[b].size <= block + h[block].size

\* Z_Free merges the block with a free one before it and a free one behind it.
LEMMA FreedReleases ==
  ASSUME NEW f, Linked(f), NoTwoFree(f), NEW b \in Used(f),
         NEW e, e = Tag(f, b, FREE), NEW before, before = e[b].prev,
         NEW block, block = IF e[before].tag = FREE THEN before ELSE b,
         NEW j, j = IF block = before THEN Absorb(e, before) ELSE e,
         NEW h, h = IF j[j[block].next].tag = FREE THEN Absorb(j, block) ELSE j
  PROVE  Released(h, f, b, block)
<1>1. b \in Real(f) /\ b \in DOMAIN f /\ b # BLOCKLIST
  BY DEF Used, Real
<1>2. Linked(e) /\ Tagged(e, f, b, FREE)
  BY <1>1, TagLinked
<1>3. /\ DOMAIN e = DOMAIN f /\ e[b].tag = FREE
      /\ \A c \in DOMAIN f : /\ e[c].size = f[c].size /\ e[c].prev = f[c].prev
                             /\ e[c].next = f[c].next
                             /\ c # b => e[c].tag = f[c].tag
  BY <1>2 DEF Tagged
<1>4. b \in Real(e)
  BY <1>1, <1>3 DEF Real
<1>5. UsedBut(e, f, b)
  <2>1. Used(e) = Used(f) \ {b}
    BY <1>3 DEF Used, Real
  <2>2. QED
    BY <1>3, <2>1 DEF UsedBut, Used, Real
<1>6. /\ before \in DOMAIN e /\ before # b /\ e[before].next = b
      /\ before # 0 => /\ before \in Real(e) /\ before < b
                       /\ before + e[before].size = b
      /\ b \in 1 .. ZONE /\ e[b].size \in 1 .. ZONE
  BY <1>2, <1>4, BlockFacts
<1>7. \A c \in DOMAIN f : f[c].next \in DOMAIN f /\ f[f[c].next].prev = c
  BY DEF Linked
<1>8. \A c \in DOMAIN f : f[c].tag = FREE => f[f[c].next].tag # FREE
  BY DEF NoTwoFree
<1>9. /\ Linked(j) /\ block \in Real(j) /\ j[block].tag = FREE /\ FreeOnlyAt(j, block)
      /\ UsedBut(j, f, b) /\ block <= b /\ b + f[b].size <= block + j[block].size
  <2>1. CASE e[before].tag = FREE
    <3>1. block = before /\ j = Absorb(e, before)
      BY <2>1
    <3>2. before # 0
      <4>1. e[BLOCKLIST].tag = 1
        BY <1>2 DEF Linked
      <4>2. QED
        BY <2>1, <4>1 DEF BLOCKLIST, FREE
    <3>3. before \in Real(e) /\ before < b /\ before + e[before].size = b
      BY <1>6, <3>2
    <3>4. /\ Joined(j, e, before, b) /\ j \in [DOMAIN e \ {b} -> Header]
          /\ e[b].prev = before /\ b # FIRST /\ e[b].next # before
      <4>1. b # BLOCKLIST /\ b = e[before].next /\ Linked(e)
        BY <1>1, <1>2, <1>6
      <4>2. j = Absorb(e, before)
        BY <3>1
      <4>3. Joined(j, e, before, b) /\ j \in [DOMAIN e \ {b} -> Header]
            /\ b # FIRST /\ e[b].next # before
        BY ONLY <3>3, <4>1, <4>2, AbsorbJoins
      <4>4. QED
        BY <4>3
    <3>5. Linked(j)
      BY <1>2, <1>4, <1>6, <3>3, <3>4, JoinedLinked
    <3>6. /\ Used(j) = Used(e)
          /\ \A c \in Used(e) : j[c].size = e[c].size /\ j[c].tag = e[c].tag
          /\ before \in Real(j) /\ j[before].tag = FREE
      BY <1>2, <1>3, <1>4, <1>6, <2>1, <3>3, <3>4, JoinedUsed
    <3>7. /\ DOMAIN j = DOMAIN e \ {b} /\ j[before].size = e[before].size + e[b].size
          /\ \A c \in DOMAIN j : j[c].tag = e[c].tag
          /\ \A c \in DOMAIN j \ {before} : j[c].next = e[c].next
      BY <3>4 DEF Joined
    <3>8. FreeOnlyAt(j, before)
      <4>1. SUFFICES ASSUME NEW c \in DOMAIN j \ {before}, j[c].tag = FREE
                     PROVE  j[j[c].next].tag # FREE
        BY DEF FreeOnlyAt
      <4>2. c \in DOMAIN f /\ c # b /\ f[c].tag = FREE /\ j[c].next = f[c].next
        BY <1>3, <3>7, <4>1
      <4>3. f[c].next \in DOMAIN f /\ f[f[c].next].prev = c /\ f[f[c].next].tag # FREE
        BY <1>7, <1>8, <4>2
      <4>4. f[b].prev = before
        BY <1>1, <1>3
      <4>5. f[c].next # b
        BY <4>1, <4>3, <4>4
      <4>6. QED
        BY <1>3, <3>7, <4>2, <4>3, <4>5
    <3>9. UsedBut(j, f, b)
      BY <1>5, <3>6 DEF UsedBut
    <3>10. before <= b /\ b + f[b].size <= before + j[before].size
      <4>1. f[b].size = e[b].size
        BY <1>1, <1>3
      <4>2. before \in 1 .. ZONE /\ e[before].size \in 1 .. ZONE
        BY <1>2, <3>3, BlockFacts
      <4>3. QED
        BY <1>6, <3>3, <3>7, <4>1, <4>2
    <3>11. QED
      BY <3>1, <3>5, <3>6, <3>8, <3>9, <3>10
  <2>2. CASE e[before].tag # FREE
    <3>1. block = b /\ j = e
      BY <1>6, <2>2
    <3>2. FreeOnlyAt(e, b)
      <4>1. SUFFICES ASSUME NEW c \in DOMAIN e \ {b}, e[c].tag = FREE
                     PROVE  e[e[c].next].tag # FREE
        BY DEF FreeOnlyAt
      <4>2. c \in DOMAIN f /\ f[c].tag = FREE /\ e[c].next = f[c].next
        BY <1>3, <4>1
      <4>3. f[c].next \in DOMAIN f /\ f[f[c].next].prev = c /\ f[f[c].next].tag # FREE
        BY <1>7, <1>8, <4>2
      <4>4. f[b].prev = before
        BY <1>1, <1>3
      <4>5. f[c].next # b
        BY <2>2, <4>1, <4>3, <4>4
      <4>6. QED
        BY <1>3, <4>2, <4>3, <4>5
    <3>3. b <= b /\ b + f[b].size <= b + e[b].size
      <4>1. f[b].size = e[b].size
        BY <1>1, <1>3
      <4>2. QED
        BY <1>6, <4>1
    <3>4. QED
      BY <1>2, <1>3, <1>4, <1>5, <3>1, <3>2, <3>3
  <2>3. QED
    BY <2>1, <2>2
<1>10. /\ Linked(h) /\ NoTwoFree(h) /\ block \in Real(h) /\ h[block].tag = FREE
       /\ h[block].size >= j[block].size /\ Used(h) = Used(j)
       /\ \A c \in Used(j) : h[c].size = j[c].size /\ h[c].tag = j[c].tag
  <2>1. h = IF j[j[block].next].tag = FREE THEN Absorb(j, block) ELSE j
    OBVIOUS
  <2>2. QED
    BY ONLY <1>9, <2>1, MergedBehind
<1>11. UsedBut(h, f, b)
  BY ONLY <1>9, <1>10 DEF UsedBut
<1>12. b + f[b].size <= block + h[block].size
  <2>1. j[block].size \in 1 .. ZONE /\ block \in 1 .. ZONE
    BY ONLY <1>9, BlockFacts
  <2>2. h[block].size \in 1 .. ZONE
    BY ONLY <1>10, BlockFacts
  <2>3. f[b].size \in 1 .. ZONE
    BY <1>1, BlockFacts
  <2>4. QED
    BY ONLY <1>6, <1>9, <1>10, <2>1, <2>2, <2>3
<1>13. QED
  BY <1>9, <1>10, <1>11, <1>12 DEF Released

(***************************************************************************)
(* The heap.                                                               *)
(***************************************************************************)
Zones == [block : UNION {[D -> Header] : D \in SUBSET Addresses},
          rover : Addresses, used : 0 .. ZONE]

\* What every operation keeps.
Well(z) ==
  /\ z \in Zones
  /\ Linked(z.block) /\ NoTwoFree(z.block)
  /\ z.rover \in DOMAIN z.block
  /\ z.used = Cardinality(Words(z.block))

\* A list of blocks makes a heap, with the words counted.
LEMMA WellIf ==
  ASSUME NEW f, Linked(f), NoTwoFree(f), NEW r \in DOMAIN f, NEW u, u = Cardinality(Words(f)),
         NEW z, z = [block |-> f, rover |-> r, used |-> u]
  PROVE  Well(z)
<1>1. u \in 0 .. ZONE /\ r \in Addresses
  BY WordsFacts, ListFacts
<1>2. f \in UNION {[D -> Header] : D \in SUBSET Addresses}
  BY DEF Linked
<1>3. z \in Zones
  BY <1>1, <1>2 DEF Zones
<1>4. QED
  BY <1>3 DEF Well

\* A new zone is one free block.
LEMMA ClearedWell == Well(Z_ClearZone) /\ Used(Z_ClearZone.block) = {}
<1> DEFINE x == [size |-> 0, tag |-> 1, prev |-> FIRST, next |-> FIRST]
           y == [size |-> ZONE, tag |-> FREE, prev |-> BLOCKLIST, next |-> BLOCKLIST]
<1>1. PICK f : f = [b \in {BLOCKLIST, FIRST} |-> IF b = BLOCKLIST THEN x ELSE y]
  OBVIOUS
<1>2. Z_ClearZone = [block |-> f, rover |-> FIRST, used |-> 0]
  BY <1>1 DEF Z_ClearZone
<1>3. /\ x.size = 0 /\ x.tag = 1 /\ x.prev = FIRST /\ x.next = FIRST
      /\ y.size = ZONE /\ y.tag = FREE /\ y.prev = BLOCKLIST /\ y.next = BLOCKLIST
  OBVIOUS
<1>4. x \in Header /\ y \in Header
  BY ZoneAssumption DEF Header, Addresses, FIRST, BLOCKLIST, FREE
<1> HIDE DEF x, y
<1>5. DOMAIN f = {BLOCKLIST, FIRST} /\ f[BLOCKLIST] = x /\ f[FIRST] = y
  BY <1>1 DEF BLOCKLIST, FIRST
<1>6. f \in [{BLOCKLIST, FIRST} -> Header]
  BY <1>1, <1>4
<1>7. f \in UNION {[D -> Header] : D \in SUBSET Addresses}
  <2>1. {BLOCKLIST, FIRST} \in SUBSET Addresses
    BY ZoneAssumption DEF Addresses, FIRST, BLOCKLIST
  <2>2. QED
    BY <1>6, <2>1
<1>8. Real(f) = {FIRST}
  BY <1>5 DEF Real, BLOCKLIST, FIRST
<1>9. NextIs(f, FIRST) = ZONE + 1
  BY <1>3, <1>5 DEF NextIs
<1>10. /\ f[FIRST].tag \in Tags \cup {FREE} /\ f[FIRST].size >= 1
       /\ FIRST + f[FIRST].size = NextIs(f, FIRST)
  BY <1>3, <1>5, <1>9, ZoneAssumption DEF FIRST
<1>11. \A b \in DOMAIN f : /\ f[b].prev \in DOMAIN f /\ f[b].next \in DOMAIN f
                           /\ f[f[b].next].prev = b /\ f[f[b].prev].next = b
  BY <1>3, <1>5
<1>12. \A b, c \in Real(f) : b < c => b + f[b].size <= c
  BY <1>8 DEF FIRST
<1>13. Linked(f)
  BY <1>3, <1>5, <1>7, <1>8, <1>10, <1>11, <1>12 DEF Linked
<1>14. NoTwoFree(f)
  BY <1>3, <1>5 DEF NoTwoFree, FREE
<1>15. Used(f) = {}
  BY <1>3, <1>5, <1>8 DEF Used
<1>16. Cardinality(Words(f)) = 0
  <2>1. Words(f) = {}
    BY <1>15 DEF Words
  <2>2. QED
    BY <2>1, FS_EmptySet
<1>17. Well([block |-> f, rover |-> FIRST, used |-> 0])
  <2>1. FIRST \in DOMAIN f
    BY <1>5
  <2>2. QED
    BY <1>13, <1>14, <1>16, <2>1, WellIf
<1>18. QED
  BY <1>2, <1>15, <1>17

\* Piece b is freed.
LEMMA FreedWell ==
  ASSUME NEW z, Well(z), NEW b \in Used(z.block), NEW d, d = Freed(z, b)
  PROVE  Well(d) /\ Released(d.block, z.block, b, d.rover)
<1> DEFINE f == z.block
           e == Tag(f, b, FREE)
           before == e[b].prev
           block == IF e[before].tag = FREE THEN before ELSE b
           j == IF block = before THEN Absorb(e, before) ELSE e
           h == IF j[j[block].next].tag = FREE THEN Absorb(j, block) ELSE j
<1>1. f = z.block
  OBVIOUS
<1>2. e = Tag(f, b, FREE)
  OBVIOUS
<1>3. before = e[b].prev
  OBVIOUS
<1>4. block = IF e[before].tag = FREE THEN before ELSE b
  OBVIOUS
<1>5. j = IF block = before THEN Absorb(e, before) ELSE e
  OBVIOUS
<1>6. h = IF j[j[block].next].tag = FREE THEN Absorb(j, block) ELSE j
  OBVIOUS
<1>7. d = [block |-> h, rover |-> block, used |-> z.used - f[b].size]
  BY Zenon DEF Freed, Tag
<1> HIDE DEF f, e, before, block, j, h
<1>8. Linked(f) /\ NoTwoFree(f) /\ b \in Used(f) /\ z.used = Cardinality(Words(f))
  BY <1>1 DEF Well
<1>9. Released(h, f, b, block)
  BY ONLY <1>2, <1>3, <1>4, <1>5, <1>6, <1>8, FreedReleases
<1>10. Linked(h) /\ NoTwoFree(h) /\ UsedBut(h, f, b) /\ block \in DOMAIN h
  BY <1>9 DEF Released, Real
<1>11. z.used - f[b].size = Cardinality(Words(h))
  <2>1. Cardinality(Words(f)) = Cardinality(Words(h)) + f[b].size
    BY ONLY <1>8, <1>10, WordsOfPiece
  <2>2. Cardinality(Words(h)) \in 0 .. ZONE /\ f[b].size \in 1 .. ZONE /\ ZONE \in Nat
    <3>1. b \in Real(f)
      BY <1>8 DEF Used
    <3>2. QED
      BY ONLY <1>8, <1>10, <3>1, WordsFacts, BlockFacts, ListFacts
  <2>3. QED
    BY ONLY <1>8, <2>1, <2>2
<1>12. Well(d)
  BY ONLY <1>7, <1>10, <1>11, WellIf
<1>13. d.block = h /\ d.rover = block
  BY ONLY <1>7
<1>14. QED
  BY ONLY <1>1, <1>9, <1>12, <1>13

\* Free block base is taken.
LEMMA TakenWell ==
  ASSUME NEW z, Well(z), NEW base \in Real(z.block), z.block[base].tag = FREE,
         NEW need \in Nat \ {0}, need <= z.block[base].size, NEW tag \in Tags,
         NEW s, s = Split(z.block, base, need), NEW g, g = Tag(s, base, tag),
         NEW d, d = [block |-> g, rover |-> s[base].next, used |-> z.used + s[base].size]
  PROVE  Well(d) /\ Taken(g, z.block, base, need, tag)
<1>1. Linked(z.block) /\ NoTwoFree(z.block) /\ z.used = Cardinality(Words(z.block))
  BY DEF Well
<1>2. PICK f : f = z.block
  OBVIOUS
<1>3. /\ Linked(f) /\ NoTwoFree(f) /\ base \in Real(f) /\ f[base].tag = FREE
      /\ need <= f[base].size /\ s = Split(f, base, need)
  BY <1>1, <1>2
<1>4. Taken(g, f, base, need, tag) /\ g[base].next = s[base].next /\ g[base].size = s[base].size
  <2>1. need \in Nat \ {0} /\ tag \in Tags /\ g = Tag(s, base, tag)
    OBVIOUS
  <2>2. QED
    BY ONLY <1>3, <2>1, SplitTaken
<1>5. /\ Linked(g) /\ NoTwoFree(g) /\ base \in Used(g) /\ UsedBut(f, g, base)
      /\ s[base].next \in DOMAIN g
  BY <1>4 DEF Taken
<1>6. Cardinality(Words(g)) = Cardinality(Words(f)) + g[base].size
  BY ONLY <1>3, <1>5, WordsOfPiece
<1>7. z.used + s[base].size = Cardinality(Words(g))
  BY <1>1, <1>2, <1>4, <1>6
<1>8. d = [block |-> g, rover |-> s[base].next, used |-> z.used + s[base].size]
  OBVIOUS
<1>9. Well(d)
  BY ONLY <1>5, <1>7, <1>8, WellIf
<1>10. QED
  BY <1>2, <1>4, <1>9

(***************************************************************************)
(* Z_TagMalloc's scan.                                                     *)
(***************************************************************************)
\* f is what a walk computes that goes from d to after[d] and ends in Stop.
IsChain(f, D, V, Stop, val, after) ==
  /\ f \in [D -> V]
  /\ \A d \in D : f[d] = IF d \in Stop THEN val[d] ELSE f[after[d]]

\* A walk along a chain that gets nearer to its end with every step computes something
\* from everywhere.
LEMMA ChainExists ==
  ASSUME NEW n \in Nat, NEW D, NEW rank \in [D -> 0 .. n], NEW after \in [D -> D],
         NEW Stop, NEW V, NEW val \in [D -> V],
         \A d \in D \ Stop : rank[after[d]] < rank[d]
  PROVE  \E f : IsChain(f, D, V, Stop, val, after)
<1> DEFINE Below(k) == {d \in D : rank[d] <= k}
           Solves(f, k) == /\ f \in [Below(k) -> V]
                           /\ \A d \in Below(k) : f[d] = IF d \in Stop THEN val[d] ELSE f[after[d]]
           T == {k \in 0 .. n : \E f : Solves(f, k)}
<1>1. 0 \in T
  <2> DEFINE f == [d \in Below(0) |-> val[d]]
  <2>1. ASSUME NEW d \in Below(0) PROVE d \in Stop
    <3>1. d \in D /\ rank[d] \in 0 .. n /\ rank[d] <= 0
      OBVIOUS
    <3>2. after[d] \in D
      BY <3>1
    <3>3. rank[after[d]] \in 0 .. n
      BY <3>2
    <3>4. QED
      BY <3>1, <3>3
  <2>2. f \in [Below(0) -> V]
    OBVIOUS
  <2>3. \A d \in Below(0) : f[d] = IF d \in Stop THEN val[d] ELSE f[after[d]]
    BY <2>1
  <2>4. Solves(f, 0)
    BY <2>2, <2>3
  <2>5. 0 \in 0 .. n
    OBVIOUS
  <2> HIDE DEF Solves, f
  <2>6. QED
    BY <2>4, <2>5
<1>2. ASSUME NEW k \in 0 .. n, k \in T, k < n
      PROVE  k + 1 \in T
  <2>1. PICK f : Solves(f, k)
    BY <1>2
  <2> DEFINE g == [d \in Below(k + 1) |-> IF d \in Below(k) THEN f[d]
                                          ELSE IF d \in Stop THEN val[d] ELSE f[after[d]]]
  <2>2. ASSUME NEW d \in Below(k + 1)
        PROVE  /\ d \in D
               /\ d \notin Stop => after[d] \in Below(k)
    <3>1. d \in D /\ rank[d] \in 0 .. n /\ rank[d] <= k + 1 /\ after[d] \in D
      OBVIOUS
    <3>2. rank[after[d]] \in 0 .. n
      BY <3>1
    <3>3. QED
      BY <3>1, <3>2
  <2>3. \A d \in Below(k) : d \in Below(k + 1)
    OBVIOUS
  <2>4. \A d \in Below(k) : f[d] \in V
    BY <2>1
  <2>5. g \in [Below(k + 1) -> V]
    <3>1. ASSUME NEW d \in Below(k + 1)
          PROVE  (IF d \in Below(k) THEN f[d]
                  ELSE IF d \in Stop THEN val[d] ELSE f[after[d]]) \in V
      <4>1. d \in D /\ val[d] \in V
        BY <2>2
      <4> HIDE DEF Below
      <4>2. QED
        BY <2>2, <2>4, <4>1
    <3> HIDE DEF Below
    <3>2. QED
      BY <3>1
  <2>6. \A d \in Below(k + 1) : g[d] = IF d \in Below(k) THEN f[d]
                                       ELSE IF d \in Stop THEN val[d] ELSE f[after[d]]
    OBVIOUS
  <2>7. \A d \in Below(k) : f[d] = IF d \in Stop THEN val[d] ELSE f[after[d]]
    BY <2>1
  <2> HIDE DEF g, Below
  <2>8. \A d \in Below(k + 1) : g[d] = IF d \in Stop THEN val[d] ELSE g[after[d]]
    <3>1. SUFFICES ASSUME NEW d \in Below(k + 1)
                   PROVE  g[d] = IF d \in Stop THEN val[d] ELSE g[after[d]]
      OBVIOUS
    <3>2. d \notin Stop => after[d] \in Below(k) /\ g[after[d]] = f[after[d]]
      BY <2>2, <2>3, <2>6
    <3>3. CASE d \in Below(k)
      <4>1. g[d] = f[d]
        BY <2>6, <3>3
      <4>2. f[d] = IF d \in Stop THEN val[d] ELSE f[after[d]]
        BY <2>7, <3>3
      <4>3. QED
        BY <3>2, <4>1, <4>2
    <3>4. CASE d \notin Below(k)
      <4>1. g[d] = IF d \in Stop THEN val[d] ELSE f[after[d]]
        BY <2>6, <3>4
      <4>2. QED
        BY <3>2, <4>1
    <3>5. QED
      BY <3>3, <3>4
  <2>9. Solves(g, k + 1)
    BY <2>5, <2>8
  <2>10. k + 1 \in 0 .. n
    BY <1>2
  <2> HIDE DEF Solves
  <2>11. QED
    BY <2>9, <2>10
<1>3. n \in T
  <2> HIDE DEF T
  <2>1. \A k \in 0 .. n : k \in T
    BY <1>1, <1>2, IntervalInduction
  <2>2. QED
    BY <2>1
<1>4. PICK f : Solves(f, n)
  BY <1>3
<1>5. Below(n) = D
  OBVIOUS
<1> HIDE DEF Below
<1>6. QED
  BY <1>4, <1>5 DEF IsChain

\* The block behind b is the one with the next higher address, or the cap.
LEMMA NextIsNearest ==
  ASSUME NEW f, Linked(f), NEW b \in DOMAIN f, NEW n, n = f[b].next
  PROVE  /\ n \in DOMAIN f /\ n # b
         /\ n # 0 => n > b /\ \A c \in DOMAIN f : c > b => n <= c
         /\ n = 0 => b # 0 /\ \A c \in DOMAIN f : c <= b
<1>1. /\ \A c \in DOMAIN f : c \in 0 .. ZONE /\ (c \in Real(f) <=> c # 0)
      /\ ZONE \in Nat \ {0} /\ 0 \in DOMAIN f /\ n \in DOMAIN f
  BY ListFacts DEF BLOCKLIST, Linked
<1>2. CASE b = 0
  <2>1. n = 1
    BY <1>2 DEF Linked, BLOCKLIST, FIRST
  <2>2. QED
    BY <1>1, <1>2, <2>1
<1>3. CASE b # 0
  <2>1. b \in Real(f)
    BY <1>1, <1>3
  <2>2. /\ b \in 1 .. ZONE /\ f[b].size \in 1 .. ZONE
        /\ n # 0 => n = b + f[b].size
        /\ n = 0 => b + f[b].size = ZONE + 1
        /\ \A c \in Real(f) : b < c => b + f[b].size <= c
    BY <2>1, BlockFacts
  <2>3. QED
    BY <1>1, <1>3, <2>2
<1>4. QED
  BY <1>2, <1>3

\* How far it is from r on to s, around the ring.
LEMMA RingDistance ==
  ASSUME NEW f, Linked(f), NEW s \in DOMAIN f,
         NEW d, d = [r \in DOMAIN f |-> IF r <= s THEN s - r ELSE s + ZONE + 1 - r]
  PROVE  /\ d \in [DOMAIN f -> 0 .. 2 * ZONE + 1]
         /\ \A r \in DOMAIN f : d[r] = 0 <=> r = s
         /\ \A r \in DOMAIN f \ {s} :
              /\ d[f[r].next] < d[r]
              /\ \A c \in DOMAIN f \ {r} : d[c] <= d[r] => d[c] <= d[f[r].next]
         /\ \A c \in DOMAIN f : d[c] <= d[f[s].next]
<1>1. /\ \A c \in DOMAIN f : c \in 0 .. ZONE
      /\ ZONE \in Nat \ {0} /\ 0 \in DOMAIN f
  BY ListFacts DEF BLOCKLIST
<1>2. \A r \in DOMAIN f : /\ r <= s => d[r] = s - r
                          /\ ~(r <= s) => d[r] = s + ZONE + 1 - r
  OBVIOUS
<1>3. d \in [DOMAIN f -> 0 .. 2 * ZONE + 1]
  <2>1. \A r \in DOMAIN f : (IF r <= s THEN s - r ELSE s + ZONE + 1 - r) \in 0 .. 2 * ZONE + 1
    BY <1>1
  <2>2. QED
    BY <2>1
<1>4. \A r \in DOMAIN f : d[r] = 0 <=> r = s
  BY <1>1, <1>2
<1>5. ASSUME NEW r \in DOMAIN f
      PROVE  /\ f[r].next \in DOMAIN f /\ f[r].next # r
             /\ f[r].next # 0 => f[r].next > r /\ \A c \in DOMAIN f : c > r => f[r].next <= c
             /\ f[r].next = 0 => r # 0 /\ \A c \in DOMAIN f : c <= r
  BY NextIsNearest
<1>6. ASSUME NEW r \in DOMAIN f \ {s}, NEW n, n = f[r].next
      PROVE  /\ d[n] < d[r]
             /\ \A c \in DOMAIN f \ {r} : d[c] <= d[r] => d[c] <= d[n]
  <2>1. r \in 0 .. ZONE /\ s \in 0 .. ZONE /\ n \in 0 .. ZONE /\ r # s /\ n \in DOMAIN f
    BY <1>1, <1>5, <1>6
  <2>2. /\ n # 0 => n > r /\ \A c \in DOMAIN f : c > r => n <= c
        /\ n = 0 => r # 0 /\ \A c \in DOMAIN f : c <= r
    BY <1>5, <1>6
  <2>3. CASE r < s
    <3>1. n # 0 /\ n <= s
      BY <2>1, <2>2, <2>3
    <3>2. d[n] = s - n /\ d[r] = s - r /\ n > r
      BY <1>2, <2>1, <2>2, <2>3, <3>1
    <3>3. ASSUME NEW c \in DOMAIN f \ {r}, d[c] <= d[r] PROVE d[c] <= d[n]
      <4>1. c <= s
        <5>1. SUFFICES ASSUME ~(c <= s) PROVE FALSE
          OBVIOUS
        <5>2. d[c] = s + ZONE + 1 - c /\ c \in 0 .. ZONE
          BY <1>1, <1>2, <3>3, <5>1
        <5>3. QED
          BY <1>1, <2>1, <3>2, <3>3, <5>2
      <4>2. d[c] = s - c /\ c \in 0 .. ZONE /\ c # r
        BY <1>1, <1>2, <4>1
      <4>3. c > r
        BY <2>1, <3>2, <3>3, <4>2
      <4>4. QED
        BY <2>1, <2>2, <3>1, <3>2, <4>2, <4>3
    <3>4. QED
      BY <2>1, <3>2, <3>3
  <2>4. CASE ~(r < s)
    <3>1. r > s /\ d[r] = s + ZONE + 1 - r
      BY <1>2, <2>1, <2>4
    <3>2. CASE n = 0
      <4>1. d[n] = s
        BY <1>2, <2>1, <3>2
      <4>2. ASSUME NEW c \in DOMAIN f \ {r}, d[c] <= d[r] PROVE d[c] <= d[n]
        <5>1. c \in 0 .. ZONE /\ c <= r /\ c # r
          BY <1>1, <2>2, <3>2, <4>2
        <5>2. c <= s
          <6>1. SUFFICES ASSUME ~(c <= s) PROVE FALSE
            OBVIOUS
          <6>2. d[c] = s + ZONE + 1 - c
            BY <1>2, <4>2, <6>1
          <6>3. QED
            BY <1>1, <2>1, <3>1, <4>2, <5>1, <6>2
        <5>3. d[c] = s - c
          BY <1>2, <4>2, <5>2
        <5>4. QED
          BY <2>1, <4>1, <5>1, <5>3
      <4>3. QED
        BY <1>1, <2>1, <3>1, <4>1, <4>2
    <3>3. CASE n # 0
      <4>1. n > r /\ d[n] = s + ZONE + 1 - n
        BY <1>2, <2>1, <2>2, <3>1, <3>3
      <4>2. ASSUME NEW c \in DOMAIN f \ {r}, d[c] <= d[r] PROVE d[c] <= d[n]
        <5>1. c \in 0 .. ZONE /\ c # r
          BY <1>1, <4>2
        <5>2. CASE c <= s
          <6>1. d[c] = s - c
            BY <1>2, <5>1, <5>2, <4>2
          <6>2. QED
            BY <1>1, <2>1, <4>1, <5>1, <5>2, <6>1
        <5>3. CASE ~(c <= s)
          <6>1. d[c] = s + ZONE + 1 - c
            BY <1>2, <5>3, <4>2
          <6>2. c > r
            BY <1>1, <2>1, <3>1, <4>2, <5>1, <6>1
          <6>3. QED
            BY <1>1, <2>1, <2>2, <3>3, <4>1, <5>1, <6>1, <6>2
        <5>4. QED
          BY <5>2, <5>3
      <4>3. QED
        BY <1>1, <2>1, <3>1, <4>1, <4>2
    <3>4. QED
      BY <3>2, <3>3
  <2>5. QED
    BY <2>3, <2>4
<1>7. ASSUME NEW c \in DOMAIN f, NEW n, n = f[s].next PROVE d[c] <= d[n]
  <2>1. c \in 0 .. ZONE /\ s \in 0 .. ZONE /\ n \in 0 .. ZONE /\ n \in DOMAIN f /\ n # s
    BY <1>1, <1>5, <1>7
  <2>2. /\ n # 0 => n > s /\ \A e \in DOMAIN f : e > s => n <= e
        /\ n = 0 => \A e \in DOMAIN f : e <= s
    BY <1>5, <1>7
  <2>3. CASE n = 0
    <3>1. d[n] = s /\ d[c] = s - c
      BY <1>2, <2>1, <2>2, <2>3
    <3>2. QED
      BY <2>1, <3>1
  <2>4. CASE n # 0
    <3>1. d[n] = s + ZONE + 1 - n /\ n > s
      BY <1>2, <2>1, <2>2, <2>4
    <3>2. CASE c <= s
      <4>1. d[c] = s - c
        BY <1>2, <3>2
      <4>2. QED
        BY <1>1, <2>1, <3>1, <4>1
    <3>3. CASE ~(c <= s)
      <4>1. d[c] = s + ZONE + 1 - c /\ n <= c
        BY <1>2, <2>1, <2>2, <2>4, <3>3
      <4>2. QED
        BY <1>1, <2>1, <3>1, <4>1
    <3>4. QED
      BY <3>2, <3>3
  <2>5. QED
    BY <2>3, <2>4
<1>8. QED
  BY <1>3, <1>4, <1>6, <1>7

\* The block that a turn of the scan looks at.
Candidate(z, base, rover) == IF IsFree(z, rover) THEN base ELSE z.block[rover].next

Fits(z, b, need) == IsFree(z, b) /\ z.block[b].size >= need

\* What a turn at base and rover leads to: the end, a block, or another turn.
ScanTurn(z, need, scan, base, rover) ==
  IF rover = Start(z) THEN NoBlock
  ELSE IF Fits(z, Candidate(z, base, rover), need) THEN Candidate(z, base, rover)
  ELSE scan[<<Candidate(z, base, rover), z.block[rover].next>>]

\* The scan goes once around the ring at most, so it computes something.
LEMMA ScanComputes ==
  ASSUME NEW z, Well(z), NEW need
  PROVE  \E scan :
            /\ FirstFit(z, need) = scan[<<z.rover, z.rover>>]
            /\ \A base, rover \in DOMAIN z.block :
                 scan[<<base, rover>>] = ScanTurn(z, need, scan, base, rover)
<1> DEFINE D == DOMAIN z.block
           P == D \X D
           V == D \cup {NoBlock}
           s == Start(z)
           d == [r \in D |-> IF r <= s THEN s - r ELSE s + ZONE + 1 - r]
           rank == [at \in P |-> d[at[2]]]
           after == [at \in P |-> <<Candidate(z, at[1], at[2]), z.block[at[2]].next>>]
           Stop == {at \in P : at[2] = s \/ Fits(z, Candidate(z, at[1], at[2]), need)}
           val == [at \in P |-> IF at[2] = s THEN NoBlock ELSE Candidate(z, at[1], at[2])]
           Solves(g) == g = [at \in D \X D |->
                  LET base == at[1]
                      rover == at[2]
                      next == z.block[rover].next
                      candidate == IF IsFree(z, rover) THEN base ELSE next
                  IN IF rover = Start(z) THEN NoBlock
                     ELSE IF IsFree(z, candidate) /\ z.block[candidate].size >= need
                          THEN candidate
                          ELSE g[<<candidate, next>>]]
           it == CHOOSE g : Solves(g)
<1>1. Linked(z.block) /\ z.rover \in D
  BY DEF Well
<1>2. \A b \in D : z.block[b].next \in D /\ z.block[b].prev \in D
  BY <1>1 DEF Linked
<1>3. s \in D
  BY <1>1, <1>2 DEF Start
<1>4. /\ d \in [D -> 0 .. 2 * ZONE + 1]
      /\ \A r \in D \ {s} : d[z.block[r].next] < d[r]
  <2> HIDE DEF s
  <2>1. PICK e : e = d
    OBVIOUS
  <2>2. /\ e \in [D -> 0 .. 2 * ZONE + 1]
        /\ \A r \in D \ {s} : e[z.block[r].next] < e[r]
    BY <1>1, <1>3, <2>1, RingDistance
  <2>3. QED
    BY <2>1, <2>2
<1> HIDE DEF s, d
<1>5. \A base, rover \in D : Candidate(z, base, rover) \in D
  BY <1>2 DEF Candidate
<1>6. rank \in [P -> 0 .. 2 * ZONE + 1]
  BY <1>4
<1>7. after \in [P -> P]
  BY <1>2, <1>5
<1>8. val \in [P -> V]
  BY <1>5
<1>9. \A at \in P \ Stop : rank[after[at]] < rank[at]
  <2>1. SUFFICES ASSUME NEW at \in P \ Stop PROVE rank[after[at]] < rank[at]
    OBVIOUS
  <2>2. at[2] \in D \ {s} /\ at \in P
    OBVIOUS
  <2>3. after[at][2] = z.block[at[2]].next /\ after[at] \in P
    BY <1>7, <2>2
  <2>4. rank[at] = d[at[2]] /\ rank[after[at]] = d[after[at][2]]
    BY <2>2, <2>3
  <2> HIDE DEF rank, after
  <2>5. QED
    BY <1>4, <2>2, <2>3, <2>4
<1>10. \E g \in [P -> V] : \A at \in P : g[at] = IF at \in Stop THEN val[at] ELSE g[after[at]]
  <2>1. 2 * ZONE + 1 \in Nat
    BY <1>1, ListFacts
  <2>2. PICK n : n = 2 * ZONE + 1
    OBVIOUS
  <2> HIDE DEF D, P, V, Stop, val, rank, after, Solves, it
  <2>3. n \in Nat /\ rank \in [P -> 0 .. n]
    BY <1>6, <2>1, <2>2
  <2>4. \E g : IsChain(g, P, V, Stop, val, after)
    BY <1>7, <1>8, <1>9, <2>3, ChainExists, Zenon
  <2>5. QED
    BY <2>4, Zenon DEF IsChain
<1>11. PICK g \in [P -> V] : \A at \in P : g[at] = IF at \in Stop THEN val[at] ELSE g[after[at]]
  BY <1>10
<1>12. ASSUME NEW at \in P PROVE g[at] = ScanTurn(z, need, g, at[1], at[2])
  <2>1. g[at] = IF at \in Stop THEN val[at] ELSE g[after[at]]
    BY <1>11
  <2>2. at \in Stop <=> at[2] = s \/ Fits(z, Candidate(z, at[1], at[2]), need)
    OBVIOUS
  <2>3. /\ val[at] = IF at[2] = s THEN NoBlock ELSE Candidate(z, at[1], at[2])
        /\ after[at] = <<Candidate(z, at[1], at[2]), z.block[at[2]].next>>
    OBVIOUS
  <2> HIDE DEF val, after, Stop
  <2>4. QED
    BY <2>1, <2>2, <2>3 DEF ScanTurn, s
<1>13. Solves(g)
  <2>1. g = [at \in P |-> g[at]]
    BY <1>11
  <2>2. g = [at \in P |-> ScanTurn(z, need, g, at[1], at[2])]
    BY <1>12, <2>1, Zenon
  <2>3. QED
    BY <2>2, Zenon DEF ScanTurn, Candidate, Fits
<1>14. Solves(it)
  BY <1>13, Zenon
<1>15. FirstFit(z, need) = it[<<z.rover, z.rover>>]
  BY Zenon DEF FirstFit
<1>16. \A at \in P : it[at] = ScanTurn(z, need, it, at[1], at[2])
  <2>1. it = [at \in P |-> ScanTurn(z, need, it, at[1], at[2])]
    BY <1>14, Zenon DEF ScanTurn, Candidate, Fits
  <2> HIDE DEF it
  <2>2. QED
    BY <2>1, Zenon
<1> HIDE DEF it, Solves
<1>17. QED
  BY <1>15, <1>16

\* The scan gives up only if no free block is big enough: at every turn base is a block
\* that was looked at, or the free one before rover, so that rover is not free.
LEMMA FirstFitFacts ==
  ASSUME NEW z, Well(z), NEW need \in Nat \ {0}, NEW found, found = FirstFit(z, need)
  PROVE  \/ found = NoBlock /\ \A b \in DOMAIN z.block : ~Fits(z, b, need)
         \/ found \in DOMAIN z.block /\ Fits(z, found, need)
<1> DEFINE D == DOMAIN z.block
           s == Start(z)
           K == 2 * ZONE + 1
<1>1. Linked(z.block) /\ NoTwoFree(z.block) /\ z.rover \in D
  BY DEF Well
<1>2. \A b \in D : /\ z.block[b].next \in D /\ z.block[b].prev \in D
                   /\ z.block[z.block[b].prev].next = b /\ z.block[z.block[b].next].prev = b
                   /\ IsFree(z, b) => ~IsFree(z, z.block[b].next)
  BY <1>1 DEF Linked, NoTwoFree, IsFree
<1>3. s \in D /\ z.block[s].next = z.rover /\ s # z.rover
  <2>1. s \in D /\ z.block[s].next = z.rover
    BY <1>1, <1>2 DEF Start
  <2>2. z.block[s].next # s
    BY <1>1, <2>1, NextIsNearest
  <2>3. QED
    BY <2>1, <2>2
<1>4. D \subseteq 0 .. ZONE /\ ZONE \in Nat /\ NoBlock \notin D
  BY <1>1, ListFacts DEF NoBlock
<1>5. PICK scan : /\ found = scan[<<z.rover, z.rover>>]
                  /\ \A base, rover \in D :
                       scan[<<base, rover>>] = ScanTurn(z, need, scan, base, rover)
  BY ScanComputes
<1>6. PICK d : d = [r \in D |-> IF r <= s THEN s - r ELSE s + ZONE + 1 - r]
  OBVIOUS
<1> HIDE DEF s
<1>7. /\ d \in [D -> 0 .. K]
      /\ \A r \in D : d[r] = 0 <=> r = s
      /\ \A r \in D \ {s} : /\ d[z.block[r].next] < d[r]
                            /\ \A c \in D \ {r} : d[c] <= d[r] => d[c] <= d[z.block[r].next]
      /\ \A c \in D : d[c] <= d[z.block[s].next]
  BY ONLY <1>1, <1>3, <1>6, RingDistance
<1> DEFINE Good(base, rover) == IsFree(z, rover) => base = rover /\ ~Fits(z, rover, need)
           Right(base, rover) ==
             LET found_ == scan[<<base, rover>>]
             IN /\ found_ # NoBlock => found_ \in D /\ Fits(z, found_, need)
                /\ Good(base, rover) /\ found_ = NoBlock =>
                     \A c \in D : d[c] <= d[rover] => ~Fits(z, c, need)
           T == {k \in 0 .. K : \A base, rover \in D : d[rover] <= k => Right(base, rover)}
<1>8. ASSUME NEW base \in D PROVE Right(base, s)
  <2>1. scan[<<base, s>>] = NoBlock
    BY <1>3, <1>5 DEF ScanTurn, s
  <2>2. ASSUME NEW c \in D, d[c] <= d[s] PROVE c = s
    <3>1. d[s] = 0 /\ d[c] \in 0 .. K
      BY <1>3, <1>7
    <3>2. d[c] = 0
      BY <2>2, <3>1
    <3>3. QED
      BY <1>7, <3>2
  <2>3. ASSUME Good(base, s), NEW c \in D, d[c] <= d[s] PROVE ~Fits(z, c, need)
    <3>1. c = s
      BY <2>2, <2>3
    <3>2. QED
      BY <2>3, <3>1 DEF Fits
  <2> HIDE DEF Good
  <2>4. QED
    BY <2>1, <2>3
<1>9. ASSUME NEW base \in D, NEW rover \in D, rover # s,
             \A b, r \in D : d[r] < d[rover] => Right(b, r)
      PROVE  Right(base, rover)
  <2> DEFINE candidate == Candidate(z, base, rover)
             next == z.block[rover].next
  <2>1. candidate \in D /\ next \in D
    BY <1>2 DEF Candidate
  <2>2. scan[<<base, rover>>] = IF Fits(z, candidate, need) THEN candidate
                                ELSE scan[<<candidate, next>>]
    BY <1>5, <1>9 DEF ScanTurn, s
  <2>3. /\ IsFree(z, rover) => candidate = base /\ ~IsFree(z, next)
        /\ ~IsFree(z, rover) => candidate = next
    BY <1>2 DEF Candidate
  <2>4. d[next] < d[rover] /\ \A c \in D \ {rover} : d[c] <= d[rover] => d[c] <= d[next]
    BY <1>7, <1>9
  <2> HIDE DEF candidate, next
  <2>5. Right(candidate, next)
    BY <1>9, <2>1, <2>4
  <2>6. CASE Fits(z, candidate, need)
    <3>1. scan[<<base, rover>>] = candidate /\ candidate # NoBlock
      BY <1>4, <2>1, <2>2, <2>6
    <3>2. QED
      BY <2>1, <2>6, <3>1
  <2>7. CASE ~Fits(z, candidate, need)
    <3>1. scan[<<base, rover>>] = scan[<<candidate, next>>]
      BY <2>2, <2>7
    <3>2. Good(candidate, next)
      BY <2>3, <2>7
    <3>3. ASSUME Good(base, rover), scan[<<base, rover>>] = NoBlock, NEW c \in D, d[c] <= d[rover]
          PROVE  ~Fits(z, c, need)
      <4>1. CASE c = rover
        BY <3>3, <4>1 DEF Fits
      <4>2. CASE c # rover
        <5>1. d[c] <= d[next]
          BY <2>4, <3>3, <4>2
        <5> HIDE DEF Good
        <5>2. QED
          BY <2>5, <3>1, <3>2, <3>3, <5>1
      <4>3. QED
        BY <4>1, <4>2
    <3> HIDE DEF Good
    <3>4. QED
      BY <2>5, <3>1, <3>3
  <2>8. QED
    BY <2>6, <2>7
<1> HIDE DEF Good, Right
<1>10. \A k \in 0 .. K : k \in T
  <2>1. 0 \in T
    <3>1. ASSUME NEW base \in D, NEW rover \in D, d[rover] <= 0 PROVE Right(base, rover)
      <4>1. d[rover] = 0
        BY <1>7, <3>1
      <4>2. rover = s
        BY <1>7, <4>1
      <4>3. QED
        BY <1>8, <4>2
    <3>2. 0 \in 0 .. K
      BY <1>4
    <3>3. QED
      BY <3>1, <3>2
  <2>2. ASSUME NEW k \in 0 .. K, k \in T, k < K PROVE k + 1 \in T
    <3>1. ASSUME NEW base \in D, NEW rover \in D, d[rover] <= k + 1 PROVE Right(base, rover)
      <4>1. CASE rover = s
        BY <1>8, <4>1
      <4>2. CASE rover # s
        <5>1. ASSUME NEW b \in D, NEW r \in D, d[r] < d[rover] PROVE Right(b, r)
          <6>1. d[r] \in 0 .. K /\ d[rover] \in 0 .. K
            BY <1>7
          <6>2. d[r] <= k
            BY <2>2, <3>1, <5>1, <6>1
          <6>3. QED
            BY <2>2, <6>2
        <5>2. QED
          BY <1>9, <4>2, <5>1
      <4>3. QED
        BY <4>1, <4>2
    <3>2. k + 1 \in 0 .. K
      BY <1>4, <2>2
    <3>3. QED
      BY <3>1, <3>2
  <2>3. K \in Nat
    BY <1>4
  <2> HIDE DEF T, K
  <2>4. QED
    BY <2>1, <2>2, <2>3, IntervalInduction
<1>11. Right(z.rover, z.rover)
  <2>1. K \in 0 .. K /\ d[z.rover] <= K
    BY <1>1, <1>4, <1>7
  <2>2. K \in T
    BY <1>10, <2>1
  <2>3. QED
    BY <1>1, <2>1, <2>2
<1>12. CASE found # NoBlock
  BY <1>5, <1>11, <1>12 DEF Right
<1>13. CASE found = NoBlock
  <2>1. Good(z.rover, z.rover)
    <3>1. SUFFICES ASSUME IsFree(z, z.rover), Fits(z, z.rover, need) PROVE FALSE
      BY DEF Good
    <3>2. Candidate(z, z.rover, z.rover) = z.rover
      BY <3>1 DEF Candidate
    <3>3. found = z.rover
      BY <1>1, <1>3, <1>5, <3>1, <3>2 DEF ScanTurn, s
    <3>4. QED
      BY <1>1, <1>4, <1>13, <3>3
  <2>2. \A c \in D : d[c] <= d[z.rover]
    BY <1>3, <1>7
  <2>3. \A c \in D : d[c] <= d[z.rover] => ~Fits(z, c, need)
    BY <1>5, <1>11, <1>13, <2>1 DEF Right
  <2>4. QED
    BY <1>13, <2>2, <2>3
<1>14. QED
  BY <1>12, <1>13

(***************************************************************************)
(* The sweep of Z_FreeTags.                                                *)
(***************************************************************************)
\* A turn of the sweep frees the block at the rover or passes it.
LEMMA VisitResult ==
  ASSUME NEW z, Well(z), z.rover # BLOCKLIST, NEW tag \in Tags, NEW d, d = Visit(z, tag)
  PROVE  /\ Well(d)
         /\ \/ /\ z.block[z.rover].tag = tag /\ z.rover \in Used(z.block)
               /\ Released(d.block, z.block, z.rover, d.rover)
            \/ /\ z.block[z.rover].tag # tag
               /\ d.block = z.block /\ d.rover = z.block[z.rover].next
<1>1. z \in Zones /\ Linked(z.block) /\ NoTwoFree(z.block) /\ z.rover \in Real(z.block)
      /\ z.used = Cardinality(Words(z.block))
  BY DEF Well, Real
<1>2. tag # FREE
  BY ZoneAssumption
<1>3. CASE z.block[z.rover].tag = tag
  <2>1. z.rover \in Used(z.block)
    BY <1>1, <1>2, <1>3 DEF Used
  <2>2. d = Freed(z, z.rover)
    BY <1>3 DEF Visit
  <2>3. Well(z)
    OBVIOUS
  <2>4. Well(d) /\ Released(d.block, z.block, z.rover, d.rover)
    BY ONLY <2>1, <2>2, <2>3, FreedWell
  <2>5. QED
    BY <1>3, <2>1, <2>4
<1>4. CASE z.block[z.rover].tag # tag
  <2>1. PICK r : r = z.block[z.rover].next
    OBVIOUS
  <2>2. r \in DOMAIN z.block
    BY <1>1, <2>1, BlockFacts
  <2>3. d = [z EXCEPT !.rover = r]
    BY <1>4, <2>1 DEF Visit
  <2>4. d = [block |-> z.block, rover |-> r, used |-> z.used]
    BY <1>1, <2>3 DEF Zones
  <2>5. Well(d)
    BY ONLY <1>1, <2>2, <2>4, WellIf
  <2>6. d.block = z.block /\ d.rover = r
    BY ONLY <2>4
  <2>7. QED
    BY <1>4, <2>1, <2>5, <2>6
<1>5. QED
  BY <1>3, <1>4

\* z without pieces of this tag, as far as the rover of y, or all if that is at the cap.
SweptTo(y, z, tag) ==
  /\ Well(y)
  /\ \A b \in Used(y.block) : /\ b \in Used(z.block)
                              /\ y.block[b].size = z.block[b].size
                              /\ y.block[b].tag = z.block[b].tag
  /\ \A b \in Used(z.block) \ Used(y.block) : z.block[b].tag = tag
  /\ \A b \in Used(y.block) : y.rover = 0 \/ b < y.rover => y.block[b].tag # tag

\* At most k turns are left: two for each word behind the rover's block, and one if that
\* block goes.
Left(y, tag, k) ==
  LET behind == ZONE + 1 - (y.rover + y.block[y.rover].size)
  IN y.rover # 0 => /\ 2 * behind <= k
                    /\ y.block[y.rover].tag = tag => 2 * behind + 1 <= k

\* A turn of the sweep keeps what was swept, and fewer are left.
LEMMA VisitSweeps ==
  ASSUME NEW z, NEW tag \in Tags, NEW y, SweptTo(y, z, tag), y.rover # 0,
         NEW k \in Int, Left(y, tag, k), NEW d, d = Visit(y, tag)
  PROVE  SweptTo(d, z, tag) /\ Left(d, tag, k - 1)
<1>1. /\ Well(y) /\ Linked(y.block) /\ y.rover \in Real(y.block)
      /\ \A b \in Used(y.block) : /\ b \in Used(z.block)
                                  /\ y.block[b].size = z.block[b].size
                                  /\ y.block[b].tag = z.block[b].tag
      /\ \A b \in Used(z.block) \ Used(y.block) : z.block[b].tag = tag
      /\ \A b \in Used(y.block) : b < y.rover => y.block[b].tag # tag
  BY DEF SweptTo, Well, Real, BLOCKLIST
<1>2. PICK r : r = y.rover
  OBVIOUS
<1>3. PICK size : size = y.block[r].size
  OBVIOUS
<1>4. /\ r \in 1 .. ZONE /\ size \in 1 .. ZONE /\ ZONE \in Nat
      /\ 2 * (ZONE + 1 - (r + size)) <= k
      /\ y.block[r].tag = tag => 2 * (ZONE + 1 - (r + size)) + 1 <= k
  BY <1>1, <1>2, <1>3, BlockFacts, ListFacts DEF Left
<1>5. /\ Well(d)
      /\ \/ /\ y.block[r].tag = tag /\ r \in Used(y.block)
            /\ Released(d.block, y.block, r, d.rover)
         \/ /\ y.block[r].tag # tag
            /\ d.block = y.block /\ d.rover = y.block[r].next
  <2>1. y.rover # BLOCKLIST
    BY DEF BLOCKLIST
  <2>2. QED
    BY <1>1, <1>2, <2>1, VisitResult
<1>6. CASE y.block[r].tag = tag
  <2>1. r \in Used(y.block) /\ Released(d.block, y.block, r, d.rover)
    BY <1>5, <1>6
  <2>2. /\ UsedBut(d.block, y.block, r) /\ d.rover \in Real(d.block)
        /\ d.block[d.rover].tag = FREE /\ Linked(d.block)
        /\ d.rover <= r /\ r + size <= d.rover + d.block[d.rover].size
    BY <1>3, <2>1 DEF Released
  <2>3. /\ Used(d.block) = Used(y.block) \ {r}
        /\ \A b \in Used(d.block) : /\ d.block[b].size = y.block[b].size
                                    /\ d.block[b].tag = y.block[b].tag
    BY <2>2 DEF UsedBut
  <2>4. d.rover \in 1 .. ZONE /\ d.block[d.rover].size \in 1 .. ZONE
    BY <2>2, BlockFacts
  <2>5. \A b \in Used(d.block) : /\ b \in Used(z.block)
                                 /\ d.block[b].size = z.block[b].size
                                 /\ d.block[b].tag = z.block[b].tag
    BY <1>1, <2>3
  <2>6. \A b \in Used(z.block) \ Used(d.block) : z.block[b].tag = tag
    BY <1>1, <1>6, <2>1, <2>3
  <2>7. ASSUME NEW b \in Used(d.block), d.rover = 0 \/ b < d.rover PROVE d.block[b].tag # tag
    <3>1. b \in 1 .. ZONE
      BY <2>2, <2>7, BlockFacts DEF Used
    <3>2. b < r
      BY <1>4, <2>2, <2>4, <2>7, <3>1
    <3>3. QED
      BY <1>1, <1>2, <2>3, <3>2
  <2>8. SweptTo(d, z, tag)
    BY <1>5, <2>5, <2>6, <2>7 DEF SweptTo
  <2>9. d.block[d.rover].tag # tag
    BY <2>2, ZoneAssumption
  <2>10. 2 * (ZONE + 1 - (d.rover + d.block[d.rover].size)) <= k - 1
    BY <1>4, <1>6, <2>2, <2>4
  <2>11. Left(d, tag, k - 1)
    BY <2>9, <2>10 DEF Left
  <2>12. QED
    BY <2>8, <2>11
<1>7. CASE y.block[r].tag # tag
  <2>1. PICK n : n = y.block[r].next
    OBVIOUS
  <2>2. d.block = y.block /\ d.rover = n
    BY <1>5, <1>7, <2>1
  <2>3. /\ n \in DOMAIN y.block
        /\ n # 0 => n = r + size /\ n \in Real(y.block)
    BY <1>1, <1>2, <1>3, <2>1, BlockFacts
  <2>4. /\ n # 0 => \A c \in DOMAIN y.block : c > r => n <= c
        /\ n = 0 => \A c \in DOMAIN y.block : c <= r
    <3>1. r \in DOMAIN y.block
      BY <1>1, <1>2 DEF Real
    <3>2. QED
      BY <1>1, <2>1, <3>1, NextIsNearest
  <2>5. ASSUME NEW b \in Used(d.block), d.rover = 0 \/ b < d.rover PROVE d.block[b].tag # tag
    <3>1. b \in 1 .. ZONE /\ b \in DOMAIN y.block
      BY <1>1, <2>2, <2>5, BlockFacts DEF Used, Real
    <3>2. b <= r
      <4>1. n = 0 \/ (n # 0 /\ b < n)
        BY <2>2, <2>5
      <4>2. n # 0 => n \in 1 .. ZONE
        BY <1>1, <2>3, BlockFacts
      <4>3. QED
        BY <1>4, <2>4, <3>1, <4>1, <4>2
    <3>3. b = r \/ b < r
      BY <1>4, <3>1, <3>2
    <3>4. QED
      BY <1>1, <1>2, <1>7, <2>2, <3>3
  <2>6. SweptTo(d, z, tag)
    BY <1>1, <1>5, <2>2, <2>5 DEF SweptTo
  <2>7. ASSUME n # 0
        PROVE  2 * (ZONE + 1 - (n + y.block[n].size)) + 1 <= k - 1
    <3>1. y.block[n].size \in 1 .. ZONE /\ n = r + size
      BY <1>1, <2>3, <2>7, BlockFacts
    <3>2. QED
      BY <1>4, <3>1
  <2>8. n # 0 => 2 * (ZONE + 1 - (n + y.block[n].size)) <= k - 1
    <3>1. n # 0 => y.block[n].size \in 1 .. ZONE /\ n \in 1 .. ZONE
      BY <1>1, <2>3, BlockFacts
    <3>2. QED
      BY <1>4, <2>7, <3>1
  <2>9. Left(d, tag, k - 1)
    BY <2>2, <2>7, <2>8 DEF Left
  <2>10. QED
    BY <2>6, <2>9
<1>8. QED
  BY <1>6, <1>7
SweepTurn(y, tag) == IF y.rover = BLOCKLIST THEN y ELSE Visit(y, tag)

\* The sweep is a loop that counts.
LEMMA SweepComputes ==
  ASSUME NEW z, Well(z), NEW tag \in Tags,
         NEW first, first = Visit([z EXCEPT !.rover = SweepFrom(z)], tag),
         Well(first)
  PROVE  \E run : /\ run[0] = first /\ Swept(z, tag) = run[2 * ZONE]
                  /\ \A n \in 1 .. 2 * ZONE : run[n] = SweepTurn(run[n - 1], tag)
<1> DEFINE M == 2 * ZONE
           S == {y \in Zones : Well(y)}
           step == [x \in S \X (0 .. M - 1) |-> SweepTurn(x[1], tag)]
           Solves(f) == f = [n \in 0 .. 2 * ZONE |->
                               IF n = 0 THEN Visit([z EXCEPT !.rover = SweepFrom(z)], tag)
                               ELSE LET before == f[n - 1]
                                    IN IF before.rover = BLOCKLIST THEN before ELSE Visit(before, tag)]
           it == CHOOSE f : Solves(f)
<1>1. M \in Nat /\ first \in S
  BY ZoneAssumption DEF Well
<1>2. step \in [S \X (0 .. M - 1) -> S]
  <2>1. ASSUME NEW y \in S PROVE SweepTurn(y, tag) \in S
    <3>1. Well(y)
      OBVIOUS
    <3>2. CASE y.rover = BLOCKLIST
      BY <3>2 DEF SweepTurn
    <3>3. CASE y.rover # BLOCKLIST
      <4>1. Well(Visit(y, tag))
        BY <3>1, <3>3, VisitResult
      <4>2. Visit(y, tag) \in Zones
        BY <4>1 DEF Well
      <4>3. QED
        BY <3>3, <4>1, <4>2 DEF SweepTurn
    <3>4. QED
      BY <3>2, <3>3
  <2> HIDE DEF S
  <2>2. QED
    BY <2>1
<1>3. PICK f \in [0 .. M -> S] :
        \A n \in 0 .. M : f[n] = IF n = 0 THEN first ELSE step[<<f[n - 1], n - 1>>]
  <2> HIDE DEF step, M, S
  <2>1. \E f : IsLoop(f, M, S, first, step)
    BY <1>1, <1>2, LoopExists, Zenon
  <2>2. QED
    BY <2>1, Zenon DEF IsLoop
<1>4. \A n \in 0 .. M : f[n] = IF n = 0 THEN first ELSE SweepTurn(f[n - 1], tag)
  <2>1. ASSUME NEW n \in 0 .. M, n # 0
        PROVE  step[<<f[n - 1], n - 1>>] = SweepTurn(f[n - 1], tag)
    <3>1. n - 1 \in 0 .. M - 1 /\ n - 1 \in 0 .. M
      BY <1>1, <2>1
    <3>2. f[n - 1] \in S
      BY <3>1
    <3> HIDE DEF S
    <3>3. QED
      BY <3>1, <3>2
  <2> HIDE DEF step
  <2>2. QED
    BY <1>3, <2>1
<1>5. Solves(f)
  <2>1. f = [n \in 0 .. M |-> f[n]]
    BY <1>3
  <2>2. f = [n \in 0 .. M |-> IF n = 0 THEN first ELSE SweepTurn(f[n - 1], tag)]
    BY <1>4, <2>1, Zenon
  <2>3. QED
    BY <2>2, Zenon DEF SweepTurn
<1>6. Solves(it)
  BY <1>5, Zenon
<1>7. Swept(z, tag) = it[M]
  BY Zenon DEF Swept
<1>8. \A n \in 0 .. M : it[n] = IF n = 0 THEN first ELSE SweepTurn(it[n - 1], tag)
  <2>1. it = [n \in 0 .. M |-> IF n = 0 THEN first ELSE SweepTurn(it[n - 1], tag)]
    BY <1>6, Zenon DEF SweepTurn
  <2> HIDE DEF it, M
  <2>2. QED
    BY <2>1, Zenon
<1> HIDE DEF it
<1>9. it[0] = first /\ \A n \in 1 .. M : it[n] = SweepTurn(it[n - 1], tag)
  <2>1. 0 \in 0 .. M /\ \A n \in 1 .. M : n \in 0 .. M /\ n # 0
    BY <1>1
  <2>2. QED
    BY <1>8, <2>1
<1>10. QED
  BY <1>7, <1>9

\* Only the pieces with this tag are gone.
LEMMA SweptResult ==
  ASSUME NEW z, Well(z), NEW tag \in Tags, NEW d, d = Swept(z, tag)
  PROVE  /\ Well(d)
         /\ Used(d.block) = {b \in Used(z.block) : z.block[b].tag # tag}
         /\ \A b \in Used(d.block) : /\ d.block[b].size = z.block[b].size
                                     /\ d.block[b].tag = z.block[b].tag
<1>1. Linked(z.block) /\ NoTwoFree(z.block) /\ z \in Zones /\ z.used = Cardinality(Words(z.block))
  BY DEF Well
<1>2. /\ FIRST \in DOMAIN z.block /\ FIRST \in Real(z.block) /\ SweepFrom(z) = FIRST
      /\ z.block[BLOCKLIST].tag = 1 /\ ZONE \in Nat \ {0}
  BY <1>1, ListFacts DEF Linked, SweepFrom
<1>3. PICK y : y = [z EXCEPT !.rover = FIRST]
  OBVIOUS
<1>4. y = [block |-> z.block, rover |-> FIRST, used |-> z.used]
  BY <1>1, <1>3 DEF Zones
<1>5. Well(y)
  BY ONLY <1>1, <1>2, <1>4, WellIf
<1>6. y.block = z.block /\ y.rover = FIRST
  BY ONLY <1>4
<1>7. SweptTo(y, z, tag)
  <2>1. \A b \in Used(y.block) : b \in 1 .. ZONE
    BY <1>1, <1>6, BlockFacts DEF Used
  <2>2. \A b \in Used(y.block) : ~(b < FIRST) /\ FIRST # 0
    BY <2>1 DEF FIRST
  <2>3. QED
    BY <1>5, <1>6, <2>2 DEF SweptTo
<1>8. Left(y, tag, 2 * ZONE - 1)
  <2>1. z.block[FIRST].size \in 1 .. ZONE
    BY <1>1, <1>2, BlockFacts
  <2>2. QED
    BY <1>2, <1>6, <2>1 DEF Left, FIRST
<1>9. PICK first : first = Visit(y, tag)
  OBVIOUS
<1>10. SweptTo(first, z, tag) /\ Left(first, tag, 2 * ZONE - 2)
  <2>1. 2 * ZONE - 1 \in Int /\ (2 * ZONE - 1) - 1 = 2 * ZONE - 2
    BY <1>2
  <2>2. y.rover # 0
    BY <1>6 DEF FIRST
  <2>3. SweptTo(first, z, tag) /\ Left(first, tag, (2 * ZONE - 1) - 1)
    BY <1>7, <1>8, <1>9, <2>1, <2>2, VisitSweeps
  <2>4. QED
    BY <2>1, <2>3
<1>11. PICK run : /\ run[0] = first /\ d = run[2 * ZONE]
                  /\ \A n \in 1 .. 2 * ZONE : run[n] = SweepTurn(run[n - 1], tag)
  <2>1. first = Visit([z EXCEPT !.rover = SweepFrom(z)], tag)
    BY <1>2, <1>3, <1>9
  <2>2. Well(first)
    BY <1>10 DEF SweptTo
  <2>3. QED
    BY <2>1, <2>2, SweepComputes
<1> DEFINE M == 2 * ZONE
           T == {n \in 0 .. M : SweptTo(run[n], z, tag) /\ Left(run[n], tag, M - 2 - n)}
<1>12. M \in Nat
  BY <1>2
<1>13. 0 \in T
  <2>1. 0 \in 0 .. M /\ M - 2 - 0 = M - 2
    BY <1>12
  <2>2. QED
    BY <1>10, <1>11, <2>1
<1>14. ASSUME NEW n \in 0 .. M, n \in T, n < M PROVE n + 1 \in T
  <2>1. n + 1 \in 0 .. M /\ n + 1 \in 1 .. M /\ (n + 1) - 1 = n
        /\ M - 2 - n \in Int /\ (M - 2 - n) - 1 = M - 2 - (n + 1)
    BY <1>12, <1>14
  <2>2. PICK x : x = run[n]
    OBVIOUS
  <2>3. SweptTo(x, z, tag) /\ Left(x, tag, M - 2 - n)
    BY <1>14, <2>2
  <2>4. run[n + 1] = SweepTurn(x, tag)
    BY <1>11, <2>1, <2>2
  <2>5. CASE x.rover = 0
    <3>1. run[n + 1] = x
      BY <2>4, <2>5 DEF SweepTurn, BLOCKLIST
    <3>2. Left(x, tag, M - 2 - (n + 1))
      BY <2>5 DEF Left
    <3>3. QED
      BY <2>1, <2>3, <3>1, <3>2
  <2>6. CASE x.rover # 0
    <3>1. run[n + 1] = Visit(x, tag)
      BY <2>4, <2>6 DEF SweepTurn, BLOCKLIST
    <3>2. SweptTo(run[n + 1], z, tag) /\ Left(run[n + 1], tag, (M - 2 - n) - 1)
      BY <2>1, <2>3, <2>6, <3>1, VisitSweeps
    <3>3. QED
      BY <2>1, <3>2
  <2>7. QED
    BY <2>5, <2>6
<1>15. M \in T
  <2> HIDE DEF T, M
  <2>1. \A n \in 0 .. M : n \in T
    BY <1>12, <1>13, <1>14, IntervalInduction
  <2>2. M \in 0 .. M
    BY <1>12
  <2>3. QED
    BY <2>1, <2>2
<1>16. SweptTo(d, z, tag) /\ Left(d, tag, M - 2 - M)
  BY <1>11, <1>15
<1>17. /\ Well(d)
       /\ \A b \in Used(d.block) : /\ b \in Used(z.block)
                                   /\ d.block[b].size = z.block[b].size
                                   /\ d.block[b].tag = z.block[b].tag
       /\ \A b \in Used(z.block) \ Used(d.block) : z.block[b].tag = tag
       /\ d.rover = 0 => \A b \in Used(d.block) : d.block[b].tag # tag
  BY <1>16 DEF SweptTo
<1>18. d.rover = 0
  <2>1. SUFFICES ASSUME d.rover # 0 PROVE FALSE
    OBVIOUS
  <2>2. Linked(d.block) /\ d.rover \in Real(d.block)
    BY <1>17, <2>1 DEF Well, Real, BLOCKLIST
  <2>3. d.rover \in 1 .. ZONE /\ d.block[d.rover].size \in 1 .. ZONE
        /\ d.rover + d.block[d.rover].size <= ZONE + 1
    BY <2>2, BlockFacts
  <2>4. 2 * (ZONE + 1 - (d.rover + d.block[d.rover].size)) <= M - 2 - M
    BY <1>16, <2>1 DEF Left
  <2>5. QED
    BY <1>2, <2>3, <2>4
<1>19. \A b \in Used(d.block) : d.block[b].tag # tag
  BY <1>17, <1>18
<1>20. Used(d.block) = {b \in Used(z.block) : z.block[b].tag # tag}
  BY <1>17, <1>19
<1>21. QED
  BY <1>17, <1>20

(***************************************************************************)
(* The invariant.                                                          *)
(***************************************************************************)
Asked == {size + HEADER : size \in Requests}

HeapInv ==
  /\ Well(zone)
  /\ refused \in {0} \cup Asked
  /\ refused # 0 => \A b \in DOMAIN zone.block : ~Fits(zone, b, refused)

\* What a request leads to.
LEMMA TagMallocResult ==
  ASSUME HeapInv, NEW size \in Requests, NEW tag \in Tags, Z_TagMalloc(size, tag),
         NEW need, need = size + HEADER
  PROVE  /\ need \in Nat \ {0} /\ need \in Asked
         /\ \/ /\ refused' = need /\ UNCHANGED zone
               /\ \A b \in DOMAIN zone.block : ~Fits(zone, b, need)
            \/ /\ Well(zone') /\ UNCHANGED refused
               /\ \E base : Taken(zone'.block, zone.block, base, need, tag)
<1>1. Well(zone)
  BY DEF HeapInv
<1>2. need \in Nat \ {0} /\ need \in Asked
  BY ZoneAssumption DEF Asked
<1>3. PICK base : base = FirstFit(zone, need)
  OBVIOUS
<1>4. \/ base = NoBlock /\ \A b \in DOMAIN zone.block : ~Fits(zone, b, need)
      \/ base \in DOMAIN zone.block /\ Fits(zone, base, need)
  BY <1>1, <1>2, <1>3, FirstFitFacts
<1>5. CASE base = NoBlock
  <2>1. refused' = need /\ UNCHANGED zone
    BY <1>3, <1>5 DEF Z_TagMalloc
  <2>2. NoBlock \notin DOMAIN zone.block
    BY <1>1, ListFacts DEF Well, NoBlock
  <2>3. QED
    BY <1>2, <1>4, <1>5, <2>1, <2>2
<1>6. CASE base # NoBlock
  <2>1. base \in DOMAIN zone.block /\ Fits(zone, base, need)
    BY <1>4, <1>6
  <2>2. zone.block[BLOCKLIST].tag = 1
    BY <1>1 DEF Well, Linked
  <2>3. /\ base \in Real(zone.block) /\ zone.block[base].tag = FREE
        /\ need <= zone.block[base].size
    <3>1. zone.block[base].size \in 0 .. ZONE
      BY <1>1, <2>1, ListFacts DEF Well, Header
    <3>2. zone.block[base].tag = FREE /\ need <= zone.block[base].size
      BY <1>2, <2>1, <3>1 DEF Fits, IsFree
    <3>3. base # BLOCKLIST
      BY <2>2, <3>2 DEF FREE
    <3>4. QED
      BY <2>1, <3>2, <3>3 DEF Real
  <2>4. PICK s : s = Split(zone.block, base, need)
    OBVIOUS
  <2>5. PICK g : g = Tag(s, base, tag)
    OBVIOUS
  <2>6. /\ zone' = [block |-> g, rover |-> s[base].next, used |-> zone.used + s[base].size]
        /\ UNCHANGED refused
    BY <1>3, <1>6, <2>4, <2>5, Zenon DEF Z_TagMalloc, Tag
  <2>7. tag \in Tags
    OBVIOUS
  <2>8. Well(zone') /\ Taken(g, zone.block, base, need, tag)
    BY ONLY <1>1, <1>2, <2>3, <2>4, <2>5, <2>6, <2>7, TakenWell
  <2>9. zone'.block = g
    BY ONLY <2>6
  <2>10. QED
    BY <1>2, <2>6, <2>8, <2>9
<1>7. QED
  BY <1>5, <1>6

\* The pieces of the model are those of its list.
LEMMA InUseIsUsed == ASSUME NEW z PROVE InUse(z) = Used(z.block)
  BY DEF InUse, Blocks, Used, Real

\* A new zone is a heap.
LEMMA HeapInvInit == ZoneInit => HeapInv
<1>1. SUFFICES ASSUME ZoneInit PROVE HeapInv
  OBVIOUS
<1>2. Well(zone) /\ refused = 0
  BY <1>1, ClearedWell, Zenon DEF ZoneInit
<1>3. QED
  BY <1>2 DEF HeapInv

\* Every operation leaves a heap.
LEMMA HeapInvStep == HeapInv /\ [ZoneNext]_zoneVars => HeapInv'
<1>1. SUFFICES ASSUME HeapInv, [ZoneNext]_zoneVars PROVE HeapInv'
  OBVIOUS
<1>2. ASSUME Well(zone'), refused = 0, UNCHANGED refused PROVE HeapInv'
  BY <1>2 DEF HeapInv
<1>3. CASE Z_VM_InitHeap
  BY <1>2, <1>3, ClearedWell DEF Z_VM_InitHeap
<1>4. ASSUME NEW size \in Requests, NEW tag \in Tags, Z_TagMalloc(size, tag) PROVE HeapInv'
  <2>1. PICK need : need = size + HEADER
    OBVIOUS
  <2>2. /\ need \in Nat \ {0} /\ need \in Asked
        /\ \/ /\ refused' = need /\ UNCHANGED zone
              /\ \A b \in DOMAIN zone.block : ~Fits(zone, b, need)
           \/ /\ Well(zone') /\ UNCHANGED refused
              /\ \E base : Taken(zone'.block, zone.block, base, need, tag)
    BY <1>1, <1>4, <2>1, TagMallocResult
  <2>3. CASE /\ refused' = need /\ UNCHANGED zone
             /\ \A b \in DOMAIN zone.block : ~Fits(zone, b, need)
    BY <1>1, <2>2, <2>3 DEF HeapInv
  <2>4. CASE Well(zone') /\ UNCHANGED refused
    <3>1. refused = 0
      BY <1>4 DEF Z_TagMalloc
    <3>2. QED
      BY <1>2, <2>4, <3>1
  <2>5. QED
    BY <2>2, <2>3, <2>4
<1>5. ASSUME NEW b \in InUse(zone), Z_Free(b) PROVE HeapInv'
  <2>1. Well(zone) /\ b \in Used(zone.block)
    BY <1>1, <1>5, InUseIsUsed DEF HeapInv
  <2>2. zone' = Freed(zone, b) /\ refused = 0 /\ UNCHANGED refused
    BY <1>5 DEF Z_Free
  <2>3. Well(zone')
    BY <2>1, <2>2, FreedWell
  <2>4. QED
    BY <1>2, <2>2, <2>3
<1>6. CASE Z_FreeTags(TAG_RENDERER)
  <2>1. Well(zone) /\ TAG_RENDERER \in Tags
    BY <1>1, ZoneAssumption DEF HeapInv
  <2>2. zone' = Swept(zone, TAG_RENDERER) /\ refused = 0 /\ UNCHANGED refused
    BY <1>6 DEF Z_FreeTags
  <2>3. Well(zone')
    BY <2>1, <2>2, SweptResult
  <2>4. QED
    BY <1>2, <2>2, <2>3
<1>7. CASE UNCHANGED zoneVars
  BY <1>1, <1>7 DEF zoneVars, HeapInv
<1>8. QED
  BY <1>1, <1>3, <1>4, <1>5, <1>6, <1>7 DEF ZoneNext

\* The headers are a ring in the order of the addresses after every operation, each block
\* ends where the next begins, no two free ones are neighbours, and the count is right.
THEOREM ZoneInvariant == ZoneSpec => []HeapInv
<1>1. QED
  BY HeapInvInit, HeapInvStep, PTL DEF ZoneSpec

\* Headers stay where headers may be, and the rover, which the merging of Z_Free may
\* leave without a block, points at one.
THEOREM ZoneTypeCorrect == ZoneSpec => []ZoneTypeOK
<1>1. HeapInv => ZoneTypeOK
  <2>1. SUFFICES ASSUME HeapInv PROVE ZoneTypeOK
    OBVIOUS
  <2>2. Linked(zone.block) /\ zone \in Zones /\ zone.rover \in DOMAIN zone.block
    BY <2>1 DEF HeapInv, Well
  <2>3. {BLOCKLIST, FIRST} \subseteq DOMAIN zone.block /\ DOMAIN zone.block \subseteq Addresses
    BY <2>2, ListFacts DEF Real
  <2>4. ASSUME NEW b \in DOMAIN zone.block
        PROVE  zone.block[b] \in [size : 0 .. ZONE, tag : Tags \cup {FREE, 1},
                                  prev : DOMAIN zone.block, next : DOMAIN zone.block]
    <3>1. zone.block[b] \in Header
      BY <2>2, ListFacts
    <3>2. zone.block[b].prev \in DOMAIN zone.block /\ zone.block[b].next \in DOMAIN zone.block
      BY <2>2 DEF Linked
    <3>3. QED
      BY <3>1, <3>2 DEF Header
  <2>5. zone.used \in 0 .. ZONE
    BY <2>2 DEF Zones
  <2>6. refused \in {0} \cup {size + HEADER : size \in Requests}
    BY <2>1 DEF HeapInv, Asked
  <2>7. QED
    BY <2>2, <2>3, <2>4, <2>5, <2>6 DEF ZoneTypeOK
<1>2. QED
  BY <1>1, ZoneInvariant, PTL

\* What Z_CheckHeap checks holds whenever it is called, and the number that
\* Z_AvailableMemory subtracts is that of the words in use.
THEOREM HeapStaysWellFormed == ZoneSpec => []HeapWellFormed
<1>1. HeapInv => HeapWellFormed
  <2>1. SUFFICES ASSUME HeapInv PROVE HeapWellFormed
    OBVIOUS
  <2>2. Linked(zone.block) /\ NoTwoFree(zone.block) /\ zone.used = Cardinality(Words(zone.block))
    BY <2>1 DEF HeapInv, Well
  <2>3. UsedIsInUse
    BY <2>2, InUseIsUsed DEF UsedIsInUse, Words
  <2>4. \A b \in DOMAIN zone.block :
          /\ zone.block[zone.block[b].next].prev = b
          /\ zone.block[zone.block[b].prev].next = b
          /\ IsFree(zone, b) => ~IsFree(zone, zone.block[b].next)
    BY <2>2 DEF Linked, NoTwoFree, IsFree
  <2>5. \A b \in Blocks(zone) :
          b + zone.block[b].size = IF zone.block[b].next = BLOCKLIST
                                   THEN ZONE + 1 ELSE zone.block[b].next
    BY <2>2 DEF Linked, NextIs, Blocks, Real
  <2>6. QED
    BY <2>3, <2>4, <2>5 DEF HeapWellFormed
<1>2. QED
  BY <1>1, ZoneInvariant, PTL

\* Wherever Z_Free and Z_FreeTags left the rover, Z_TagMalloc gives up only if there is
\* no free block that is big enough.
THEOREM RefusalIsJustified == ZoneSpec => []RefusedOnlyIfFull
<1>1. HeapInv => RefusedOnlyIfFull
  <2>1. SUFFICES ASSUME HeapInv, refused # 0, NEW b \in Blocks(zone), IsFree(zone, b)
                 PROVE  zone.block[b].size < refused
    BY DEF RefusedOnlyIfFull
  <2>2. b \in DOMAIN zone.block /\ ~Fits(zone, b, refused) /\ refused \in Asked
    BY <2>1 DEF HeapInv, Blocks
  <2>3. refused \in Nat
    BY <2>2, ZoneAssumption DEF Asked
  <2>4. zone.block[b].size \in 0 .. ZONE
    BY <2>1, <2>2, ListFacts DEF HeapInv, Well, Header
  <2>5. QED
    BY <2>1, <2>2, <2>3, <2>4 DEF Fits
<1>2. QED
  BY <1>1, ZoneInvariant, PTL

(***************************************************************************)
(* The zone as an allocator.                                               *)
(***************************************************************************)
PieceAt(f, b) == [at |-> b, size |-> f[b].size, tag |-> f[b].tag]

PiecesOf(f) == {PieceAt(f, b) : b \in Used(f)}

\* What the zone shows to the allocator.
LEMMA PiecesAre == Pieces = PiecesOf(zone.block)
  BY InUseIsUsed DEF Pieces, PiecesOf, PieceAt

\* One piece less.
LEMMA PiecesBut ==
  ASSUME NEW f, NEW g, NEW b \in Used(f), UsedBut(g, f, b)
  PROVE  PiecesOf(g) = PiecesOf(f) \ {PieceAt(f, b)} /\ PieceAt(f, b) \in PiecesOf(f)
<1>1. Used(g) = Used(f) \ {b} /\ \A c \in Used(g) : PieceAt(g, c) = PieceAt(f, c)
  BY DEF UsedBut, PieceAt
<1>2. \A c : PieceAt(f, c).at = c
  BY DEF PieceAt
<1>3. \A c : c # b => PieceAt(f, c) # PieceAt(f, b)
  BY <1>2
<1>4. QED
  BY <1>1, <1>3 DEF PiecesOf

\* A piece that was taken is one that the abstract allocator may hand out.
LEMMA TakenAllocates ==
  ASSUME NEW f, NEW g, NEW b, NEW need \in Asked, NEW tag \in Tags,
         Taken(g, f, b, need, tag), Pieces = PiecesOf(f), Pieces' = PiecesOf(g)
  PROVE  \E p \in Memory!Pieces : Memory!Alloc(p)
<1> DEFINE p == PieceAt(g, b)
<1>1. /\ Linked(g) /\ b \in Used(g) /\ b \in Real(g) /\ g[b].tag = tag
      /\ need <= g[b].size /\ g[b].size <= need + MINFRAGMENT /\ UsedBut(f, g, b)
  BY DEF Taken, Used
<1>2. b \in 1 .. ZONE /\ g[b].size \in 1 .. ZONE /\ b + g[b].size <= ZONE + 1
  BY <1>1, BlockFacts
<1>3. p.at = b /\ p.size = g[b].size /\ p.tag = tag
  BY <1>1 DEF PieceAt
<1>4. p \in Memory!Pieces
  BY <1>1, <1>2 DEF PieceAt, Memory!Pieces
<1>5. PiecesOf(f) = PiecesOf(g) \ {p} /\ p \in PiecesOf(g)
  BY <1>1, PiecesBut
<1>6. Pieces' = Pieces \cup {p}
  BY <1>5
<1>7. ASSUME NEW q \in Pieces PROVE Memory!Disjoint(p, q)
  <2>1. PICK c \in Used(g) : q = PieceAt(g, c)
    BY <1>5 DEF PiecesOf
  <2>2. q # p
    BY <1>5, <1>7
  <2>3. q.at = c /\ q.size = g[c].size /\ c # b /\ c \in Real(g)
    BY <2>1, <2>2 DEF PieceAt, Used
  <2>4. c \in 1 .. ZONE
    BY <1>1, <2>3, BlockFacts
  <2>5. /\ b < c => b + g[b].size <= c
        /\ c < b => c + g[c].size <= b
    BY <1>1, <2>3 DEF Linked
  <2> HIDE DEF p
  <2>6. QED
    BY <1>2, <1>3, <2>3, <2>4, <2>5 DEF Memory!Disjoint
<1>8. \E n \in Asked : n <= p.size /\ p.size <= n + MINFRAGMENT
  <2> HIDE DEF p
  <2>1. QED
    BY <1>1, <1>3
<1>9. p.at + p.size <= ZONE + 1
  BY <1>2, <1>3
<1> HIDE DEF p
<1>10. Memory!Alloc(p)
  BY <1>6, <1>7, <1>8, <1>9 DEF Memory!Alloc, Asked
<1>11. QED
  BY <1>4, <1>10

\* At first nothing is handed out.
LEMMA MemoryInit == ZoneInit => Memory!Init
<1>1. SUFFICES ASSUME ZoneInit PROVE Memory!Init
  OBVIOUS
<1>2. Used(zone.block) = {}
  BY <1>1, ClearedWell, Zenon DEF ZoneInit
<1>3. Pieces = {}
  BY <1>2, PiecesAre DEF PiecesOf
<1>4. QED
  BY <1>3 DEF Memory!Init

\* A step of the zone is a step of the allocator, or no step.
LEMMA MemoryStep == HeapInv /\ [ZoneNext]_zoneVars => [Memory!Next]_Pieces
<1>1. SUFFICES ASSUME HeapInv, [ZoneNext]_zoneVars PROVE [Memory!Next]_Pieces
  OBVIOUS
<1>2. Pieces = PiecesOf(zone.block) /\ Pieces' = PiecesOf(zone'.block)
  <2>1. (Pieces = PiecesOf(zone.block))'
    BY PiecesAre, PTL
  <2>2. QED
    BY <2>1, PiecesAre
<1>3. CASE Z_VM_InitHeap
  <2>1. Used(zone'.block) = {}
    BY <1>3, ClearedWell, Zenon DEF Z_VM_InitHeap
  <2>2. Pieces' = {}
    BY <1>2, <2>1 DEF PiecesOf
  <2>3. QED
    BY <2>2 DEF Memory!Next, Memory!FreeAll
<1>4. ASSUME NEW size \in Requests, NEW tag \in Tags, Z_TagMalloc(size, tag)
      PROVE  [Memory!Next]_Pieces
  <2>1. PICK need : need = size + HEADER
    OBVIOUS
  <2>2. /\ need \in Asked
        /\ \/ UNCHANGED zone
           \/ \E base : Taken(zone'.block, zone.block, base, need, tag)
    BY <1>1, <1>4, <2>1, TagMallocResult
  <2>3. CASE UNCHANGED zone
    BY <1>2, <2>3
  <2>4. ASSUME NEW base, Taken(zone'.block, zone.block, base, need, tag)
        PROVE  [Memory!Next]_Pieces
    <3>1. \E p \in Memory!Pieces : Memory!Alloc(p)
      BY <1>2, <2>2, <2>4, TakenAllocates
    <3>2. QED
      BY <3>1 DEF Memory!Next
  <2>5. QED
    BY <2>2, <2>3, <2>4
<1>5. ASSUME NEW b \in InUse(zone), Z_Free(b) PROVE [Memory!Next]_Pieces
  <2>1. Well(zone) /\ b \in Used(zone.block)
    BY <1>1, <1>5, InUseIsUsed DEF HeapInv
  <2>2. zone' = Freed(zone, b)
    BY <1>5 DEF Z_Free
  <2>3. UsedBut(zone'.block, zone.block, b)
    BY <2>1, <2>2, FreedWell DEF Released
  <2>4. Pieces' = Pieces \ {PieceAt(zone.block, b)} /\ PieceAt(zone.block, b) \in Pieces
    BY <1>2, <2>1, <2>3, PiecesBut
  <2>5. QED
    BY <2>4 DEF Memory!Next, Memory!Free
<1>6. CASE Z_FreeTags(TAG_RENDERER)
  <2>1. Well(zone) /\ TAG_RENDERER \in Tags
    BY <1>1, ZoneAssumption DEF HeapInv
  <2>2. zone' = Swept(zone, TAG_RENDERER)
    BY <1>6 DEF Z_FreeTags
  <2>3. PICK f : f = zone.block
    OBVIOUS
  <2>4. PICK g : g = zone'.block
    OBVIOUS
  <2>5. /\ Used(g) = {b \in Used(f) : f[b].tag # TAG_RENDERER}
        /\ \A b \in Used(g) : g[b].size = f[b].size /\ g[b].tag = f[b].tag
    BY <2>1, <2>2, <2>3, <2>4, SweptResult
  <2>6. \A b \in Used(g) : PieceAt(g, b) = PieceAt(f, b)
    BY <2>5 DEF PieceAt
  <2>7. \A b : PieceAt(f, b).tag = f[b].tag
    BY DEF PieceAt
  <2>8. PiecesOf(g) = {p \in PiecesOf(f) : p.tag # TAG_RENDERER}
    BY <2>5, <2>6, <2>7 DEF PiecesOf
  <2>9. Memory!FreeTag(TAG_RENDERER)
    BY <1>2, <2>3, <2>4, <2>8 DEF Memory!FreeTag
  <2>10. QED
    BY <2>1, <2>9 DEF Memory!Next
<1>7. CASE UNCHANGED zoneVars
  BY <1>2, <1>7 DEF zoneVars
<1>8. QED
  BY <1>1, <1>3, <1>4, <1>5, <1>6, <1>7 DEF ZoneNext

\* The zone implements the allocator: pieces in use never overlap, grow, shrink or move,
\* a piece is as long as was asked for, and only Z_Free, Z_FreeTags and a new zone take
\* pieces away: one, those of a tag, or all.
THEOREM ZoneImplementsAllocator == ZoneSpec => ImplementsAllocator
<1>1. QED
  BY MemoryInit, MemoryStep, ZoneInvariant, PTL DEF ZoneSpec, ImplementsAllocator, Memory!Spec
=============================================================================
