----------------------- MODULE NetchanGamestateProofs -----------------------
(***************************************************************************)
(* The safety of the server's net channel, for every fragment size, every  *)
(* set of messages and every checksum function; and, in the second part,   *)
(* of what goes through the channel when a client enters the world, for    *)
(* every number of maps, restarts, configstring changes and messages.  The *)
(* parts share no variable and neither needs the other.                    *)
(***************************************************************************)
EXTENDS ServerNetchan, Gamestate, SequenceTheorems, ProofLemmas, TLAPS

\* A datagram of this connection carries the message of its number, or the
\* piece of it that its start and length say.
Faithful(p) ==
  /\ p.sequence \in 1 .. Len(accepted)
  /\ ~p.fragmented => p.data = accepted[p.sequence]
  /\ p.fragmented =>
       /\ p.start + Len(p.data) <= Len(accepted[p.sequence])
       /\ p.data = SubSeq(accepted[p.sequence], p.start + 1, p.start + Len(p.data))
       /\ Len(p.data) # FRAGMENT_SIZE => p.start + Len(p.data) = Len(accepted[p.sequence])

NetFaithful == \A p \in net : Valid(p) => Faithful(p)

\* Every accepted message is sent, under way or queued.
Accounted ==
  outgoingSequence + (IF unsentFragments THEN 1 ELSE 0) + Len(netchan_queue) = Len(accepted) + 1

UnderWay ==
  unsentFragments => /\ unsentBuffer = accepted[outgoingSequence]
                     /\ unsentFragmentStart <= Len(unsentBuffer)

Queued ==
  \A i \in 1 .. Len(netchan_queue) :
     netchan_queue[i] = accepted[Len(accepted) - Len(netchan_queue) + i]

\* What the receiver has put together is the beginning of the message it is
\* reassembling.
PartialIsPrefix ==
  fragmentBuffer # <<>> =>
    /\ fragmentSequence \in 1 .. Len(accepted)
    /\ Len(fragmentBuffer) <= Len(accepted[fragmentSequence])
    /\ fragmentBuffer = SubSeq(accepted[fragmentSequence], 1, Len(fragmentBuffer))

IInv == /\ TypeOK
        /\ Accounted /\ UnderWay /\ Queued
        /\ NetFaithful /\ PartialIsPrefix
        /\ DeliveredIntact /\ DeliveredInOrder

-----------------------------------------------------------------------------
\* What one fragment is: a piece of the message, of the length it says, the
\* last one exactly when it is not full (Netchan_TransmitNextFragment).
LEMMA FragmentOfMessage ==
  ASSUME NEW m \in Seq(Byte), NEW start \in Nat, start <= Len(m)
  PROVE  /\ FragmentLength(m, start) \in Nat
         /\ start + FragmentLength(m, start) <= Len(m)
         /\ Fragment(m, start) \in Seq(Byte)
         /\ Len(Fragment(m, start)) = FragmentLength(m, start)
         /\ LastFragment(m, start) <=> FragmentLength(m, start) # FRAGMENT_SIZE
         /\ LastFragment(m, start) => start + FragmentLength(m, start) = Len(m)
<1>1. FRAGMENT_SIZE \in Nat \ {0} /\ Len(m) \in Nat
  BY SizeAssumption
<1>2. /\ FragmentLength(m, start) \in Nat
      /\ start + FragmentLength(m, start) <= Len(m)
      /\ LastFragment(m, start) <=> FragmentLength(m, start) # FRAGMENT_SIZE
  BY <1>1 DEF FragmentLength, LastFragment
<1>3. /\ Fragment(m, start) \in Seq(Byte)
      /\ Len(Fragment(m, start)) = FragmentLength(m, start)
  BY <1>1, <1>2 DEF Fragment
<1>4. QED
  BY <1>2, <1>3 DEF LastFragment

\* Initially nothing was sent and only stray datagrams are under way.
LEMMA InitInvariant == Init => IInv
<1> SUFFICES ASSUME Init PROVE IInv
  OBVIOUS
<1> USE DEF Init, Netchan_Setup
<1>1. TypeOK
  <2>1. \A p \in net : WellFormed(p)
    BY StrayAssumption
  <2>2. /\ unsentBuffer \in Seq(Byte) /\ fragmentBuffer \in Seq(Byte)
        /\ delivered \in Seq([sequence: Nat, data: Seq(Byte)])
        /\ netchan_queue \in Seq(Messages) /\ accepted \in Seq(Messages)
    OBVIOUS
  <2>3. /\ outgoingSequence \in Nat \ {0} /\ unsentFragmentStart \in Nat
        /\ incomingSequence \in Nat /\ fragmentSequence \in Nat
    OBVIOUS
  <2>4. unsentFragments \in BOOLEAN
    BY Zenon
  <2>5. QED
    BY <2>1, <2>2, <2>3, <2>4 DEF TypeOK
<1>2. Accounted /\ UnderWay /\ Queued
  BY DEF Accounted, UnderWay, Queued
<1>3. NetFaithful
  BY StrayAssumption DEF NetFaithful
<1>4. PartialIsPrefix
  BY DEF PartialIsPrefix
<1>5. DeliveredIntact /\ DeliveredInOrder
  BY DEF DeliveredIntact, DeliveredInOrder
<1>6. QED
  BY <1>1, <1>2, <1>3, <1>4, <1>5 DEF IInv

\* Accepting another message changes none that was accepted before.
AcceptedGrows ==
  /\ accepted' \in Seq(Messages)
  /\ Len(accepted) <= Len(accepted')
  /\ \A i \in 1 .. Len(accepted) : accepted'[i] = accepted[i]

LEMMA AcceptMore ==
  ASSUME NEW m \in Messages, IInv, accepted' = Append(accepted, m)
  PROVE  /\ AcceptedGrows
         /\ Len(accepted') = Len(accepted) + 1
         /\ accepted'[Len(accepted) + 1] = m
BY DEF IInv, TypeOK, AcceptedGrows

LEMMA AcceptNoMore ==
  ASSUME IInv, UNCHANGED accepted
  PROVE  AcceptedGrows
BY DEF IInv, TypeOK, AcceptedGrows

\* A datagram that was faithful stays so.
LEMMA StillFaithful ==
  ASSUME IInv, AcceptedGrows, NEW p \in net, Valid(p)
  PROVE  Faithful(p)'
<1>1. Faithful(p) /\ p.sequence \in 1 .. Len(accepted)
  BY DEF IInv, NetFaithful, Faithful
<1>2. accepted'[p.sequence] = accepted[p.sequence]
  BY <1>1 DEF AcceptedGrows
<1>3. p.sequence \in 1 .. Len(accepted')
  BY <1>1 DEF IInv, TypeOK, AcceptedGrows
<1>4. QED
  BY <1>1, <1>2, <1>3 DEF Faithful

\* Sending a piece of the message that the number under way names keeps every
\* datagram faithful, whatever else the step does.
LEMMA SendFaithful ==
  ASSUME IInv, NEW m \in Seq(Byte), NEW start \in Nat, start <= Len(m),
         SendFragment(m, start),
         AcceptedGrows,
         outgoingSequence \in 1 .. Len(accepted'),
         m = accepted'[outgoingSequence]
  PROVE  /\ NetFaithful'
         /\ \A p \in net' : WellFormed(p)
         /\ outgoingSequence' \in Nat \ {0}
         /\ unsentFragments' \in BOOLEAN
         /\ unsentFragmentStart' \in Nat
         /\ unsentFragmentStart' <= Len(unsentBuffer')
         /\ unsentBuffer' = m
         /\ outgoingSequence' + (IF unsentFragments' THEN 1 ELSE 0) = outgoingSequence + 1
         /\ unsentFragments' => outgoingSequence' = outgoingSequence
<1>0. PICK d : d = Datagram(TRUE, start, Fragment(m, start))
  OBVIOUS
<1>1. /\ FragmentLength(m, start) \in Nat
      /\ start + FragmentLength(m, start) <= Len(m)
      /\ Fragment(m, start) \in Seq(Byte)
      /\ Len(Fragment(m, start)) = FragmentLength(m, start)
      /\ LastFragment(m, start) <=> FragmentLength(m, start) # FRAGMENT_SIZE
      /\ LastFragment(m, start) => start + FragmentLength(m, start) = Len(m)
  BY FragmentOfMessage
<1>2. /\ d.sequence = outgoingSequence /\ d.fragmented = TRUE /\ d.start = start
      /\ d.data = Fragment(m, start)
  BY <1>0 DEF Datagram
<1>3. outgoingSequence \in Nat \ {0}
  BY DEF IInv, TypeOK
<1>4. Faithful(d)'
  <2>1. d.data = SubSeq(m, d.start + 1, d.start + Len(d.data))
    BY <1>1, <1>2 DEF Fragment
  <2>2. Faithful(d)' <=>
          /\ d.sequence \in 1 .. Len(accepted')
          /\ ~d.fragmented => d.data = accepted'[d.sequence]
          /\ d.fragmented =>
               /\ d.start + Len(d.data) <= Len(accepted'[d.sequence])
               /\ d.data = SubSeq(accepted'[d.sequence], d.start + 1, d.start + Len(d.data))
               /\ Len(d.data) # FRAGMENT_SIZE => d.start + Len(d.data) = Len(accepted'[d.sequence])
    BY DEF Faithful
  <2>3. QED
    BY <1>1, <1>2, <2>1, <2>2
<1>5. net' = net \cup {d}
  BY <1>0 DEF SendFragment
<1>6. ASSUME NEW p \in net, Valid(p) PROVE Faithful(p)'
  BY <1>6, StillFaithful
<1>7. NetFaithful'
  BY <1>4, <1>5, <1>6 DEF NetFaithful, Valid
<1>8. \A p \in net' : WellFormed(p)
  BY <1>1, <1>2, <1>3, <1>5 DEF WellFormed, IInv, TypeOK
<1>9. /\ outgoingSequence' \in Nat \ {0}
      /\ outgoingSequence' + (IF unsentFragments' THEN 1 ELSE 0) = outgoingSequence + 1
      /\ unsentFragments' => outgoingSequence' = outgoingSequence
  <2>1. CASE LastFragment(m, start)
    <3>1. ~unsentFragments' /\ outgoingSequence' = outgoingSequence + 1
      BY <2>1, Zenon DEF SendFragment
    <3>2. QED
      BY <1>3, <3>1
  <2>2. CASE ~LastFragment(m, start)
    <3>1. unsentFragments' /\ outgoingSequence' = outgoingSequence
      BY <2>2, Zenon DEF SendFragment
    <3>2. QED
      BY <1>3, <3>1
  <2>3. QED
    BY <2>1, <2>2
<1>10. /\ unsentFragments' \in BOOLEAN
       /\ unsentFragmentStart' \in Nat
       /\ unsentFragmentStart' <= Len(unsentBuffer')
       /\ unsentBuffer' = m
  BY <1>1 DEF SendFragment
<1>11. QED
  BY <1>7, <1>8, <1>9, <1>10

\* Netchan_Transmit hands over the message that its number names.
LEMMA TransmitFaithful ==
  ASSUME IInv, NEW m \in Messages, Netchan_Transmit(m), ~unsentFragments,
         AcceptedGrows,
         outgoingSequence \in 1 .. Len(accepted'),
         m = accepted'[outgoingSequence]
  PROVE  /\ NetFaithful'
         /\ \A p \in net' : WellFormed(p)
         /\ outgoingSequence' \in Nat \ {0}
         /\ unsentFragments' \in BOOLEAN
         /\ unsentFragmentStart' \in Nat
         /\ unsentBuffer' \in Seq(Byte)
         /\ outgoingSequence' + (IF unsentFragments' THEN 1 ELSE 0) = outgoingSequence + 1
         /\ unsentFragments' => /\ outgoingSequence' = outgoingSequence
                                /\ unsentBuffer' = m
                                /\ unsentFragmentStart' <= Len(unsentBuffer')
<1>1. m \in Seq(Byte) /\ Len(m) \in Nat
  BY MessageAssumption
<1>2. CASE Len(m) >= FRAGMENT_SIZE
  <2>1. ~(Len(m) < FRAGMENT_SIZE)
    BY <1>1, <1>2, SizeAssumption
  <2>2. SendFragment(m, 0)
    BY <2>1, Zenon DEF Netchan_Transmit
  <2>3. QED
    BY <1>1, <2>2, SendFaithful
<1>3. CASE Len(m) < FRAGMENT_SIZE
  <2>1. PICK d : d = Datagram(FALSE, 0, m)
    OBVIOUS
  <2>0. ~(Len(m) >= FRAGMENT_SIZE)
    BY <1>1, <1>3, SizeAssumption
  <2>2. /\ net' = net \cup {d}
        /\ outgoingSequence' = outgoingSequence + 1
        /\ unsentFragmentStart' = 0
        /\ UNCHANGED <<unsentFragments, unsentBuffer>>
    BY <2>0, <2>1, Zenon DEF Netchan_Transmit
  <2>3. d.sequence = outgoingSequence /\ d.fragmented = FALSE /\ d.start = 0 /\ d.data = m
    BY <2>1 DEF Datagram
  <2>4. outgoingSequence \in Nat \ {0}
    BY DEF IInv, TypeOK
  <2>5. Faithful(d)'
    BY <2>3 DEF Faithful
  <2>6. NetFaithful'
    BY <2>2, <2>5, StillFaithful DEF NetFaithful, Valid
  <2>11. WellFormed(d)
    <3>1. d.fragmented \in BOOLEAN
      BY <2>3, Zenon
    <3>2. d.sequence \in Nat /\ d.start \in Nat /\ d.data \in Seq(Byte)
      BY <1>1, <2>3, <2>4
    <3>3. QED
      BY <3>1, <3>2, Zenon DEF WellFormed
  <2>7. \A p \in net' : WellFormed(p)
    BY <2>2, <2>11, Zenon DEF IInv, TypeOK
  <2>8. ~unsentFragments' /\ unsentFragments' \in BOOLEAN
    BY <2>2, Zenon DEF IInv, TypeOK
  <2>9. unsentBuffer' \in Seq(Byte)
    BY <2>2 DEF IInv, TypeOK
  <2>10. QED
    BY <2>2, <2>4, <2>6, <2>7, <2>8, <2>9
<1>4. QED
  BY <1>1, <1>2, <1>3, SizeAssumption

\* The receiver's part of the invariant does not mind what the sender does.
LEMMA ReceiverUndisturbed ==
  ASSUME IInv, AcceptedGrows, UNCHANGED receiverVars
  PROVE  /\ PartialIsPrefix' /\ DeliveredIntact' /\ DeliveredInOrder'
         /\ incomingSequence' \in Nat /\ fragmentSequence' \in Nat
         /\ fragmentBuffer' \in Seq(Byte)
         /\ delivered' \in Seq([sequence: Nat, data: Seq(Byte)])
<1> USE DEF IInv, TypeOK, receiverVars
<1>1. PartialIsPrefix'
  BY DEF PartialIsPrefix, AcceptedGrows
<1>2. DeliveredIntact'
  <2>1. ASSUME NEW i \in DOMAIN delivered
        PROVE  /\ delivered[i].sequence \in DOMAIN accepted'
               /\ delivered[i].data = accepted'[delivered[i].sequence]
    <3>1. /\ delivered[i].sequence \in 1 .. Len(accepted)
          /\ delivered[i].data = accepted[delivered[i].sequence]
      BY DEF DeliveredIntact
    <3>2. QED
      BY <3>1 DEF AcceptedGrows
  <2>2. QED
    BY <2>1 DEF DeliveredIntact
<1>3. DeliveredInOrder'
  BY DEF DeliveredInOrder
<1>4. QED
  BY <1>1, <1>2, <1>3

-----------------------------------------------------------------------------
\* A message is accepted, at once on its way or behind a backlog.
LEMMA TransmitStep ==
  ASSUME IInv, NEW m \in Messages, SV_Netchan_Transmit(m)
  PROVE  IInv'
<1>1. /\ AcceptedGrows
      /\ accepted' \in Seq(Messages)
      /\ Len(accepted') = Len(accepted) + 1
      /\ accepted'[Len(accepted) + 1] = m
  BY AcceptMore DEF SV_Netchan_Transmit, AcceptedGrows
<1>2. UNCHANGED receiverVars
  BY DEF SV_Netchan_Transmit, Netchan_Transmit
<1>3. /\ PartialIsPrefix' /\ DeliveredIntact' /\ DeliveredInOrder'
      /\ incomingSequence' \in Nat /\ fragmentSequence' \in Nat
      /\ fragmentBuffer' \in Seq(Byte)
      /\ delivered' \in Seq([sequence: Nat, data: Seq(Byte)])
  BY <1>1, <1>2, ReceiverUndisturbed
<1>4. CASE MustQueue
  <2>1. netchan_queue' = Append(netchan_queue, m) /\ UNCHANGED <<senderVars, net>>
    BY <1>4, Zenon DEF SV_Netchan_Transmit
  <2>2. netchan_queue' \in Seq(Messages) /\ Len(netchan_queue') = Len(netchan_queue) + 1
    BY <2>1 DEF IInv, TypeOK
  <2>3. TypeOK'
    BY <1>1, <1>3, <2>1, <2>2 DEF IInv, TypeOK, senderVars
  <2>4. Accounted'
    <3>1. /\ outgoingSequence' = outgoingSequence /\ unsentFragments' = unsentFragments
          /\ outgoingSequence \in Nat /\ Len(netchan_queue) \in Nat /\ Len(accepted) \in Nat
      BY <2>1 DEF senderVars, IInv, TypeOK
    <3>2. CASE unsentFragments
      <4>1. unsentFragments' /\ outgoingSequence' = outgoingSequence
        BY <3>1, <3>2, Zenon
      <4>2. outgoingSequence + 1 + Len(netchan_queue) = Len(accepted) + 1
        BY <3>2 DEF IInv, Accounted
      <4>3. outgoingSequence' + 1 + Len(netchan_queue') = Len(accepted') + 1
        BY <1>1, <2>2, <3>1, <4>1, <4>2
      <4>4. QED
        BY <4>1, <4>3 DEF Accounted
    <3>3. CASE ~unsentFragments
      <4>1. ~unsentFragments' /\ outgoingSequence' = outgoingSequence
        BY <3>1, <3>3, Zenon
      <4>2. outgoingSequence + 0 + Len(netchan_queue) = Len(accepted) + 1
        BY <3>3 DEF IInv, Accounted
      <4>3. outgoingSequence' + 0 + Len(netchan_queue') = Len(accepted') + 1
        BY <1>1, <2>2, <3>1, <4>1, <4>2
      <4>4. QED
        BY <4>1, <4>3 DEF Accounted
    <3>4. QED
      BY <3>2, <3>3
  <2>5. UnderWay'
    <3>1. UNCHANGED <<outgoingSequence, unsentFragments, unsentFragmentStart, unsentBuffer>>
      BY <2>1 DEF senderVars
    <3>2. unsentFragments' => unsentFragments
      BY <3>1, Zenon
    <3>3. unsentFragments => outgoingSequence \in 1 .. Len(accepted)
      BY DEF IInv, TypeOK, Accounted
    <3>4. unsentFragments => accepted'[outgoingSequence] = accepted[outgoingSequence]
      BY <1>1, <3>3 DEF AcceptedGrows
    <3>5. QED
      BY <3>1, <3>2, <3>4 DEF IInv, UnderWay
  <2>6. Queued'
    <3>1. ASSUME NEW i \in 1 .. Len(netchan_queue')
          PROVE  netchan_queue'[i] = accepted'[Len(accepted') - Len(netchan_queue') + i]
      <4>1. CASE i = Len(netchan_queue) + 1
        <5>1. netchan_queue'[i] = m
          BY <2>1, <4>1 DEF IInv, TypeOK
        <5>2. Len(accepted') - Len(netchan_queue') + i = Len(accepted) + 1
          BY <1>1, <2>2, <4>1 DEF IInv, TypeOK
        <5>3. QED
          BY <1>1, <5>1, <5>2
      <4>2. CASE i \in 1 .. Len(netchan_queue)
        <5>1. Len(accepted) - Len(netchan_queue) + i \in 1 .. Len(accepted)
          BY <4>2 DEF IInv, TypeOK, Accounted
        <5>2. netchan_queue'[i] = netchan_queue[i]
          BY <2>1, <4>2 DEF IInv, TypeOK
        <5>3. Len(accepted') - Len(netchan_queue') + i = Len(accepted) - Len(netchan_queue) + i
          BY <1>1, <2>2, <4>2 DEF IInv, TypeOK
        <5>4. QED
          BY <1>1, <4>2, <5>1, <5>2, <5>3 DEF IInv, Queued, AcceptedGrows
      <4>3. QED
        BY <2>2, <4>1, <4>2 DEF IInv, TypeOK
    <3>2. QED
      BY <3>1 DEF Queued
  <2>7. NetFaithful'
    BY <1>1, <2>1, StillFaithful DEF NetFaithful, Valid
  <2>8. QED
    BY <1>3, <2>3, <2>4, <2>5, <2>6, <2>7 DEF IInv
<1>5. CASE ~MustQueue
  <2>1. Netchan_Transmit(m) /\ UNCHANGED netchan_queue
    BY <1>5, Zenon DEF SV_Netchan_Transmit
  <2>2. ~unsentFragments /\ netchan_queue = <<>>
    BY <1>5, Zenon DEF MustQueue
  <2>3. outgoingSequence = Len(accepted) + 1
    BY <2>2 DEF IInv, TypeOK, Accounted
  <2>4. outgoingSequence \in 1 .. Len(accepted') /\ m = accepted'[outgoingSequence]
    BY <1>1, <2>3 DEF IInv, TypeOK
  <2>5. /\ NetFaithful'
        /\ \A p \in net' : WellFormed(p)
        /\ outgoingSequence' \in Nat \ {0}
        /\ unsentFragments' \in BOOLEAN
        /\ unsentFragmentStart' \in Nat
        /\ unsentBuffer' \in Seq(Byte)
        /\ outgoingSequence' + (IF unsentFragments' THEN 1 ELSE 0) = outgoingSequence + 1
        /\ unsentFragments' => /\ outgoingSequence' = outgoingSequence
                               /\ unsentBuffer' = m
                               /\ unsentFragmentStart' <= Len(unsentBuffer')
    BY <1>1, <2>1, <2>2, <2>4, TransmitFaithful
  <2>6. TypeOK'
    BY <1>1, <1>3, <2>1, <2>5 DEF IInv, TypeOK
  <2>7. Accounted'
    BY <1>1, <2>1, <2>2, <2>3, <2>5 DEF IInv, TypeOK, Accounted
  <2>8. UnderWay'
    BY <2>4, <2>5 DEF UnderWay
  <2>9. Queued'
    BY <2>1, <2>2 DEF Queued
  <2>10. QED
    BY <1>3, <2>5, <2>6, <2>7, <2>8, <2>9 DEF IInv
<1>6. QED
  BY <1>4, <1>5

\* The next fragment, or the first one of the next message of the queue.
LEMMA TransmitNextStep ==
  ASSUME IInv, SV_Netchan_TransmitNextFragment
  PROVE  IInv'
<1>1. AcceptedGrows /\ UNCHANGED <<accepted, receiverVars>>
  BY AcceptNoMore DEF SV_Netchan_TransmitNextFragment, SV_Netchan_TransmitNextInQueue,
                      Netchan_TransmitNextFragment, Netchan_Transmit
<1>2. /\ PartialIsPrefix' /\ DeliveredIntact' /\ DeliveredInOrder'
      /\ incomingSequence' \in Nat /\ fragmentSequence' \in Nat
      /\ fragmentBuffer' \in Seq(Byte)
      /\ delivered' \in Seq([sequence: Nat, data: Seq(Byte)])
  BY <1>1, ReceiverUndisturbed
<1>3. CASE unsentFragments
  <2>1. SendFragment(unsentBuffer, unsentFragmentStart) /\ UNCHANGED netchan_queue
    BY <1>3, Zenon DEF SV_Netchan_TransmitNextFragment, Netchan_TransmitNextFragment
  <2>2. /\ outgoingSequence \in 1 .. Len(accepted')
        /\ unsentBuffer = accepted'[outgoingSequence]
    BY <1>1, <1>3 DEF IInv, TypeOK, Accounted, UnderWay
  <2>3. /\ unsentBuffer \in Seq(Byte) /\ unsentFragmentStart \in Nat
        /\ unsentFragmentStart <= Len(unsentBuffer)
    BY <1>3 DEF IInv, TypeOK, UnderWay
  <2>4. /\ NetFaithful'
        /\ \A p \in net' : WellFormed(p)
        /\ outgoingSequence' \in Nat \ {0}
        /\ unsentFragments' \in BOOLEAN
        /\ unsentFragmentStart' \in Nat
        /\ unsentFragmentStart' <= Len(unsentBuffer')
        /\ unsentBuffer' = unsentBuffer
        /\ outgoingSequence' + (IF unsentFragments' THEN 1 ELSE 0) = outgoingSequence + 1
        /\ unsentFragments' => outgoingSequence' = outgoingSequence
    BY <1>1, <2>1, <2>2, <2>3, SendFaithful
  <2>5. TypeOK'
    BY <1>1, <1>2, <2>1, <2>3, <2>4 DEF IInv, TypeOK
  <2>6. Accounted'
    BY <1>1, <1>3, <2>1, <2>4 DEF IInv, TypeOK, Accounted
  <2>7. UnderWay'
    BY <2>2, <2>4 DEF UnderWay
  <2>8. Queued'
    BY <1>1, <2>1 DEF IInv, Queued
  <2>9. QED
    BY <1>2, <2>4, <2>5, <2>6, <2>7, <2>8 DEF IInv
<1>4. CASE ~unsentFragments
  <2>1. /\ netchan_queue # <<>>
        /\ Netchan_Transmit(Head(netchan_queue))
        /\ netchan_queue' = Tail(netchan_queue)
    BY <1>4, Zenon DEF SV_Netchan_TransmitNextFragment, SV_Netchan_TransmitNextInQueue
  <2>2. /\ Head(netchan_queue) \in Messages
        /\ netchan_queue' \in Seq(Messages)
        /\ Len(netchan_queue') = Len(netchan_queue) - 1
        /\ \A i \in 1 .. Len(netchan_queue') : netchan_queue'[i] = netchan_queue[i + 1]
        /\ Head(netchan_queue) = netchan_queue[1]
        /\ Len(netchan_queue) \in Nat \ {0}
    BY <2>1, HeadTailProperties DEF IInv, TypeOK
  <2>3. /\ outgoingSequence = Len(accepted) - Len(netchan_queue) + 1
        /\ outgoingSequence \in 1 .. Len(accepted')
    BY <1>1, <1>4, <2>2 DEF IInv, TypeOK, Accounted
  <2>4. Head(netchan_queue) = accepted'[outgoingSequence]
    BY <1>1, <2>2, <2>3 DEF IInv, Queued
  <2>5. /\ NetFaithful'
        /\ \A p \in net' : WellFormed(p)
        /\ outgoingSequence' \in Nat \ {0}
        /\ unsentFragments' \in BOOLEAN
        /\ unsentFragmentStart' \in Nat
        /\ unsentBuffer' \in Seq(Byte)
        /\ outgoingSequence' + (IF unsentFragments' THEN 1 ELSE 0) = outgoingSequence + 1
        /\ unsentFragments' => /\ outgoingSequence' = outgoingSequence
                               /\ unsentBuffer' = Head(netchan_queue)
                               /\ unsentFragmentStart' <= Len(unsentBuffer')
    BY <1>1, <1>4, <2>1, <2>2, <2>3, <2>4, TransmitFaithful
  <2>6. TypeOK'
    BY <1>1, <1>2, <2>2, <2>5 DEF IInv, TypeOK
  <2>7. Accounted'
    BY <1>1, <2>2, <2>3, <2>5 DEF IInv, TypeOK, Accounted
  <2>8. UnderWay'
    BY <2>4, <2>5 DEF UnderWay
  <2>9. Queued'
    <3>1. ASSUME NEW i \in 1 .. Len(netchan_queue')
          PROVE  netchan_queue'[i] = accepted'[Len(accepted') - Len(netchan_queue') + i]
      <4>1. i + 1 \in 1 .. Len(netchan_queue)
        BY <2>2
      <4>2. /\ netchan_queue'[i] = netchan_queue[i + 1]
            /\ netchan_queue[i + 1] = accepted[Len(accepted) - Len(netchan_queue) + (i + 1)]
        BY <2>2, <4>1 DEF IInv, Queued
      <4>3. Len(accepted) - Len(netchan_queue) + (i + 1) = Len(accepted) - Len(netchan_queue') + i
        BY <2>2, <4>1 DEF IInv, TypeOK
      <4>4. QED
        BY <1>1, <4>2, <4>3
    <3>2. QED
      BY <3>1 DEF Queued
  <2>10. QED
    BY <1>2, <2>5, <2>6, <2>7, <2>8, <2>9 DEF IInv
<1>5. QED
  BY <1>3, <1>4

\* A datagram arrives: a stray one, a copy, one too old, one too early, the
\* next fragment or a whole message.
LEMMA ReceiveStep ==
  ASSUME IInv, NEW p \in net, Netchan_Process(p), UNCHANGED <<netchan_queue, accepted>>
  PROVE  IInv'
<1>1. /\ Faithful(p) /\ p.sequence > incomingSequence
      /\ UNCHANGED <<senderVars, net, netchan_queue, accepted>>
  BY DEF Netchan_Process, Newer, IInv, NetFaithful
<1>2. p.sequence \in 1 .. Len(accepted) /\ p.data \in Seq(Byte) /\ p.start \in Nat
  BY <1>1 DEF Faithful, IInv, TypeOK, WellFormed
<1>3. Accounted' /\ UnderWay' /\ Queued'
  <2>1. UNCHANGED <<outgoingSequence, unsentFragments, unsentFragmentStart, unsentBuffer,
                    netchan_queue, accepted>>
    BY <1>1 DEF senderVars
  <2>2. QED
    BY <2>1, Zenon DEF IInv, Accounted, UnderWay, Queued
<1>4. NetFaithful'
  BY <1>1 DEF IInv, NetFaithful, Faithful, Valid
<1>5. ASSUME fragmentSequence' \in Nat, fragmentBuffer' \in Seq(Byte),
             UNCHANGED <<incomingSequence, delivered>>,
             PartialIsPrefix'
      PROVE  IInv'
  <2>1. TypeOK'
    BY <1>1, <1>5 DEF IInv, TypeOK, senderVars
  <2>2. DeliveredIntact' /\ DeliveredInOrder'
    BY <1>1, <1>5 DEF IInv, DeliveredIntact, DeliveredInOrder
  <2>3. QED
    BY <1>3, <1>4, <1>5, <2>1, <2>2 DEF IInv
<1>6. ASSUME fragmentSequence' \in Nat, fragmentBuffer' \in Seq(Byte),
             PartialIsPrefix',
             HandUp(p.sequence, accepted[p.sequence])
      PROVE  IInv'
  <2> DEFINE d == [sequence |-> p.sequence, data |-> accepted[p.sequence]]
  <2>1. /\ incomingSequence' = p.sequence
        /\ delivered' = Append(delivered, d)
    BY <1>6 DEF HandUp
  <2>2. d \in [sequence: Nat, data: Seq(Byte)]
    BY <1>2, MessageAssumption DEF IInv, TypeOK
  <2>3. /\ delivered' \in Seq([sequence: Nat, data: Seq(Byte)])
        /\ Len(delivered') = Len(delivered) + 1
        /\ \A i \in 1 .. Len(delivered) : delivered'[i] = delivered[i]
        /\ delivered'[Len(delivered) + 1] = d
    BY <2>1, <2>2 DEF IInv, TypeOK
  <2>4. TypeOK'
    BY <1>1, <1>2, <1>6, <2>1, <2>3 DEF IInv, TypeOK, senderVars
  <2>5. DeliveredIntact'
    <3>1. ASSUME NEW i \in 1 .. Len(delivered')
          PROVE  /\ delivered'[i].sequence \in DOMAIN accepted
                 /\ delivered'[i].data = accepted[delivered'[i].sequence]
      <4>1. CASE i = Len(delivered) + 1
        <5>1. delivered'[i].sequence = p.sequence /\ delivered'[i].data = accepted[p.sequence]
          BY <2>3, <4>1
        <5>2. p.sequence \in DOMAIN accepted
          BY <1>2 DEF IInv, TypeOK
        <5>3. QED
          BY <5>1, <5>2
      <4>2. CASE i \in 1 .. Len(delivered)
        <5>1. delivered \in Seq([sequence: Nat, data: Seq(Byte)])
          BY DEF IInv, TypeOK
        <5>2. i \in DOMAIN delivered
          BY <4>2, <5>1
        <5>3. delivered'[i] = delivered[i]
          BY <2>3, <4>2, Zenon
        <5>4. QED
          BY <5>2, <5>3 DEF IInv, DeliveredIntact
      <4>3. QED
        BY <2>3, <4>1, <4>2 DEF IInv, TypeOK
    <3>2. QED
      BY <1>1, <2>3, <3>1 DEF DeliveredIntact
  <2>6. DeliveredInOrder'
    <3>1. /\ incomingSequence \in Nat /\ incomingSequence < p.sequence
          /\ \A i \in 1 .. Len(delivered) : /\ delivered[i].sequence \in Nat
                                            /\ delivered[i].sequence <= incomingSequence
          /\ \A i, j \in 1 .. Len(delivered) :
                i < j => delivered[i].sequence < delivered[j].sequence
      <4>1. incomingSequence \in Nat /\ incomingSequence < p.sequence
        BY <1>1, <1>2 DEF IInv, TypeOK
      <4>2. ASSUME NEW i \in 1 .. Len(delivered) PROVE delivered[i].sequence \in Nat
        <5>1. delivered \in Seq([sequence: Nat, data: Seq(Byte)])
          BY DEF IInv, TypeOK
        <5>2. delivered[i] \in [sequence: Nat, data: Seq(Byte)]
          BY <5>1, ElementOfSeq
        <5>3. QED
          BY <5>2
      <4>3. DOMAIN delivered = 1 .. Len(delivered)
        BY DEF IInv, TypeOK
      <4>4. QED
        BY <4>1, <4>2, <4>3 DEF IInv, DeliveredInOrder
    <3>2. Len(delivered) \in Nat /\ DOMAIN delivered' = 1 .. (Len(delivered) + 1)
      BY <2>3 DEF IInv, TypeOK
    <3>3. ASSUME NEW i \in DOMAIN delivered' PROVE delivered'[i].sequence <= incomingSequence'
      BY <1>2, <2>1, <2>3, <3>1, <3>2
    <3>4. ASSUME NEW i \in DOMAIN delivered', NEW j \in DOMAIN delivered', i < j
          PROVE  delivered'[i].sequence < delivered'[j].sequence
      <4>1. i \in 1 .. Len(delivered) /\ delivered'[i] = delivered[i]
        BY <2>3, <3>2, <3>4
      <4>2. CASE j \in 1 .. Len(delivered)
        BY <2>3, <3>1, <3>4, <4>1, <4>2
      <4>3. CASE j = Len(delivered) + 1
        <5>1. delivered'[j] = d
          BY <2>3, <4>3
        <5>2. QED
          BY <1>2, <3>1, <4>1, <5>1
      <4>4. QED
        BY <3>2, <4>2, <4>3
    <3>5. QED
      BY <3>3, <3>4 DEF DeliveredInOrder
  <2>7. QED
    BY <1>3, <1>4, <1>6, <2>4, <2>5, <2>6 DEF IInv
<1>7. CASE ~p.fragmented
  <2>1. HandUp(p.sequence, p.data) /\ UNCHANGED <<fragmentSequence, fragmentBuffer>>
    BY <1>7, Zenon DEF Netchan_Process
  <2>2. p.data = accepted[p.sequence]
    BY <1>1, <1>7 DEF Faithful
  <2>3. PartialIsPrefix'
    BY <1>1, <2>1 DEF IInv, PartialIsPrefix
  <2>4. QED
    BY <1>6, <2>1, <2>2, <2>3 DEF IInv, TypeOK
<1>8. CASE p.fragmented
  <2> DEFINE m == accepted[p.sequence]
             r == Reassembled(p)
  <2>1. ProcessFragment(p)
    BY <1>8, Zenon DEF Netchan_Process
  <2>2. /\ m \in Seq(Byte)
        /\ p.start + Len(p.data) <= Len(m)
        /\ p.data = SubSeq(m, p.start + 1, p.start + Len(p.data))
        /\ Len(p.data) # FRAGMENT_SIZE => p.start + Len(p.data) = Len(m)
    <3>1. m \in Seq(Byte)
      BY <1>2, MessageAssumption DEF IInv, TypeOK
    <3>2. QED
      BY <1>1, <1>8, <3>1, Zenon DEF Faithful
  <2>3. /\ r \in Seq(Byte)
        /\ r # <<>> => Len(r) <= Len(m) /\ r = SubSeq(m, 1, Len(r))
    BY DEF Reassembled, IInv, TypeOK, PartialIsPrefix
  <2>4. fragmentSequence' = p.sequence
    BY <2>1 DEF ProcessFragment
  <2>5. CASE fragmentBuffer' = r /\ UNCHANGED <<incomingSequence, delivered>>
    <3>1. PartialIsPrefix'
      BY <1>1, <1>2, <2>3, <2>4, <2>5 DEF PartialIsPrefix
    <3>2. QED
      BY <1>2, <1>5, <2>3, <2>4, <2>5, <3>1
  <2>6. ASSUME InPlace(p)
        PROVE  /\ r \o p.data \in Seq(Byte)
               /\ Len(r \o p.data) = p.start + Len(p.data)
               /\ r \o p.data = SubSeq(m, 1, p.start + Len(p.data))
    <3>1. p.start = Len(r)
      BY <2>6 DEF InPlace
    <3>2. r = SubSeq(m, 1, p.start)
      BY <2>2, <2>3, <3>1
    <3>3. Len(p.data) \in Nat /\ Len(m) \in Nat /\ p.start \in 0 .. Len(m)
          /\ p.start + Len(p.data) \in p.start .. Len(m)
      <4> DEFINE n == Len(p.data)
                 k == Len(m)
      <4>1. n \in Nat
        BY <1>2
      <4>2. k \in Nat
        BY <2>2
      <4>3. p.start \in Nat
        BY <1>2
      <4>4. p.start + n <= k
        BY <2>2
      <4> HIDE DEF m, n, k
      <4>5. p.start \in 0 .. k /\ p.start + n \in p.start .. k
        BY <4>1, <4>2, <4>3, <4>4
      <4>6. QED
        BY <4>1, <4>2, <4>5 DEF n, k
    <3>4. SubSeq(m, 1, p.start) \o SubSeq(m, p.start + 1, p.start + Len(p.data))
            = SubSeq(m, 1, p.start + Len(p.data))
      <4>1. 1 \in 1 .. Len(m) + 1 /\ p.start \in 1 - 1 .. Len(m)
        BY <3>3
      <4>2. QED
        BY <2>2, <3>3, <4>1, ConcatAdjacentSubSeq
    <3>5. r \o p.data = SubSeq(m, 1, p.start + Len(p.data))
      BY <2>2, <3>2, <3>4
    <3>6. r \o p.data \in Seq(Byte) /\ Len(r \o p.data) = Len(r) + Len(p.data)
      BY <1>2, <2>3
    <3>7. QED
      BY <3>1, <3>5, <3>6
  <2>7. CASE /\ InPlace(p) /\ Len(p.data) = FRAGMENT_SIZE
             /\ fragmentBuffer' = r \o p.data
             /\ UNCHANGED <<incomingSequence, delivered>>
    <3>1. PartialIsPrefix'
      BY <1>1, <1>2, <2>2, <2>4, <2>6, <2>7 DEF PartialIsPrefix
    <3>2. QED
      BY <1>2, <1>5, <2>4, <2>6, <2>7, <3>1
  <2>8. CASE /\ InPlace(p) /\ Len(p.data) # FRAGMENT_SIZE
             /\ fragmentBuffer' = <<>>
             /\ HandUp(p.sequence, r \o p.data)
    <3>1. r \o p.data = m
      BY <2>2, <2>6, <2>8, SubSeqFull
    <3>2. PartialIsPrefix'
      BY <2>8 DEF PartialIsPrefix
    <3>3. HandUp(p.sequence, m)
      BY <2>8, <3>1
    <3>4. QED
      BY <1>2, <1>6, <2>4, <2>8, <3>2, <3>3
  <2>9. QED
    BY <2>1, <2>5, <2>7, <2>8, Zenon DEF ProcessFragment
<1>9. QED
  BY <1>7, <1>8

-----------------------------------------------------------------------------
\* The invariant holds initially and every step keeps it.
THEOREM Invariant == Spec => []IInv
<1>1. Init => IInv
  BY InitInvariant
<1>2. IInv /\ [Next]_vars => IInv'
  <2> SUFFICES ASSUME IInv, [Next]_vars PROVE IInv'
    OBVIOUS
  <2>1. CASE \E m \in Messages : SV_Netchan_Transmit(m)
    BY <2>1, TransmitStep
  <2>2. CASE SV_Netchan_TransmitNextFragment
    BY <2>2, TransmitNextStep
  <2>3. CASE Receive
    BY <2>3, ReceiveStep DEF Receive
  <2>4. CASE UNCHANGED vars
    <3>1. UNCHANGED <<outgoingSequence, unsentFragments, unsentFragmentStart, unsentBuffer,
                      net, incomingSequence, fragmentSequence, fragmentBuffer, delivered,
                      netchan_queue, accepted>>
      BY <2>4 DEF vars, senderVars, receiverVars
    <3>2. QED
      BY <3>1, Zenon DEF IInv, TypeOK, Accounted, UnderWay, Queued, NetFaithful, Faithful,
                         Valid, PartialIsPrefix, DeliveredIntact, DeliveredInOrder
  <2>5. QED
    BY <2>1, <2>2, <2>3, <2>4 DEF Next
<1>3. QED
  BY <1>1, <1>2, PTL DEF Spec

\* The variables keep their types for every fragment size and message set
\* (net_chan.c, sv_net_chan.c).
THEOREM TypeCorrect == Spec => []TypeOK
<1>1. IInv => TypeOK
  BY DEF IInv
<1>2. QED
  BY <1>1, Invariant, PTL

\* Every message Netchan_Process hands up is the one that was sent under its
\* number, whole, whatever the network does to the datagrams.
THEOREM Integrity == Spec => []DeliveredIntact
<1>1. IInv => DeliveredIntact
  BY DEF IInv
<1>2. QED
  BY <1>1, Invariant, PTL

\* No message is handed up twice or after a newer one.
THEOREM Order == Spec => []DeliveredInOrder
<1>1. IInv => DeliveredInOrder
  BY DEF IInv
<1>2. QED
  BY <1>1, Invariant, PTL

\* The queue of SV_Netchan_Transmit keeps the order of the messages: the
\* backlog is the tail of what was accepted.
THEOREM BacklogOrder == Spec => []BacklogInOrder
<1>1. IInv => BacklogInOrder
  <2> SUFFICES ASSUME IInv PROVE BacklogInOrder
    OBVIOUS
  <2>1. netchan_queue \in Seq(Messages) /\ Len(accepted) \in Nat /\ outgoingSequence \in Nat
    BY DEF IInv, TypeOK
  <2>2. CASE ~unsentFragments
    <3>1. Backlog = netchan_queue
      BY <2>1, <2>2 DEF Backlog
    <3>2. outgoingSequence + Len(netchan_queue) = Len(accepted) + 1
      BY <2>1, <2>2 DEF IInv, Accounted
    <3>3. ASSUME NEW i \in 1 .. Len(netchan_queue)
          PROVE  netchan_queue[i] = accepted[outgoingSequence + i - 1]
      <4>1. outgoingSequence + i - 1 = Len(accepted) - Len(netchan_queue) + i
        BY <2>1, <3>2
      <4>2. QED
        BY <4>1 DEF IInv, Queued
    <3>4. DOMAIN Backlog = 1 .. Len(netchan_queue)
          /\ outgoingSequence + Len(Backlog) = Len(accepted) + 1
      BY <2>1, <3>1, <3>2
    <3>5. \A i \in DOMAIN Backlog : Backlog[i] = accepted[outgoingSequence + i - 1]
      BY <3>1, <3>3, <3>4
    <3>6. QED
      BY <3>4, <3>5, Zenon DEF BacklogInOrder
  <2>3. CASE unsentFragments
    <3>1. Backlog = <<unsentBuffer>> \o netchan_queue
      BY <2>3 DEF Backlog
    <3>2. outgoingSequence + 1 + Len(netchan_queue) = Len(accepted) + 1
      BY <2>1, <2>3 DEF IInv, Accounted
    <3>3. Len(Backlog) = Len(netchan_queue) + 1 /\ DOMAIN Backlog = 1 .. (Len(netchan_queue) + 1)
      BY <2>1, <3>1
    <3>4. ASSUME NEW i \in 1 .. (Len(netchan_queue) + 1)
          PROVE  Backlog[i] = accepted[outgoingSequence + i - 1]
      <4>1. CASE i = 1
        <5>1. Backlog[i] = unsentBuffer
          BY <2>1, <3>1, <4>1
        <5>2. outgoingSequence + i - 1 = outgoingSequence
          BY <2>1, <4>1
        <5>3. QED
          BY <2>3, <5>1, <5>2 DEF IInv, UnderWay
      <4>2. CASE i > 1
        <5>1. Backlog[i] = netchan_queue[i - 1] /\ i - 1 \in 1 .. Len(netchan_queue)
          BY <2>1, <3>1, <4>2
        <5>2. outgoingSequence + i - 1 = Len(accepted) - Len(netchan_queue) + (i - 1)
          BY <2>1, <3>2
        <5>3. QED
          BY <5>1, <5>2 DEF IInv, Queued
      <4>3. QED
        BY <2>1, <4>1, <4>2
    <3>5. Len(netchan_queue) \in Nat
      BY <2>1
    <3>6. outgoingSequence + Len(Backlog) = Len(accepted) + 1
      BY <2>1, <3>2, <3>3, <3>5
    <3>7. \A i \in DOMAIN Backlog : Backlog[i] = accepted[outgoingSequence + i - 1]
      BY <3>3, <3>4
    <3>8. QED
      BY <3>6, <3>7, Zenon DEF BacklogInOrder
  <2>4. QED
    BY <2>2, <2>3
<1>2. QED
  BY <1>1, Invariant, PTL

-----------------------------------------------------------------------------
\* What a step of the channel is in OrderedMessages.
LEMMA HandUpIsDeliver ==
  ASSUME IInv, NEW p \in net, p.sequence > incomingSequence, Faithful(p),
         HandUp(p.sequence, accepted[p.sequence]), UNCHANGED accepted
  PROVE  \E n \in DOMAIN accepted : Promise!Deliver(n)
<1>1. p.sequence \in DOMAIN accepted /\ p.sequence \in Nat
  BY DEF Faithful, IInv, TypeOK
<1>2. p.sequence > Promise!Newest
  <2>1. delivered \in Seq([sequence: Nat, data: Seq(Byte)]) /\ incomingSequence \in Nat
    BY DEF IInv, TypeOK
  <2>2. CASE delivered = <<>>
    BY <1>1, <2>1, <2>2 DEF Promise!Newest
  <2>3. CASE delivered # <<>>
    <3>1. Len(delivered) \in 1 .. Len(delivered)
      BY <2>1, <2>3
    <3>2. delivered[Len(delivered)] \in [sequence: Nat, data: Seq(Byte)]
      BY <2>1, <3>1, ElementOfSeq
    <3>3. Len(delivered) \in DOMAIN delivered /\ delivered[Len(delivered)].sequence \in Nat
      BY <2>1, <3>1, <3>2
    <3>4. delivered[Len(delivered)].sequence <= incomingSequence
      BY <3>3 DEF IInv, DeliveredInOrder
    <3>5. QED
      BY <1>1, <2>1, <2>3, <3>3, <3>4 DEF Promise!Newest
  <2>4. QED
    BY <2>2, <2>3
<1>3. QED
  BY <1>1, <1>2 DEF Promise!Deliver, HandUp

\* The server's net channel does what OrderedMessages says: a queued message
\* gets its number when it is accepted, and what Netchan_Process hands up is
\* that message.
THEOREM Refinement == Spec => ImplementsOrderedMessages
<1>1. Init => Promise!Init
  BY DEF Init, Netchan_Setup, Promise!Init
<1>2. IInv /\ [Next]_vars => [Promise!Next]_<<accepted, delivered>>
  <2> SUFFICES ASSUME IInv, [Next]_vars
               PROVE  Promise!Next \/ UNCHANGED <<accepted, delivered>>
    OBVIOUS
  <2>1. ASSUME NEW m \in Messages, SV_Netchan_Transmit(m) PROVE Promise!Submit(m)
    BY <2>1 DEF SV_Netchan_Transmit, Netchan_Transmit, receiverVars, Promise!Submit
  <2>2. CASE SV_Netchan_TransmitNextFragment
    BY <2>2 DEF SV_Netchan_TransmitNextFragment, SV_Netchan_TransmitNextInQueue,
                Netchan_TransmitNextFragment, Netchan_Transmit, receiverVars
  <2>3. ASSUME NEW p \in net, Netchan_Process(p), UNCHANGED <<netchan_queue, accepted>>
        PROVE  Promise!Next \/ UNCHANGED <<accepted, delivered>>
    <3>1. /\ Faithful(p) /\ p.sequence > incomingSequence
      BY <2>3 DEF Netchan_Process, Newer, IInv, NetFaithful
    <3>2. p.sequence \in DOMAIN accepted
      BY <3>1 DEF Faithful, IInv, TypeOK
    <3>3. ASSUME ~UNCHANGED delivered
          PROVE  \E d : HandUp(p.sequence, d)
      BY <2>3, <3>3, Zenon DEF Netchan_Process, ProcessFragment
    <3>4. ASSUME NEW d, HandUp(p.sequence, d) PROVE d = accepted[p.sequence]
      <4>1. delivered' = Append(delivered, [sequence |-> p.sequence, data |-> d])
        BY <3>4 DEF HandUp
      <4>2. delivered \in Seq([sequence: Nat, data: Seq(Byte)])
        BY DEF IInv, TypeOK
      <4>3. Len(delivered) + 1 \in DOMAIN delivered'
            /\ delivered'[Len(delivered) + 1] = [sequence |-> p.sequence, data |-> d]
        BY <4>1, <4>2, AppendProperties
      <4>4. DeliveredIntact'
        BY <2>3, ReceiveStep DEF IInv
      <4>5. delivered'[Len(delivered) + 1].data = accepted'[delivered'[Len(delivered) + 1].sequence]
        BY <4>3, <4>4 DEF DeliveredIntact
      <4>6. QED
        BY <2>3, <4>3, <4>5
    <3>5. CASE UNCHANGED delivered
      BY <2>3, <3>5
    <3>6. CASE ~UNCHANGED delivered
      <4>1. HandUp(p.sequence, accepted[p.sequence])
        BY <3>3, <3>4, <3>6
      <4>2. QED
        BY <2>3, <3>1, <4>1, HandUpIsDeliver DEF Promise!Next
    <3>7. QED
      BY <3>5, <3>6
  <2>4. CASE UNCHANGED vars
    BY <2>4 DEF vars, receiverVars
  <2>5. QED
    BY <2>1, <2>2, <2>3, <2>4 DEF Next, Receive, Promise!Next
<1>3. QED
  BY <1>1, <1>2, Invariant, PTL DEF Spec, Promise!Spec, ImplementsOrderedMessages
-----------------------------------------------------------------------------
(***************************************************************************)
(* The gamestate and the configstrings.                                    *)
(***************************************************************************)

(***************************************************************************)
(* The inductive invariant.                                                *)
(***************************************************************************)
Indices == {"cs", "systeminfo"}
Values == [cs : Nat, systeminfo : Nat]
Change == [index : Indices \cup {"map_restart"}, value : Nat]
Downlink == [kind : {"gamestate", "snapshot", "nothing", "block"}, newer : BOOLEAN,
             values : Values, reliable : Nat]
Uplink == [serverId : Nat, newer : BOOLEAN, commands : Nat, move : BOOLEAN]
DownloadName == {"download", "nextdl", "donedl", "stopdl"}

Client == [state : {"connected", "primed", "active"}, inWorld : BOOLEAN,
           csUpdated : SUBSET Indices, commands : Seq(Change),
           downloadName : BOOLEAN, lastClientCommand : Nat,
           lastClientCommandString : DownloadName \cup {""},
           early : BOOLEAN, asserted : BOOLEAN]

ClientSide == [serverId : Nat, cs : Nat, newer : BOOLEAN, serverCommandSequence : Nat,
               gamestateSequence : Nat, snapshotSequence : Nat, lastExecuted : Nat,
               commands : Seq(DownloadName), lacks : Nat, loaded : BOOLEAN,
               downloading : BOOLEAN, replayed : BOOLEAN, gone : BOOLEAN]

Typed ==
  /\ sv \in [serverId : Nat, restartedServerId : Nat, restarts : Nat, values : Values]
  /\ client \in Client
  /\ toClient \in Seq(Downlink)
  /\ toServer \in Seq(Uplink)
  /\ cl \in ClientSide

\* What a message says of the reliable commands is nothing new to its sender and
\* nothing old to its receiver.
DownInOrder ==
  /\ cl.lastExecuted <= cl.serverCommandSequence
  /\ cl.snapshotSequence <= cl.serverCommandSequence
  /\ cl.gamestateSequence <= cl.serverCommandSequence
  /\ cl.serverCommandSequence <= Len(client.commands)
  /\ \A i \in DOMAIN toClient :
       /\ cl.serverCommandSequence <= toClient[i].reliable
       /\ toClient[i].reliable <= Len(client.commands)
  /\ \A i, j \in DOMAIN toClient : i < j => toClient[i].reliable <= toClient[j].reliable

UpInOrder ==
  /\ client.lastClientCommand <= Len(cl.commands)
  /\ \A i \in DOMAIN toServer :
       /\ client.lastClientCommand <= toServer[i].commands
       /\ toServer[i].commands <= Len(cl.commands)
  /\ \A i, j \in DOMAIN toServer : i < j => toServer[i].commands <= toServer[j].commands

IsGamestate(i) == i \in DOMAIN toClient /\ toClient[i].kind = "gamestate"

\* A serverId is known only after it was given.
IdsGiven ==
  /\ sv.restartedServerId <= sv.values.systeminfo
  /\ sv.values.systeminfo <= sv.serverId
  /\ cl.serverId <= sv.serverId
  /\ \A i \in DOMAIN toServer : toServer[i].serverId <= sv.serverId
  /\ \A i : IsGamestate(i) => toClient[i].values.systeminfo <= sv.serverId
  /\ \A k \in DOMAIN client.commands :
       client.commands[k].index = "systeminfo" => client.commands[k].value <= sv.serverId

Basics ==
  /\ client.state = "active" => client.inWorld
  /\ cl.loaded => ~cl.downloading

Away == client.state # "active"

\* The map's first serverId, which its gamestates have.
Map == sv.restartedServerId

\* There was no map_restart while the client was not in the world.
World ==
  /\ client.inWorld => ~Away
  /\ Away => Map = sv.serverId
  /\ ~client.asserted /\ ~cl.gone

\* Gamestates are of this map or an earlier one; none is of this map for a client that is
\* "connected", and nobody there knows its serverId.
Maps ==
  /\ \A i : IsGamestate(i) => toClient[i].values.systeminfo <= Map
  /\ \A i, j : IsGamestate(i) /\ IsGamestate(j) /\ i < j
               => toClient[i].values.systeminfo <= toClient[j].values.systeminfo
  /\ Away => \A k \in DOMAIN client.commands :
               client.commands[k].index = "systeminfo" => client.commands[k].value < Map
  /\ client.state = "connected" =>
       /\ cl.serverId < Map
       /\ \A i \in DOMAIN toServer : toServer[i].serverId < Map
       /\ \A i : IsGamestate(i) => toClient[i].values.systeminfo < Map

CanLoad(id) == cl.lacks = None \/ id < cl.lacks

\* Who is about to be put into the world has loaded the cgame, and will not lose it to
\* a gamestate that is under way.
Loaded ==
  /\ Away /\ cl.loaded /\ cl.serverId = Map => CanLoad(Map)
  /\ Away => \A i \in DOMAIN toServer :
               toServer[i].move /\ toServer[i].serverId = Map => CanLoad(Map) /\ cl.loaded
  /\ ~Away => /\ cl.loaded
              /\ \A i : IsGamestate(i) => CanLoad(toClient[i].values.systeminfo)
  /\ \A j \in DOMAIN toClient :
       toClient[j].kind = "snapshot" =>
         /\ cl.loaded
         /\ \A i : IsGamestate(i) /\ i < j => CanLoad(toClient[i].values.systeminfo)

\* A client that lacks the file has asked for it and nothing else.
Lacking ==
  /\ cl.downloading => cl.lacks # None
  /\ cl.lacks # None /\ cl.commands # <<>> =>
       /\ ~CanLoad(Map) /\ ~cl.loaded /\ cl.downloading
       /\ \A i : IsGamestate(i) => ~CanLoad(toClient[i].values.systeminfo)
       /\ \A i \in DOMAIN cl.commands : cl.commands[i] = "download"
  /\ \A i \in DOMAIN toServer : toServer[i].move /\ toServer[i].commands > 0 => cl.lacks = None

\* Its commands when it has the file.
Fetched(n) ==
  /\ n \in DOMAIN cl.commands /\ n >= 3
  /\ \A i \in DOMAIN cl.commands :
       cl.commands[i] = CASE i < n - 1 -> "download" [] i = n - 1 -> "nextdl"
                          [] i = n -> "donedl" [] i > n -> "stopdl"

\* The server's record of the last command of the client.
Named(c) ==
  IF c.lastClientCommand = 0
  THEN c.lastClientCommandString = "" /\ ~c.downloadName
  ELSE LET name == cl.commands[c.lastClientCommand]
       IN  c.lastClientCommandString = name /\ c.downloadName = (name = "download")

Commanded ==
  /\ cl.lacks = None /\ cl.commands # <<>> =>
       client.lastClientCommand > 0 /\ \E n \in Nat : Fetched(n)
  /\ \A i \in DOMAIN toClient : toClient[i].kind = "block" => client.lastClientCommand > 0
  /\ Named(client)

\* While a client downloads it has no cgame, and no gamestate comes after the file.
Downloads ==
  Fetching =>
    /\ ~cl.loaded
    /\ \A i \in DOMAIN toServer : ~toServer[i].move
    /\ \A i : IsGamestate(i) =>
         cl.lacks # None /\ \A j \in DOMAIN toClient : j < i => toClient[j].kind # "block"

\* A client with value v of a configstring that executes the commands from n + 1 on has
\* value w in the end.
Brings(commands, index, n, v, w) ==
  \/ v = w /\ \A k \in n + 1 .. Len(commands) : commands[k].index # index
  \/ \E k \in n + 1 .. Len(commands) :
       /\ commands[k].index = index /\ commands[k].value = w
       /\ \A j \in k + 1 .. Len(commands) : commands[j].index # index

BringsBoth(n, cs, systeminfo) ==
  /\ Brings(client.commands, "cs", n, cs, sv.values.cs)
  /\ Brings(client.commands, "systeminfo", n, systeminfo, sv.values.systeminfo)

\* From here on commands change what the last gamestate said.
From == IF cl.lastExecuted > cl.gamestateSequence THEN cl.lastExecuted
                                                  ELSE cl.gamestateSequence

\* A client in the world has, or is told, every value.
Told ==
  ~Away =>
    /\ \A i : IsGamestate(i) =>
         /\ toClient[i].values.systeminfo = Map
         /\ BringsBoth(toClient[i].reliable, toClient[i].values.cs, toClient[i].values.systeminfo)
    /\ ~cl.replayed => BringsBoth(From, cl.cs, cl.serverId)

WillBeTold(cs) == cs = sv.values.cs \/ "cs" \in client.csUpdated

\* A client that has this map's gamestate will be told what changed since.
Untold ==
  Away =>
    /\ \A i : IsGamestate(i) /\ toClient[i].values.systeminfo = Map =>
         WillBeTold(toClient[i].values.cs) /\ toClient[i].reliable = Len(client.commands)
    /\ ~cl.replayed /\ cl.serverId = Map =>
         WillBeTold(cl.cs) /\ cl.gamestateSequence = Len(client.commands)
    /\ cl.serverId = Map \/ (\E i \in DOMAIN toServer : toServer[i].serverId = Map) =>
         \A i : IsGamestate(i) => toClient[i].values.systeminfo = Map
    /\ (\E i \in DOMAIN toServer : toServer[i].serverId = Map) =>
         cl.serverId = Map \/ cl.replayed

Orderly == World /\ Maps /\ Loaded /\ Lacking /\ Commanded /\ Downloads /\ Told /\ Untold

GInv == Typed /\ DownInOrder /\ UpInOrder /\ IdsGiven /\ Basics /\ (client.early \/ Orderly)
(***************************************************************************)
(* The commands of a packet, one after another.                            *)
(***************************************************************************)
LEMMA DownloadCommandResult ==
  ASSUME NEW c \in Client, NEW name \in DownloadName,
         NEW d, d = DownloadCommand(c, name)
  PROVE  /\ d \in Client
         /\ d.state = c.state /\ d.inWorld = c.inWorld /\ d.csUpdated = c.csUpdated
         /\ d.commands = c.commands /\ d.early = c.early /\ d.asserted = c.asserted
         /\ d.lastClientCommand = c.lastClientCommand + 1
         /\ d.lastClientCommandString = name
         /\ name # "donedl" => d.downloadName = (name = "download")
         /\ name = "donedl" => d.downloadName = c.downloadName
<1> DEFINE b == IF name = "donedl" THEN c.downloadName ELSE name = "download"
           n == c.lastClientCommand + 1
           S == DownloadName \cup {""}
<1>1. b \in BOOLEAN /\ n \in Nat /\ name \in S
  <2>1. c.downloadName \in BOOLEAN /\ c.lastClientCommand \in Nat
    BY DEF Client
  <2>2. b \in BOOLEAN
    BY <2>1
  <2>3. n \in Nat
    BY <2>1
  <2>4. name \in S
    OBVIOUS
  <2>5. QED
    BY <2>2, <2>3, <2>4, Zenon
<1>2. d = [c EXCEPT !.lastClientCommand = n, !.lastClientCommandString = name,
                    !.downloadName = b]
  BY DEF DownloadCommand, Client
<1> HIDE DEF b, n
<1>3. d \in Client
  <2>1. Client = [state : {"connected", "primed", "active"}, inWorld : BOOLEAN,
           csUpdated : SUBSET Indices, commands : Seq(Change),
           downloadName : BOOLEAN, lastClientCommand : Nat,
           lastClientCommandString : S,
           early : BOOLEAN, asserted : BOOLEAN]
    BY DEF Client
  <2> HIDE DEF S
  <2>2. QED
    BY <1>1, <1>2, <2>1
<1>4. /\ d.state = c.state /\ d.inWorld = c.inWorld /\ d.csUpdated = c.csUpdated
      /\ d.commands = c.commands /\ d.early = c.early /\ d.asserted = c.asserted
      /\ d.lastClientCommand = n
      /\ d.lastClientCommandString = name
      /\ d.downloadName = b
  BY <1>2 DEF Client
<1>5. QED
  BY <1>3, <1>4, Zenon DEF b, n

LEMMA DownloadRun ==
  ASSUME NEW names \in Seq(DownloadName), NEW c \in Client
  PROVE  \E run \in [0 .. Len(names) -> Client] :
            /\ run[0] = c
            /\ \A k \in 1 .. Len(names) : run[k] = DownloadCommand(run[k - 1], names[k])
            /\ run[Len(names)] = FoldLeft(DownloadCommand, c, names)
<1> DEFINE N == Len(names)
           Solves(f) == f = [s \in SUBSET (1 .. N) |->
                               IF s = {} THEN c
                               ELSE DownloadCommand(f[s \ {Max(s)}], names[Max(s)])]
           step == [p \in Client \X (1 .. N) |-> DownloadCommand(p[1], names[p[2]])]
<1>1. N \in Nat /\ DOMAIN names = 1 .. N /\ \A k \in 1 .. N : names[k] \in DownloadName
  OBVIOUS
<1>2. step \in [Client \X (1 .. N) -> Client]
  BY <1>1, DownloadCommandResult
<1>3. PICK f \in [SUBSET (1 .. N) -> Client] :
        \A s \in SUBSET (1 .. N) :
          f[s] = IF s = {} THEN c ELSE step[<<f[s \ {Max(s)}], Max(s)>>]
  <2> HIDE DEF step, N
  <2>1. \E f : IsFold(f, N, Client, c, step)
    BY <1>1, <1>2, FoldExists, Zenon
  <2>2. QED
    BY <2>1, Zenon DEF IsFold
<1>4. ASSUME NEW s \in SUBSET (1 .. N)
      PROVE  f[s] = IF s = {} THEN c
                    ELSE DownloadCommand(f[s \ {Max(s)}], names[Max(s)])
  <2>1. CASE s = {}
    BY <1>3, <2>1
  <2>2. CASE s # {}
    <3>1. Max(s) \in 1 .. N
      BY <1>1, <2>2, MaxOfBounded
    <3>2. f[s \ {Max(s)}] \in Client
      BY <1>3
    <3>3. step[<<f[s \ {Max(s)}], Max(s)>>]
            = DownloadCommand(f[s \ {Max(s)}], names[Max(s)])
      BY <3>1, <3>2
    <3>4. QED
      BY <1>3, <2>2, <3>3
  <2>3. QED
    BY <2>1, <2>2
<1>5. Solves(f)
  <2>1. f = [s \in SUBSET (1 .. N) |-> f[s]]
    BY <1>3
  <2>2. QED
    BY <1>4, <2>1, Zenon
<1> DEFINE it == CHOOSE g : Solves(g)
<1>6. Solves(it)
  BY <1>5, Zenon
<1>7. FoldLeft(DownloadCommand, c, names) = it[1 .. N]
  BY <1>1 DEF FoldLeft, MapThenFoldSet
<1> HIDE DEF it, N
<1>8. it[{}] = c
  BY <1>6
<1>9. ASSUME NEW k \in 1 .. N
      PROVE  it[1 .. k] = DownloadCommand(it[1 .. k - 1], names[k])
  <2>1. Max(1 .. k) = k /\ (1 .. k) \ {k} = 1 .. k - 1 /\ 1 .. k # {}
    BY LastOfInterval
  <2>2. 1 .. k \in SUBSET (1 .. N)
    BY <1>1
  <2>3. QED
    BY <1>6, <2>1, <2>2, Zenon
<1> DEFINE run == [k \in 0 .. N |-> it[1 .. k]]
<1>10. run[0] = c
  <2>1. 1 .. 0 = {} /\ 0 \in 0 .. N
    BY <1>1
  <2>2. QED
    BY <1>8, <2>1, Zenon
<1>11. \A k \in 1 .. N : run[k] = DownloadCommand(run[k - 1], names[k])
  BY <1>1, <1>9
<1>12. run[N] = FoldLeft(DownloadCommand, c, names)
  BY <1>1, <1>7
<1>13. \A k \in 0 .. N : run[k] \in Client
  <2> DEFINE T == {k \in 0 .. N : run[k] \in Client}
  <2>1. 0 \in T
    BY <1>1, <1>10
  <2>2. ASSUME NEW k \in 0 .. N, k \in T, k < N
        PROVE  k + 1 \in T
    <3>1. k + 1 \in 1 .. N /\ (k + 1) - 1 = k
      BY <1>1, <2>2
    <3>2. run[k + 1] = DownloadCommand(run[k], names[k + 1])
      BY <1>11, <3>1
    <3> HIDE DEF run
    <3>3. QED
      BY <1>1, <2>2, <3>1, <3>2, DownloadCommandResult
  <2>3. \A k \in 0 .. N : k \in T
    <3> HIDE DEF T
    <3>1. QED
      BY <1>1, <2>1, <2>2, IntervalInduction
  <2>4. QED
    BY <2>3
<1>14. run \in [0 .. N -> Client]
  BY <1>13
<1>15. QED
  BY <1>10, <1>11, <1>12, <1>14 DEF N

\* What the commands leave of a client_t: its number, its name and whether it is that
\* of a file are those of the last one.
LEMMA Executed ==
  ASSUME NEW names \in Seq(DownloadName), NEW c \in Client,
         NEW d, d = FoldLeft(DownloadCommand, c, names)
  PROVE  /\ d \in Client
         /\ d.state = c.state /\ d.inWorld = c.inWorld /\ d.csUpdated = c.csUpdated
         /\ d.commands = c.commands /\ d.early = c.early /\ d.asserted = c.asserted
         /\ d.lastClientCommand = c.lastClientCommand + Len(names)
         /\ Len(names) = 0 => d = c
         /\ Len(names) > 0 =>
              LET name == names[Len(names)]
              IN  /\ d.lastClientCommandString = name
                  /\ name # "donedl" => d.downloadName = (name = "download")
                  /\ name = "donedl" =>
                       \/ Len(names) = 1 /\ d.downloadName = c.downloadName
                       \/ /\ Len(names) > 1
                          /\ names[Len(names) - 1] # "donedl" =>
                               d.downloadName = (names[Len(names) - 1] = "download")
<1> DEFINE N == Len(names)
<1>1. N \in Nat /\ \A k \in 1 .. N : names[k] \in DownloadName
  OBVIOUS
<1>2. PICK run \in [0 .. N -> Client] :
        /\ run[0] = c
        /\ \A k \in 1 .. N : run[k] = DownloadCommand(run[k - 1], names[k])
        /\ run[N] = d
  BY DownloadRun
<1> HIDE DEF N
<1>3. ASSUME NEW k \in 1 .. N
      PROVE  /\ run[k].state = run[k - 1].state /\ run[k].inWorld = run[k - 1].inWorld
             /\ run[k].csUpdated = run[k - 1].csUpdated
             /\ run[k].commands = run[k - 1].commands
             /\ run[k].early = run[k - 1].early /\ run[k].asserted = run[k - 1].asserted
             /\ run[k].lastClientCommand = run[k - 1].lastClientCommand + 1
             /\ run[k].lastClientCommandString = names[k]
             /\ names[k] # "donedl" => run[k].downloadName = (names[k] = "download")
             /\ names[k] = "donedl" => run[k].downloadName = run[k - 1].downloadName
  <2>1. k - 1 \in 0 .. N /\ run[k - 1] \in Client
    BY <1>1, <1>2
  <2>2. run[k] = DownloadCommand(run[k - 1], names[k]) /\ names[k] \in DownloadName
    BY <1>1, <1>2
  <2>3. QED
    BY <2>1, <2>2, DownloadCommandResult
<1> DEFINE T == {k \in 0 .. N :
                   /\ run[k].state = c.state /\ run[k].inWorld = c.inWorld
                   /\ run[k].csUpdated = c.csUpdated /\ run[k].commands = c.commands
                   /\ run[k].early = c.early /\ run[k].asserted = c.asserted
                   /\ run[k].lastClientCommand = c.lastClientCommand + k}
<1>4. c.lastClientCommand \in Nat
  BY DEF Client
<1>5. 0 \in T
  BY <1>1, <1>2, <1>4
<1>6. ASSUME NEW k \in 0 .. N, k \in T, k < N
      PROVE  k + 1 \in T
  <2>1. k + 1 \in 1 .. N /\ (k + 1) - 1 = k /\ k + 1 \in 0 .. N
    BY <1>1, <1>6
  <2>2. QED
    BY <1>3, <1>4, <1>6, <2>1
<1>7. \A k \in 0 .. N : k \in T
  <2> HIDE DEF T
  <2>1. QED
    BY <1>1, <1>5, <1>6, IntervalInduction
<1>8. N \in 0 .. N
  BY <1>1
<1>9. /\ d \in Client
      /\ d.state = c.state /\ d.inWorld = c.inWorld /\ d.csUpdated = c.csUpdated
      /\ d.commands = c.commands /\ d.early = c.early /\ d.asserted = c.asserted
      /\ d.lastClientCommand = c.lastClientCommand + N
  BY <1>2, <1>7, <1>8
<1>10. N = 0 => d = c
  BY <1>2
<1>11. ASSUME N > 0
       PROVE  /\ d.lastClientCommandString = names[N]
              /\ names[N] # "donedl" => d.downloadName = (names[N] = "download")
              /\ names[N] = "donedl" => d.downloadName = run[N - 1].downloadName
  <2>1. N \in 1 .. N
    BY <1>1, <1>11
  <2>2. QED
    BY <1>2, <1>3, <2>1
<1>12. ASSUME N > 1, names[N - 1] # "donedl"
       PROVE  run[N - 1].downloadName = (names[N - 1] = "download")
  <2>1. N - 1 \in 1 .. N
    BY <1>1, <1>12
  <2>2. QED
    BY <1>3, <1>12, <2>1
<1>13. N = 1 => run[N - 1] = c
  BY <1>2
<1>14. QED
  BY <1>1, <1>9, <1>10, <1>11, <1>12, <1>13 DEF N
(***************************************************************************)
(* The types of the fields.                                                *)
(***************************************************************************)
LEMMA Fields ==
  ASSUME Typed
  PROVE  /\ sv.serverId \in Nat /\ sv.restartedServerId \in Nat /\ sv.restarts \in Nat
         /\ sv.values \in Values /\ sv.values.cs \in Nat /\ sv.values.systeminfo \in Nat
         /\ client.state \in {"connected", "primed", "active"}
         /\ client.inWorld \in BOOLEAN /\ client.csUpdated \in SUBSET Indices
         /\ client.commands \in Seq(Change) /\ client.downloadName \in BOOLEAN
         /\ client.lastClientCommand \in Nat /\ client.early \in BOOLEAN
         /\ client.asserted \in BOOLEAN
         /\ cl.serverId \in Nat /\ cl.cs \in Nat /\ cl.newer \in BOOLEAN
         /\ cl.serverCommandSequence \in Nat /\ cl.gamestateSequence \in Nat
         /\ cl.snapshotSequence \in Nat /\ cl.lastExecuted \in Nat
         /\ cl.commands \in Seq(DownloadName) /\ cl.lacks \in Nat /\ cl.loaded \in BOOLEAN
         /\ cl.downloading \in BOOLEAN /\ cl.replayed \in BOOLEAN /\ cl.gone \in BOOLEAN
         /\ toClient \in Seq(Downlink) /\ toServer \in Seq(Uplink)
<1>1. /\ sv \in [serverId : Nat, restartedServerId : Nat, restarts : Nat, values : Values]
      /\ client \in Client /\ cl \in ClientSide
      /\ toClient \in Seq(Downlink) /\ toServer \in Seq(Uplink)
  BY DEF Typed
<1>2. sv.values.cs \in Nat /\ sv.values.systeminfo \in Nat
  BY <1>1 DEF Values
<1>3. QED
  BY <1>1, <1>2 DEF Client, ClientSide

LEMMA Numbers ==
  ASSUME Typed
  PROVE  /\ sv.serverId \in Nat /\ sv.restartedServerId \in Nat
         /\ sv.values.cs \in Nat /\ sv.values.systeminfo \in Nat
         /\ client.lastClientCommand \in Nat
         /\ cl.serverId \in Nat /\ cl.cs \in Nat /\ cl.lacks \in Nat
         /\ cl.serverCommandSequence \in Nat /\ cl.gamestateSequence \in Nat
         /\ cl.snapshotSequence \in Nat /\ cl.lastExecuted \in Nat
BY Fields

LEMMA MessageFields ==
  ASSUME Typed
  PROVE  /\ Len(toClient) \in Nat /\ DOMAIN toClient = 1 .. Len(toClient)
         /\ \A i \in DOMAIN toClient :
              /\ toClient[i] \in Downlink
              /\ toClient[i].kind \in {"gamestate", "snapshot", "nothing", "block"}
              /\ toClient[i].values \in Values /\ toClient[i].values.cs \in Nat
              /\ toClient[i].values.systeminfo \in Nat /\ toClient[i].reliable \in Nat
         /\ Len(toServer) \in Nat /\ DOMAIN toServer = 1 .. Len(toServer)
         /\ \A i \in DOMAIN toServer :
              /\ toServer[i] \in Uplink
              /\ toServer[i].serverId \in Nat /\ toServer[i].commands \in Nat
              /\ toServer[i].move \in BOOLEAN
         /\ Len(client.commands) \in Nat /\ DOMAIN client.commands = 1 .. Len(client.commands)
         /\ \A k \in DOMAIN client.commands :
              /\ client.commands[k].index \in Indices \cup {"map_restart"}
              /\ client.commands[k].value \in Nat
         /\ Len(cl.commands) \in Nat /\ DOMAIN cl.commands = 1 .. Len(cl.commands)
         /\ \A k \in DOMAIN cl.commands : cl.commands[k] \in DownloadName
<1>1. /\ toClient \in Seq(Downlink) /\ toServer \in Seq(Uplink)
      /\ client.commands \in Seq(Change) /\ cl.commands \in Seq(DownloadName)
  BY Fields
<1>2. ASSUME NEW i \in DOMAIN toClient
      PROVE  /\ toClient[i] \in Downlink
             /\ toClient[i].kind \in {"gamestate", "snapshot", "nothing", "block"}
             /\ toClient[i].values \in Values /\ toClient[i].values.cs \in Nat
             /\ toClient[i].values.systeminfo \in Nat /\ toClient[i].reliable \in Nat
  <2>1. toClient[i] \in Downlink
    BY <1>1
  <2>2. QED
    BY <2>1 DEF Downlink, Values
<1>3. ASSUME NEW i \in DOMAIN toServer
      PROVE  /\ toServer[i] \in Uplink
             /\ toServer[i].serverId \in Nat /\ toServer[i].commands \in Nat
             /\ toServer[i].move \in BOOLEAN
  <2>1. toServer[i] \in Uplink
    BY <1>1
  <2>2. QED
    BY <2>1 DEF Uplink
<1>4. ASSUME NEW k \in DOMAIN client.commands
      PROVE  /\ client.commands[k].index \in Indices \cup {"map_restart"}
             /\ client.commands[k].value \in Nat
  <2>1. client.commands[k] \in Change
    BY <1>1
  <2>2. QED
    BY <2>1 DEF Change
<1>5. QED
  BY <1>1, <1>2, <1>3, <1>4

LEMMA MessageNumbers ==
  ASSUME Typed
  PROVE  /\ \A i \in DOMAIN toClient :
              /\ toClient[i].values.cs \in Nat
              /\ toClient[i].values.systeminfo \in Nat /\ toClient[i].reliable \in Nat
         /\ \A i \in DOMAIN toServer :
              toServer[i].serverId \in Nat /\ toServer[i].commands \in Nat
         /\ \A k \in DOMAIN client.commands : client.commands[k].value \in Nat
BY MessageFields

LEMMA InitInv == GamestateInit => GInv
<1> SUFFICES ASSUME GamestateInit PROVE GInv
  OBVIOUS
<1>1. sv = [serverId |-> 1, restartedServerId |-> 1, restarts |-> 0,
            values |-> [cs |-> 0, systeminfo |-> 1]]
  BY DEF GamestateInit
<1>2. client = [state |-> "connected", inWorld |-> FALSE, csUpdated |-> {},
                commands |-> <<>>, downloadName |-> FALSE, lastClientCommand |-> 0,
                lastClientCommandString |-> "", early |-> FALSE, asserted |-> FALSE]
  BY DEF GamestateInit
<1>3. PICK lacks \in Nat :
        cl = [serverId |-> None, cs |-> 0, newer |-> TRUE, serverCommandSequence |-> 0,
              gamestateSequence |-> 0, snapshotSequence |-> 0, lastExecuted |-> 0,
              commands |-> <<>>, lacks |-> lacks, loaded |-> FALSE, downloading |-> FALSE,
              replayed |-> FALSE, gone |-> FALSE]
  BY BoundAssumption DEF GamestateInit
<1>4. toClient = <<>> /\ toServer = <<>>
  BY DEF GamestateInit
<1>5. /\ <<>> \in Seq(Downlink) /\ <<>> \in Seq(Uplink)
      /\ <<>> \in Seq(Change) /\ <<>> \in Seq(DownloadName)
  OBVIOUS
<1>6. Typed
  <2>1. sv \in [serverId : Nat, restartedServerId : Nat, restarts : Nat, values : Values]
    BY <1>1 DEF Values
  <2>2. client \in Client
    <3>1. {} \in SUBSET Indices /\ "" \in DownloadName \cup {""}
      OBVIOUS
    <3>2. QED
      BY <1>2, <1>5, <3>1 DEF Client
  <2>3. cl \in ClientSide
    BY <1>3, <1>5 DEF ClientSide, None
  <2>4. QED
    BY <1>4, <1>5, <2>1, <2>2, <2>3 DEF Typed
<1>7. /\ client.state = "connected" /\ client.inWorld = FALSE /\ client.early = FALSE
      /\ client.asserted = FALSE /\ client.downloadName = FALSE
      /\ client.lastClientCommand = 0
      /\ cl.serverId = 0 /\ cl.serverCommandSequence = 0 /\ cl.gamestateSequence = 0
      /\ cl.snapshotSequence = 0 /\ cl.lastExecuted = 0 /\ cl.loaded = FALSE
      /\ cl.downloading = FALSE /\ cl.gone = FALSE
      /\ sv.serverId = 1 /\ sv.restartedServerId = 1 /\ sv.values.systeminfo = 1
  BY <1>1, <1>2, <1>3 DEF None
<1>8. DOMAIN toClient = {} /\ DOMAIN toServer = {} /\ DOMAIN client.commands = {}
      /\ DOMAIN cl.commands = {} /\ Len(client.commands) = 0 /\ Len(cl.commands) = 0
  <2>1. Len(<<>>) = 0 /\ DOMAIN <<>> = {}
    BY EmptySeq
  <2>2. client.commands = <<>> /\ cl.commands = <<>>
    BY <1>2, <1>3
  <2>3. QED
    BY <1>4, <2>1, <2>2, Zenon
<1>9. DownInOrder /\ UpInOrder
  BY <1>6, <1>7, <1>8, Fields DEF DownInOrder, UpInOrder
<1>10. IdsGiven /\ Basics
  BY <1>6, Fields, <1>7, <1>8 DEF IdsGiven, Basics, IsGamestate
<1>11. World /\ Maps
  BY <1>6, Fields, <1>7, <1>8 DEF World, Maps, IsGamestate, Away, Map
<1>12. Loaded /\ Lacking
  BY <1>2, <1>3, <1>7, <1>8 DEF Loaded, Lacking, IsGamestate, Away, Map, CanLoad
<1>13. Commanded /\ Downloads
  BY <1>2, <1>3, <1>7, <1>8 DEF Commanded, Named, Downloads, IsGamestate, Fetching
<1>14. Told /\ Untold
  BY <1>6, Fields, <1>7, <1>8 DEF Told, Untold, IsGamestate, Away, Map
<1>15. QED
  BY <1>6, <1>9, <1>10, <1>11, <1>12, <1>13, <1>14 DEF GInv, Orderly

(***************************************************************************)
(* The server.                                                             *)
(***************************************************************************)
LEMMA SpawnServerInv ==
  ASSUME GInv, SV_SpawnServer
  PROVE  GInv'
<1> DEFINE new == sv.serverId + 1
<1>1. Typed /\ DownInOrder /\ UpInOrder /\ IdsGiven /\ Basics
  BY DEF GInv
<1>2. new \in Nat /\ new > sv.serverId
  BY <1>1, Numbers
<1>3. /\ sv' = [sv EXCEPT !.serverId = new, !.restartedServerId = new,
                          !.values = [cs |-> 0, systeminfo |-> new]]
      /\ client' = [client EXCEPT !.state = "connected", !.inWorld = FALSE]
      /\ UNCHANGED <<toClient, toServer, cl>>
  BY DEF SV_SpawnServer
<1> HIDE DEF new
<1>4. Typed'
  <2>1. [cs |-> 0, systeminfo |-> new] \in Values
    BY <1>2 DEF Values
  <2>2. sv' \in [serverId : Nat, restartedServerId : Nat, restarts : Nat, values : Values]
    BY <1>1, <1>2, <1>3, <2>1 DEF Typed
  <2>3. client' \in Client
    BY <1>1, <1>3 DEF Typed, Client
  <2>4. QED
    BY <1>1, <1>3, <2>2, <2>3 DEF Typed
<1>5. /\ sv'.serverId = new /\ sv'.restartedServerId = new /\ sv'.values.systeminfo = new
      /\ sv'.values.cs = 0
  BY <1>1, <1>3 DEF Typed
<1>6. /\ client'.state = "connected" /\ client'.inWorld = FALSE
      /\ client'.csUpdated = client.csUpdated /\ client'.commands = client.commands
      /\ client'.downloadName = client.downloadName
      /\ client'.lastClientCommand = client.lastClientCommand
      /\ client'.lastClientCommandString = client.lastClientCommandString
      /\ client'.early = client.early /\ client'.asserted = client.asserted
  BY <1>1, <1>3 DEF Typed, Client
<1>7. toClient' = toClient /\ toServer' = toServer /\ cl' = cl
  BY <1>3
<1>8. DownInOrder' /\ UpInOrder'
  BY <1>1, <1>6, <1>7 DEF DownInOrder, UpInOrder
<1>9. IdsGiven' /\ Basics'
  <2>1. IdsGiven'
    BY <1>1, <1>2, <1>5, <1>6, <1>7, Numbers, MessageNumbers DEF IdsGiven, IsGamestate
  <2>2. QED
    BY <1>1, <1>6, <1>7, <2>1 DEF Basics
<1>10. ASSUME ~client.early PROVE Orderly'
  <2>1. World /\ Maps /\ Loaded /\ Lacking /\ Commanded /\ Downloads
    BY <1>10 DEF GInv, Orderly
  <2>2. World'
    BY <1>5, <1>6, <1>7, <2>1 DEF World, Away, Map
  <2>3. Maps'
    BY <1>1, <1>2, <1>5, <1>6, <1>7, <2>1, Numbers, MessageNumbers
       DEF Maps, IdsGiven, Away, Map, IsGamestate
  <2>4. Loaded'
    BY <1>1, <1>2, <1>5, <1>6, <1>7, <2>1, Numbers, MessageNumbers
       DEF Loaded, IdsGiven, Away, Map, IsGamestate, CanLoad
  <2>5. Lacking'
    BY <1>1, <1>2, <1>5, <1>6, <1>7, <2>1, Numbers, MessageNumbers
       DEF Lacking, IdsGiven, Map, IsGamestate, CanLoad
  <2>6. Commanded'
    BY <1>6, <1>7, <2>1 DEF Commanded, Named, Fetched
  <2>7. Downloads'
    BY <1>6, <1>7, <2>1 DEF Downloads, Fetching, IsGamestate
  <2>8. Told' /\ Untold'
    BY <1>1, <1>2, <1>5, <1>6, <1>7, Numbers, MessageNumbers
       DEF Told, Untold, IdsGiven, Away, Map, IsGamestate
  <2>9. QED
    BY <2>2, <2>3, <2>4, <2>5, <2>6, <2>7, <2>8 DEF Orderly
<1>11. QED
  BY <1>4, <1>6, <1>8, <1>9, <1>10 DEF GInv

\* The commands of d are those of c and, behind them, more.
Extends(d, c) ==
  /\ Len(c) <= Len(d)
  /\ \A k \in 1 .. Len(c) : d[k] = c[k]

\* What adding a reliable command leaves of a client_t.
Rest(d, c) ==
  /\ d.downloadName = c.downloadName /\ d.lastClientCommand = c.lastClientCommand
  /\ d.lastClientCommandString = c.lastClientCommandString
  /\ d.early = c.early /\ d.asserted = c.asserted

LEMMA Added ==
  ASSUME NEW c \in Seq(Change), NEW x \in Change
  PROVE  /\ Append(c, x) \in Seq(Change) /\ Len(Append(c, x)) = Len(c) + 1
         /\ Append(c, x)[Len(c) + 1] = x /\ Extends(Append(c, x), c)
BY DEF Extends

LEMMA CommandResult ==
  ASSUME NEW c \in Client, NEW index \in Indices \cup {"map_restart"}, NEW value \in Nat,
         NEW d, d = Command(c, index, value)
  PROVE  /\ d \in Client /\ Rest(d, c)
         /\ d.state = c.state /\ d.inWorld = c.inWorld /\ d.csUpdated = c.csUpdated
         /\ d.commands = Append(c.commands, [index |-> index, value |-> value])
         /\ Len(d.commands) = Len(c.commands) + 1 /\ Extends(d.commands, c.commands)
         /\ d.commands[Len(c.commands) + 1] = [index |-> index, value |-> value]
<1> DEFINE x == [index |-> index, value |-> value]
           q == Append(c.commands, x)
<1>1. x \in Change /\ c.commands \in Seq(Change)
  BY DEF Change, Client
<1>2. /\ q \in Seq(Change) /\ Len(q) = Len(c.commands) + 1
      /\ q[Len(c.commands) + 1] = x /\ Extends(q, c.commands)
  <2> HIDE DEF x
  <2>1. QED
    BY <1>1, Added
<1>3. d = [c EXCEPT !.commands = q]
  BY DEF Command
<1> HIDE DEF q, x
<1>4. d \in Client /\ d.commands = q
  BY <1>2, <1>3 DEF Client
<1>5. /\ d.state = c.state /\ d.inWorld = c.inWorld /\ d.csUpdated = c.csUpdated /\ Rest(d, c)
  BY <1>3 DEF Client, Rest
<1>6. QED
  BY <1>2, <1>4, <1>5, Zenon DEF q, x

\* A command more: either it is about the configstring, and then the last one, or not.
LEMMA BringsMore ==
  ASSUME NEW c \in Seq(Change), NEW d \in Seq(Change), Extends(d, c), Len(d) = Len(c) + 1,
         NEW index, NEW n \in Nat, n <= Len(c), NEW v, NEW w
  PROVE  /\ d[Len(c) + 1].index = index => Brings(d, index, n, v, d[Len(c) + 1].value)
         /\ d[Len(c) + 1].index # index /\ Brings(c, index, n, v, w)
            => Brings(d, index, n, v, w)
<1> DEFINE N == Len(c)
<1>1. N \in Nat /\ Len(d) = N + 1 /\ N + 1 \in n + 1 .. N + 1 /\ n <= N
  OBVIOUS
<1>2. \A k \in 1 .. N : d[k] = c[k]
  BY DEF Extends
<1> HIDE DEF N
<1>3. ASSUME d[N + 1].index = index
      PROVE  Brings(d, index, n, v, d[N + 1].value)
  <2>1. \A j \in (N + 1) + 1 .. N + 1 : FALSE
    BY <1>1
  <2>2. QED
    BY <1>1, <1>3, <2>1 DEF Brings
<1>4. ASSUME d[N + 1].index # index, Brings(c, index, n, v, w)
      PROVE  Brings(d, index, n, v, w)
  <2>1. CASE v = w /\ \A k \in n + 1 .. N : c[k].index # index
    <3>1. ASSUME NEW k \in n + 1 .. N + 1 PROVE d[k].index # index
      <4>1. k = N + 1 \/ (k \in n + 1 .. N /\ k \in 1 .. N)
        BY <1>1
      <4>2. QED
        BY <1>2, <1>4, <2>1, <4>1
    <3>2. QED
      BY <1>1, <2>1, <3>1 DEF Brings
  <2>2. CASE \E k \in n + 1 .. N :
               /\ c[k].index = index /\ c[k].value = w
               /\ \A j \in k + 1 .. N : c[j].index # index
    <3>1. PICK k \in n + 1 .. N : /\ c[k].index = index /\ c[k].value = w
                                  /\ \A j \in k + 1 .. N : c[j].index # index
      BY <2>2
    <3>2. k \in 1 .. N /\ k \in n + 1 .. N + 1
      BY <1>1
    <3>3. ASSUME NEW j \in k + 1 .. N + 1 PROVE d[j].index # index
      <4>1. j = N + 1 \/ (j \in k + 1 .. N /\ j \in 1 .. N)
        BY <1>1, <3>2
      <4>2. QED
        BY <1>2, <1>4, <3>1, <4>1
    <3>4. d[k].index = index /\ d[k].value = w
      BY <1>2, <3>1, <3>2
    <3>5. QED
      BY <1>1, <3>2, <3>3, <3>4 DEF Brings
  <2>3. QED
    BY <1>4, <2>1, <2>2 DEF Brings, N
<1>5. QED
  BY <1>3, <1>4 DEF N

\* A client without commands to execute has every value.
LEMMA BringsNothing ==
  ASSUME NEW c \in Seq(Change), NEW index, NEW v
  PROVE  Brings(c, index, Len(c), v, v)
BY DEF Brings

LEMMA ExtendsTwice ==
  ASSUME NEW b \in Seq(Change), NEW c \in Seq(Change), NEW d \in Seq(Change),
         Extends(c, b), Extends(d, c)
  PROVE  Extends(d, b)
BY DEF Extends

\* A primed client that enters the world is sent what was changed, and has all values
\* then that it had before or that are sent.
LEMMA UpdateResult ==
  ASSUME NEW c \in Client, NEW values \in Values,
         NEW d, d = SV_UpdateConfigstrings(c, values)
  PROVE  /\ d \in Client /\ Rest(d, c) /\ d.state = c.state /\ d.inWorld = c.inWorld
         /\ Extends(d.commands, c.commands)
         /\ \A k \in Len(c.commands) + 1 .. Len(d.commands) :
              d.commands[k].index = "systeminfo" => d.commands[k].value = values.systeminfo
         /\ Brings(d.commands, "systeminfo", Len(c.commands), values.systeminfo,
                   values.systeminfo)
         /\ \A v : v = values.cs \/ "cs" \in c.csUpdated =>
              Brings(d.commands, "cs", Len(c.commands), v, values.cs)
<1> DEFINE N == Len(c.commands)
<1>1. c.commands \in Seq(Change) /\ N \in Nat /\ values.cs \in Nat /\ values.systeminfo \in Nat
  <2>1. c.commands \in Seq(Change)
    BY DEF Client
  <2>2. N \in Nat
    BY <2>1
  <2>3. values.cs \in Nat /\ values.systeminfo \in Nat
    BY DEF Values
  <2>4. QED
    BY <2>1, <2>2, <2>3
<1>2. PICK told :
        told = IF "systeminfo" \in c.csUpdated
               THEN Command(c, "systeminfo", values.systeminfo) ELSE c
  OBVIOUS
<1>3. PICK all : all = IF "cs" \in c.csUpdated THEN Command(told, "cs", values.cs) ELSE told
  OBVIOUS
<1>4. d = [all EXCEPT !.csUpdated = {}]
  BY <1>2, <1>3 DEF SV_UpdateConfigstrings
<1>5. "cs" \in Indices /\ "systeminfo" \in Indices /\ "cs" # "systeminfo"
  BY DEF Indices
<1>6. /\ told \in Client /\ Rest(told, c) /\ told.state = c.state /\ told.inWorld = c.inWorld
      /\ Extends(told.commands, c.commands)
      /\ \A k \in N + 1 .. Len(told.commands) :
           told.commands[k].index = "systeminfo" /\ told.commands[k].value = values.systeminfo
      /\ Brings(told.commands, "systeminfo", N, values.systeminfo, values.systeminfo)
      /\ Brings(told.commands, "cs", N, values.cs, values.cs)
  <2>1. CASE "systeminfo" \in c.csUpdated
    <3>1. told = Command(c, "systeminfo", values.systeminfo)
      BY <1>2, <2>1
    <3>2. /\ told \in Client /\ Rest(told, c)
          /\ told.state = c.state /\ told.inWorld = c.inWorld
          /\ Len(told.commands) = N + 1 /\ Extends(told.commands, c.commands)
          /\ told.commands[N + 1] = [index |-> "systeminfo", value |-> values.systeminfo]
      BY <1>1, <1>5, <3>1, CommandResult
    <3>3. told.commands \in Seq(Change)
      BY <3>2 DEF Client
    <3>4. /\ told.commands[N + 1].index = "systeminfo"
          /\ told.commands[N + 1].value = values.systeminfo
      BY <3>2
    <3>5. Brings(told.commands, "systeminfo", N, values.systeminfo, values.systeminfo)
      BY <1>1, <3>2, <3>3, <3>4, BringsMore
    <3>6. Brings(told.commands, "cs", N, values.cs, values.cs)
      <4>1. Brings(c.commands, "cs", N, values.cs, values.cs)
        BY <1>1, BringsNothing
      <4>2. QED
        BY <1>1, <1>5, <3>2, <3>3, <3>4, <4>1, BringsMore
    <3>7. \A k \in N + 1 .. Len(told.commands) : k = N + 1
      BY <1>1, <3>2
    <3>8. QED
      BY <3>2, <3>4, <3>5, <3>6, <3>7
  <2>2. CASE "systeminfo" \notin c.csUpdated
    <3>1. told = c
      BY <1>2, <2>2
    <3>2. Rest(c, c) /\ Extends(c.commands, c.commands)
      BY <1>1 DEF Rest, Extends
    <3>3. \A k \in N + 1 .. N : FALSE
      BY <1>1
    <3>4. QED
      BY <1>1, <3>1, <3>2, <3>3, BringsNothing
  <2>3. QED
    BY <2>1, <2>2
<1>7. told.commands \in Seq(Change) /\ Len(told.commands) \in Nat /\ N <= Len(told.commands)
  <2>1. told.commands \in Seq(Change)
    BY <1>6 DEF Client
  <2>2. Len(told.commands) \in Nat
    BY <2>1
  <2>3. Extends(told.commands, c.commands)
    BY <1>6
  <2>4. N <= Len(told.commands)
    BY <2>3, Zenon DEF Extends
  <2>5. QED
    BY <2>1, <2>2, <2>4
<1>8. /\ all \in Client /\ Rest(all, c) /\ all.state = c.state /\ all.inWorld = c.inWorld
      /\ Extends(all.commands, c.commands)
      /\ \A k \in N + 1 .. Len(all.commands) :
           all.commands[k].index = "systeminfo" => all.commands[k].value = values.systeminfo
      /\ Brings(all.commands, "systeminfo", N, values.systeminfo, values.systeminfo)
      /\ \A v : v = values.cs \/ "cs" \in c.csUpdated => Brings(all.commands, "cs", N, v, values.cs)
  <2>1. CASE "cs" \in c.csUpdated
    <3> DEFINE M == Len(told.commands)
    <3>1. all = Command(told, "cs", values.cs)
      BY <1>3, <2>1
    <3>2. /\ all \in Client /\ Rest(all, told)
          /\ all.state = told.state /\ all.inWorld = told.inWorld
          /\ Len(all.commands) = M + 1 /\ Extends(all.commands, told.commands)
          /\ all.commands[M + 1] = [index |-> "cs", value |-> values.cs]
      BY <1>1, <1>5, <1>6, <3>1, CommandResult
    <3>3. all.commands \in Seq(Change)
      BY <3>2 DEF Client
    <3>4. all.commands[M + 1].index = "cs" /\ all.commands[M + 1].value = values.cs
      BY <3>2
    <3>5. Extends(all.commands, c.commands)
      BY <1>1, <1>6, <1>7, <3>2, <3>3, ExtendsTwice
    <3>6. Rest(all, c)
      BY <1>6, <3>2 DEF Rest
    <3>7. ASSUME NEW v PROVE Brings(all.commands, "cs", N, v, values.cs)
      BY <1>1, <1>7, <3>2, <3>3, <3>4, BringsMore
    <3>8. Brings(all.commands, "systeminfo", N, values.systeminfo, values.systeminfo)
      BY <1>1, <1>5, <1>6, <1>7, <3>2, <3>3, <3>4, BringsMore
    <3>9. ASSUME NEW k \in N + 1 .. Len(all.commands), all.commands[k].index = "systeminfo"
          PROVE  all.commands[k].value = values.systeminfo
      <4>1. k \in 1 .. M /\ k \in N + 1 .. M
        BY <1>1, <1>5, <1>7, <3>2, <3>4, <3>9
      <4>2. all.commands[k] = told.commands[k]
        BY <3>2, <4>1 DEF Extends
      <4>3. QED
        BY <1>6, <4>1, <4>2
    <3>10. QED
      BY <1>6, <3>2, <3>5, <3>6, <3>7, <3>8, <3>9, Zenon
  <2>2. CASE "cs" \notin c.csUpdated
    <3>1. all = told
      BY <1>3, <2>2
    <3>2. QED
      BY <1>6, <2>2, <3>1
  <2>3. QED
    BY <2>1, <2>2
<1>9. d \in Client /\ Rest(d, all) /\ d.state = all.state /\ d.inWorld = all.inWorld
      /\ d.commands = all.commands
  BY <1>4, <1>8 DEF Client, Rest
<1>10. Rest(d, c)
  BY <1>8, <1>9 DEF Rest
<1>11. QED
  BY <1>8, <1>9, <1>10, Zenon

LEMMA EnterResult ==
  ASSUME NEW c \in Client, NEW values \in Values,
         NEW d, d = SV_PlayerEnterWorld(c, values)
  PROVE  /\ d \in Client /\ Rest(d, c) /\ d.inWorld = TRUE
         /\ c.state # "primed" => d.state = c.state /\ d.commands = c.commands
         /\ c.state = "primed" => d.state = "active"
         /\ Extends(d.commands, c.commands)
         /\ \A k \in Len(c.commands) + 1 .. Len(d.commands) :
              d.commands[k].index = "systeminfo" => d.commands[k].value = values.systeminfo
         /\ c.state = "primed" =>
              /\ Brings(d.commands, "systeminfo", Len(c.commands), values.systeminfo,
                        values.systeminfo)
              /\ \A v : v = values.cs \/ "cs" \in c.csUpdated =>
                   Brings(d.commands, "cs", Len(c.commands), v, values.cs)
<1>1. PICK entered : entered = IF c.state = "primed"
                     THEN SV_UpdateConfigstrings([c EXCEPT !.state = "active"], values)
                     ELSE c
  OBVIOUS
<1>2. d = [entered EXCEPT !.inWorld = TRUE]
  BY <1>1 DEF SV_PlayerEnterWorld
<1>3. CASE c.state = "primed"
  <2> DEFINE b == [c EXCEPT !.state = "active"]
  <2>1. /\ b \in Client /\ Rest(b, c) /\ b.commands = c.commands /\ b.state = "active"
        /\ b.csUpdated = c.csUpdated
    BY DEF Client, Rest
  <2>2. entered = SV_UpdateConfigstrings(b, values)
    BY <1>1, <1>3
  <2> HIDE DEF b
  <2>3. /\ entered \in Client /\ Rest(entered, b) /\ entered.state = b.state
        /\ Extends(entered.commands, b.commands)
        /\ \A k \in Len(b.commands) + 1 .. Len(entered.commands) :
             entered.commands[k].index = "systeminfo"
               => entered.commands[k].value = values.systeminfo
        /\ Brings(entered.commands, "systeminfo", Len(b.commands), values.systeminfo,
                  values.systeminfo)
        /\ \A v : v = values.cs \/ "cs" \in b.csUpdated =>
             Brings(entered.commands, "cs", Len(b.commands), v, values.cs)
    BY <2>1, <2>2, UpdateResult
  <2>4. /\ d \in Client /\ Rest(d, entered) /\ d.inWorld = TRUE /\ d.state = entered.state
        /\ d.commands = entered.commands
    BY <1>2, <2>3 DEF Client, Rest
  <2>5. Rest(d, c)
    BY <2>1, <2>3, <2>4 DEF Rest
  <2>6. QED
    BY <1>3, <2>1, <2>3, <2>4, <2>5
<1>4. CASE c.state # "primed"
  <2>1. d = [c EXCEPT !.inWorld = TRUE]
    BY <1>1, <1>2, <1>4
  <2>2. /\ d \in Client /\ Rest(d, c) /\ d.inWorld = TRUE /\ d.state = c.state
        /\ d.commands = c.commands
    BY <2>1 DEF Client, Rest
  <2>3. Len(c.commands) \in Nat /\ Extends(d.commands, c.commands)
    <3>1. c.commands \in Seq(Change)
      BY DEF Client
    <3>2. Len(c.commands) \in Nat /\ Len(c.commands) <= Len(c.commands)
      BY <3>1
    <3>3. d.commands = c.commands
      BY <2>2
    <3>4. QED
      BY <3>2, <3>3 DEF Extends
  <2>4. \A k \in Len(c.commands) + 1 .. Len(d.commands) : FALSE
    BY <2>2, <2>3
  <2>5. QED
    BY <1>4, <2>2, <2>3, <2>4
<1>5. QED
  BY <1>3, <1>4

LEMMA SetResult ==
  ASSUME NEW c \in Client, NEW index \in Indices, NEW value \in Nat,
         NEW d, d = SV_SetConfigstring(c, index, value)
  PROVE  /\ d \in Client /\ Rest(d, c) /\ d.state = c.state /\ d.inWorld = c.inWorld
         /\ Extends(d.commands, c.commands)
         /\ c.state = "active" =>
              /\ Len(d.commands) = Len(c.commands) + 1
              /\ d.commands[Len(c.commands) + 1] = [index |-> index, value |-> value]
         /\ c.state # "active" => d.commands = c.commands
         /\ c.state = "primed" => d.csUpdated = c.csUpdated \cup {index}
<1>1. c.state \in {"connected", "primed", "active"} /\ c.commands \in Seq(Change)
  BY DEF Client
<1>2. Extends(c.commands, c.commands) /\ Rest(c, c)
  BY <1>1 DEF Extends, Rest
<1>3. CASE c.state = "active"
  <2>1. d = Command(c, index, value)
    BY <1>3 DEF SV_SetConfigstring
  <2>2. QED
    BY <1>3, <2>1, CommandResult
<1>4. CASE c.state = "primed"
  <2>1. d = [c EXCEPT !.csUpdated = c.csUpdated \cup {index}]
    BY <1>4 DEF SV_SetConfigstring
  <2> DEFINE u == c.csUpdated \cup {index}
  <2>2. u \in SUBSET Indices
    BY DEF Client
  <2> HIDE DEF u
  <2>3. d = [c EXCEPT !.csUpdated = u]
    BY <2>1 DEF u
  <2>4. d \in Client
    BY <2>2, <2>3 DEF Client
  <2>5. /\ Rest(d, c) /\ d.state = c.state /\ d.inWorld = c.inWorld
        /\ d.commands = c.commands /\ d.csUpdated = u
    BY <2>3 DEF Client, Rest
  <2>6. QED
    BY <1>2, <1>4, <2>4, <2>5 DEF u
<1>5. CASE c.state = "connected"
  <2>1. d = c
    BY <1>5 DEF SV_SetConfigstring
  <2>2. QED
    BY <1>2, <1>5, <2>1
<1>6. QED
  BY <1>1, <1>3, <1>4, <1>5

\* The server adds reliable commands: what the parts of the invariant need that say
\* nothing of the values.
LEMMA ServerSays ==
  ASSUME GInv,
         sv' \in [serverId : Nat, restartedServerId : Nat, restarts : Nat, values : Values],
         sv'.restartedServerId = sv.restartedServerId, sv'.serverId >= sv.serverId,
         sv'.values.systeminfo \in sv.restartedServerId .. sv'.serverId,
         client' \in Client, client'.downloadName = client.downloadName,
         client'.lastClientCommand = client.lastClientCommand,
         client'.lastClientCommandString = client.lastClientCommandString,
         client'.state = "active" => client'.inWorld,
         Extends(client'.commands, client.commands),
         \A k \in Len(client.commands) + 1 .. Len(client'.commands) :
           client'.commands[k].index = "systeminfo"
             => client'.commands[k].value <= sv'.serverId,
         UNCHANGED <<toClient, toServer, cl>>
  PROVE  /\ Typed' /\ DownInOrder' /\ UpInOrder' /\ IdsGiven' /\ Basics'
         /\ Lacking => Lacking'
         /\ Commanded => Commanded'
         /\ Downloads => Downloads'
<1>1. Typed /\ DownInOrder /\ UpInOrder /\ IdsGiven /\ Basics
  BY DEF GInv
<1>2. toClient' = toClient /\ toServer' = toServer /\ cl' = cl
  OBVIOUS
<1>3. Typed'
  BY <1>1, <1>2 DEF Typed
<1>4. /\ Len(client.commands) \in Nat /\ Len(client'.commands) \in Nat
      /\ Len(client.commands) <= Len(client'.commands)
      /\ DOMAIN client'.commands = 1 .. Len(client'.commands)
      /\ DOMAIN client.commands = 1 .. Len(client.commands)
  <2>1. client.commands \in Seq(Change)
    BY <1>1 DEF Typed, Client
  <2>2. client'.commands \in Seq(Change)
    BY DEF Client
  <2>3. Len(client.commands) <= Len(client'.commands)
    BY Zenon DEF Extends
  <2>4. QED
    BY <2>1, <2>2, <2>3
<1>5. DownInOrder'
  <2>1. \A i \in DOMAIN toClient : toClient[i].reliable \in Nat
    BY <1>1, MessageNumbers
  <2>2. cl.serverCommandSequence \in Nat
    BY <1>1, Numbers
  <2>3. QED
    BY <1>1, <1>2, <1>4, <2>1, <2>2 DEF DownInOrder
<1>6. UpInOrder' /\ Basics'
  BY <1>1, <1>2 DEF UpInOrder, Basics
<1>7. IdsGiven'
  <2>1. sv.serverId \in Nat /\ sv'.serverId \in Nat /\ sv.restartedServerId \in Nat
        /\ sv'.values.systeminfo \in Nat /\ cl.serverId \in Nat
    <3>1. sv'.values \in Values /\ sv'.serverId \in Nat
      OBVIOUS
    <3>2. sv'.values.systeminfo \in Nat
      BY <3>1 DEF Values
    <3>3. QED
      BY <1>1, <3>1, <3>2, Numbers
  <2>2. ASSUME NEW k \in DOMAIN client'.commands, client'.commands[k].index = "systeminfo"
        PROVE  client'.commands[k].value <= sv'.serverId
    <3>1. CASE k \in Len(client.commands) + 1 .. Len(client'.commands)
      BY <2>2, <3>1
    <3>2. CASE k \in 1 .. Len(client.commands)
      <4>1. client'.commands[k] = client.commands[k]
        BY <3>2, Zenon DEF Extends
      <4>2. client.commands[k].value \in Nat /\ client.commands[k].value <= sv.serverId
        BY <1>1, <1>4, <2>2, <3>2, <4>1, MessageNumbers DEF IdsGiven
      <4>3. QED
        BY <2>1, <4>1, <4>2
    <3>3. QED
      BY <1>4, <3>1, <3>2
  <2>3. \A i \in DOMAIN toServer : toServer[i].serverId <= sv'.serverId
    BY <1>1, <2>1, MessageNumbers DEF IdsGiven
  <2>4. \A i : IsGamestate(i) => toClient[i].values.systeminfo <= sv'.serverId
    BY <1>1, <2>1, MessageNumbers DEF IdsGiven, IsGamestate
  <2>5. cl.serverId <= sv'.serverId /\ sv'.restartedServerId <= sv'.values.systeminfo
        /\ sv'.values.systeminfo <= sv'.serverId
    BY <1>1, <2>1 DEF IdsGiven
  <2>6. QED
    BY <1>2, <2>2, <2>3, <2>4, <2>5 DEF IdsGiven, IsGamestate
<1>8. (Lacking => Lacking') /\ (Commanded => Commanded')
  <2>1. Lacking => Lacking'
    BY <1>2 DEF Lacking, CanLoad, Map, IsGamestate
  <2>2. Commanded => Commanded'
    BY <1>2 DEF Commanded, Named, Fetched
  <2>3. QED
    BY <2>1, <2>2
<1>9. Downloads => Downloads'
  BY <1>2 DEF Downloads, Fetching, IsGamestate
<1>10. QED
  BY <1>3, <1>5, <1>6, <1>7, <1>8, <1>9

\* The parts that need the client's state or the values: a client that is not active
\* is told nothing, an active one stays active.
LEMMA ServerSaysOrderly ==
  ASSUME GInv, Orderly, Typed',
         sv'.restartedServerId = sv.restartedServerId,
         client'.state = client.state, client'.inWorld = client.inWorld,
         client'.asserted = client.asserted,
         Away => client'.commands = client.commands /\ sv'.serverId = sv.serverId,
         Lacking', Commanded', Downloads', Told', Untold',
         UNCHANGED <<toClient, toServer, cl>>
  PROVE  Orderly'
<1>1. World /\ Maps /\ Loaded
  BY DEF Orderly
<1>2. toClient' = toClient /\ toServer' = toServer /\ cl' = cl
  OBVIOUS
<1>3. World'
  BY <1>1, <1>2 DEF World, Away, Map
<1>4. Maps'
  BY <1>1, <1>2 DEF Maps, Away, Map, IsGamestate
<1>5. Loaded'
  BY <1>1, <1>2 DEF Loaded, Away, Map, IsGamestate, CanLoad
<1>6. QED
  BY <1>3, <1>4, <1>5 DEF Orderly

\* A client that has every value has every value after one command more.
LEMMA BothMore ==
  ASSUME NEW c \in Seq(Change), NEW d \in Seq(Change), Extends(d, c), Len(d) = Len(c) + 1,
         NEW n \in Nat, n <= Len(c), NEW cs, NEW id, NEW newCs, NEW newId,
         Brings(c, "cs", n, cs, newCs), Brings(c, "systeminfo", n, id, newId),
         NEW x, x = d[Len(c) + 1]
  PROVE  /\ Brings(d, "cs", n, cs, IF x.index = "cs" THEN x.value ELSE newCs)
         /\ Brings(d, "systeminfo", n, id,
                   IF x.index = "systeminfo" THEN x.value ELSE newId)
<1>1. Brings(d, "cs", n, cs, IF x.index = "cs" THEN x.value ELSE newCs)
  <2>1. CASE x.index = "cs"
    BY <2>1, BringsMore
  <2>2. CASE x.index # "cs"
    BY <2>2, BringsMore
  <2>3. QED
    BY <2>1, <2>2
<1>2. Brings(d, "systeminfo", n, id, IF x.index = "systeminfo" THEN x.value ELSE newId)
  <2>1. CASE x.index = "systeminfo"
    BY <2>1, BringsMore
  <2>2. CASE x.index # "systeminfo"
    BY <2>2, BringsMore
  <2>3. QED
    BY <2>1, <2>2
<1>3. QED
  BY <1>1, <1>2

LEMMA FromBounded ==
  ASSUME Typed, DownInOrder
  PROVE  From \in Nat /\ From <= Len(client.commands)
<1>1. Len(client.commands) \in Nat
  BY MessageFields
<1>2. /\ cl.lastExecuted \in Nat /\ cl.gamestateSequence \in Nat
      /\ cl.serverCommandSequence \in Nat
  BY Numbers
<1>3. QED
  BY <1>1, <1>2 DEF From, DownInOrder

\* One command more, that brings the value that is new.
LEMMA ToldNext ==
  ASSUME GInv, Told, client.state = "active", client'.state = "active",
         client'.commands \in Seq(Change), Extends(client'.commands, client.commands),
         Len(client'.commands) = Len(client.commands) + 1,
         sv'.restartedServerId = sv.restartedServerId,
         NEW x, x = client'.commands[Len(client.commands) + 1],
         sv'.values.cs = IF x.index = "cs" THEN x.value ELSE sv.values.cs,
         sv'.values.systeminfo
           = IF x.index = "systeminfo" THEN x.value ELSE sv.values.systeminfo,
         UNCHANGED <<toClient, toServer, cl>>
  PROVE  Told'
<1>1. Typed /\ DownInOrder /\ client.commands \in Seq(Change)
  BY DEF GInv, Typed, Client
<1>2. toClient' = toClient /\ toServer' = toServer /\ cl' = cl /\ From' = From
  BY DEF From
<1>3. ASSUME NEW n \in Nat, NEW cs, NEW id, n <= Len(client.commands), BringsBoth(n, cs, id)
      PROVE  BringsBoth(n, cs, id)'
  <2>1. /\ Brings(client.commands, "cs", n, cs, sv.values.cs)
        /\ Brings(client.commands, "systeminfo", n, id, sv.values.systeminfo)
    BY <1>3 DEF BringsBoth
  <2>2. /\ Brings(client'.commands, "cs", n, cs, sv'.values.cs)
        /\ Brings(client'.commands, "systeminfo", n, id, sv'.values.systeminfo)
    BY <1>1, <1>3, <2>1, BothMore
  <2>3. QED
    BY <2>2 DEF BringsBoth
<1>4. ASSUME NEW i, IsGamestate(i)
      PROVE  /\ toClient[i].values.systeminfo = Map
             /\ BringsBoth(toClient[i].reliable, toClient[i].values.cs,
                           toClient[i].values.systeminfo)'
  <2>1. /\ toClient[i].values.systeminfo = Map
        /\ BringsBoth(toClient[i].reliable, toClient[i].values.cs,
                      toClient[i].values.systeminfo)
    BY <1>4 DEF Told, Away
  <2>2. i \in DOMAIN toClient /\ toClient[i].reliable \in Nat
    BY <1>1, <1>4, MessageNumbers DEF IsGamestate
  <2>3. toClient[i].reliable <= Len(client.commands)
    BY <1>1, <2>2 DEF DownInOrder
  <2>4. QED
    BY <1>2, <1>3, <2>1, <2>2, <2>3
<1>5. ASSUME ~cl.replayed
      PROVE  BringsBoth(From, cl.cs, cl.serverId)'
  <2>1. BringsBoth(From, cl.cs, cl.serverId)
    BY <1>5 DEF Told, Away
  <2>2. QED
    BY <1>1, <1>2, <1>3, <2>1, FromBounded
<1>6. QED
  BY <1>2, <1>4, <1>5 DEF Told, IsGamestate, Map, Away

LEMMA SetConfigstringInv ==
  ASSUME GInv, SetConfigstring
  PROVE  GInv'
<1> DEFINE value == sv.values.cs + 1
<1>1. Typed /\ DownInOrder /\ IdsGiven /\ Basics
  BY DEF GInv
<1>2. value \in Nat /\ client \in Client /\ sv.values \in Values
  BY <1>1, Numbers DEF Typed
<1>3. /\ sv' = [sv EXCEPT !.values.cs = value]
      /\ client' = SV_SetConfigstring(client, "cs", value)
      /\ UNCHANGED <<toClient, toServer, cl>>
  BY DEF SetConfigstring
<1> HIDE DEF value
<1>4. /\ sv' \in [serverId : Nat, restartedServerId : Nat, restarts : Nat, values : Values]
      /\ sv'.serverId = sv.serverId /\ sv'.restartedServerId = sv.restartedServerId
      /\ sv'.values.systeminfo = sv.values.systeminfo /\ sv'.values.cs = value
  <2> DEFINE w == [sv.values EXCEPT !.cs = value]
  <2>1. w \in Values /\ w.systeminfo = sv.values.systeminfo /\ w.cs = value
    BY <1>2 DEF Values
  <2>2. sv' = [sv EXCEPT !.values = w]
    BY <1>3
  <2> HIDE DEF w
  <2>3. QED
    BY <1>1, <2>1, <2>2 DEF Typed
<1>5. /\ client' \in Client /\ Rest(client', client) /\ client'.state = client.state
      /\ client'.inWorld = client.inWorld
      /\ Extends(client'.commands, client.commands)
      /\ client.state = "active" =>
           /\ Len(client'.commands) = Len(client.commands) + 1
           /\ client'.commands[Len(client.commands) + 1] = [index |-> "cs", value |-> value]
      /\ client.state # "active" => client'.commands = client.commands
      /\ client.state = "primed" => client'.csUpdated = client.csUpdated \cup {"cs"}
  BY <1>2, <1>3, SetResult DEF Indices
<1>6. ASSUME NEW k \in Len(client.commands) + 1 .. Len(client'.commands)
      PROVE  client'.commands[k].index # "systeminfo"
  <2>1. Len(client.commands) \in Nat
    BY <1>1, MessageFields
  <2>2. client.state = "active" /\ k = Len(client.commands) + 1
    BY <1>5, <2>1
  <2>3. client'.commands[k] = [index |-> "cs", value |-> value]
    BY <1>5, <2>2
  <2>4. QED
    BY <2>3
<1>7. sv.values.systeminfo \in sv.restartedServerId .. sv.serverId /\ sv.serverId >= sv.serverId
  BY <1>1, Numbers DEF IdsGiven
<1>8. /\ Typed' /\ DownInOrder' /\ UpInOrder' /\ IdsGiven' /\ Basics'
      /\ Lacking => Lacking'
      /\ Commanded => Commanded'
      /\ Downloads => Downloads'
  <2>1. /\ client'.downloadName = client.downloadName
        /\ client'.lastClientCommand = client.lastClientCommand
        /\ client'.lastClientCommandString = client.lastClientCommandString
    BY <1>5 DEF Rest
  <2>2. client'.state = "active" => client'.inWorld
    BY <1>1, <1>5 DEF Basics
  <2>3. QED
    BY <1>3, <1>4, <1>5, <1>6, <1>7, <2>1, <2>2, ServerSays
<1>9. ASSUME ~client.early PROVE Orderly'
  <2>1. Orderly
    BY <1>9 DEF GInv
  <2>2. Told'
    <3>1. CASE client.state = "active"
      <4> DEFINE x == client'.commands[Len(client.commands) + 1]
      <4>1. x.index = "cs" /\ x.value = value /\ "cs" # "systeminfo"
        BY <1>5, <3>1
      <4>2. client'.commands \in Seq(Change)
        BY <1>5 DEF Client
      <4>3. Told
        BY <2>1 DEF Orderly
      <4>4. QED
        BY <1>3, <1>4, <1>5, <3>1, <4>1, <4>2, <4>3, ToldNext
    <3>2. CASE client.state # "active"
      BY <1>5, <3>2 DEF Told, Away
    <3>3. QED
      BY <3>1, <3>2
  <2>3. Untold'
    <3>1. CASE client.state = "active"
      BY <1>5, <3>1 DEF Untold, Away
    <3>2. CASE client.state = "primed"
      <4>2. "cs" \in client'.csUpdated /\ client'.commands = client.commands
        BY <1>5, <3>2
      <4>3. Untold /\ toClient' = toClient /\ toServer' = toServer /\ cl' = cl
        BY <1>3, <2>1 DEF Orderly
      <4>4. QED
        BY <1>4, <1>5, <3>2, <4>2, <4>3 DEF Untold, Away, Map, WillBeTold, IsGamestate
    <3>3. CASE client.state = "connected"
      <4>1. Untold /\ Maps /\ toClient' = toClient /\ toServer' = toServer /\ cl' = cl
        BY <1>3, <2>1 DEF Orderly
      <4>2. /\ cl.serverId # Map
            /\ \A i \in DOMAIN toServer : toServer[i].serverId # Map
            /\ \A i : IsGamestate(i) => toClient[i].values.systeminfo # Map
        BY <1>1, <3>3, <4>1, Numbers, MessageNumbers DEF Maps, Map, IsGamestate
      <4>3. QED
        BY <1>4, <1>5, <3>3, <4>1, <4>2 DEF Untold, Away, Map, IsGamestate
    <3>4. QED
      BY <1>2, <3>1, <3>2, <3>3 DEF Client
  <2>4. Lacking' /\ Commanded' /\ Downloads'
    BY <1>8, <2>1 DEF Orderly
  <2>5. client'.asserted = client.asserted
    BY <1>5 DEF Rest
  <2>6. QED
    BY <1>3, <1>4, <1>5, <1>8, <2>1, <2>2, <2>3, <2>4, <2>5, ServerSaysOrderly DEF Away
<1>10. client'.early = client.early
  BY <1>5 DEF Rest
<1>11. QED
  BY <1>8, <1>9, <1>10 DEF GInv

LEMMA UpdateInfostringsInv ==
  ASSUME GInv, UpdateInfostrings
  PROVE  GInv'
<1> DEFINE value == sv.serverId
<1>1. Typed /\ DownInOrder /\ IdsGiven /\ Basics
  BY DEF GInv
<1>2. value \in Nat /\ client \in Client /\ sv.values \in Values
  BY <1>1, Numbers DEF Typed
<1>3. /\ sv.values.systeminfo # value
      /\ sv' = [sv EXCEPT !.values.systeminfo = value]
      /\ client' = SV_SetConfigstring(client, "systeminfo", value)
      /\ UNCHANGED <<toClient, toServer, cl>>
  BY DEF UpdateInfostrings
<1>4. /\ sv' \in [serverId : Nat, restartedServerId : Nat, restarts : Nat, values : Values]
      /\ sv'.serverId = value /\ sv'.restartedServerId = sv.restartedServerId
      /\ sv'.values.systeminfo = value /\ sv'.values.cs = sv.values.cs
  <2> DEFINE w == [sv.values EXCEPT !.systeminfo = value]
  <2>1. w \in Values /\ w.systeminfo = value /\ w.cs = sv.values.cs
    BY <1>2 DEF Values
  <2>2. sv' = [sv EXCEPT !.values = w]
    BY <1>3
  <2> HIDE DEF w
  <2>3. QED
    BY <1>1, <2>1, <2>2 DEF Typed
<1>5. /\ client' \in Client /\ Rest(client', client) /\ client'.state = client.state
      /\ client'.inWorld = client.inWorld
      /\ Extends(client'.commands, client.commands)
      /\ client.state = "active" =>
           /\ Len(client'.commands) = Len(client.commands) + 1
           /\ client'.commands[Len(client.commands) + 1]
                = [index |-> "systeminfo", value |-> value]
      /\ client.state # "active" => client'.commands = client.commands
  <2>1. "systeminfo" \in Indices
    BY DEF Indices
  <2> HIDE DEF value
  <2>2. QED
    BY <1>2, <1>3, <2>1, SetResult
<1>6. ASSUME NEW k \in Len(client.commands) + 1 .. Len(client'.commands)
      PROVE  client'.commands[k].value <= value
  <2>1. Len(client.commands) \in Nat
    BY <1>1, MessageFields
  <2>2. client.state = "active" /\ k = Len(client.commands) + 1
    BY <1>5, <2>1
  <2>3. client'.commands[k] = [index |-> "systeminfo", value |-> value]
    BY <1>5, <2>2
  <2>4. client'.commands[k].value = value
    BY <2>3
  <2>5. QED
    BY <1>2, <2>4
<1>7. value \in sv.restartedServerId .. sv.serverId /\ sv.serverId >= sv.serverId
  BY <1>1, Numbers DEF IdsGiven
<1>8. /\ Typed' /\ DownInOrder' /\ UpInOrder' /\ IdsGiven' /\ Basics'
      /\ Lacking => Lacking'
      /\ Commanded => Commanded'
      /\ Downloads => Downloads'
  <2>1. /\ client'.downloadName = client.downloadName
        /\ client'.lastClientCommand = client.lastClientCommand
        /\ client'.lastClientCommandString = client.lastClientCommandString
    BY <1>5 DEF Rest
  <2>2. client'.state = "active" => client'.inWorld
    BY <1>1, <1>5 DEF Basics
  <2>3. QED
    BY <1>3, <1>4, <1>5, <1>6, <1>7, <2>1, <2>2, ServerSays
<1>9. ASSUME ~client.early PROVE Orderly'
  <2>1. Orderly
    BY <1>9 DEF GInv
  <2>2. client.state = "active"
    BY <1>1, <1>3, <2>1, Numbers DEF Orderly, World, Away, Map, IdsGiven
  <2>3. Told'
    <3> DEFINE x == client'.commands[Len(client.commands) + 1]
    <3>1. x.index = "systeminfo" /\ x.value = value /\ "cs" # "systeminfo"
      BY <1>5, <2>2
    <3>2. client'.commands \in Seq(Change)
      BY <1>5 DEF Client
    <3>3. Told
      BY <2>1 DEF Orderly
    <3>4. QED
      BY <1>3, <1>4, <1>5, <2>2, <3>1, <3>2, <3>3, ToldNext
  <2>4. Untold'
    BY <1>5, <2>2 DEF Untold, Away
  <2>5. Lacking' /\ Commanded' /\ Downloads'
    BY <1>8, <2>1 DEF Orderly
  <2>6. client'.asserted = client.asserted
    BY <1>5 DEF Rest
  <2>7. QED
    BY <1>3, <1>4, <1>5, <1>8, <2>1, <2>2, <2>3, <2>4, <2>5, <2>6, ServerSaysOrderly DEF Away
<1>10. client'.early = client.early
  BY <1>5 DEF Rest
<1>11. QED
  BY <1>8, <1>9, <1>10 DEF GInv

LEMMA MapRestartInv ==
  ASSUME GInv, SV_MapRestart_f
  PROVE  GInv'
<1> DEFINE N == Len(client.commands)
           changed == sv.values.cs # 0
<1>1. Typed /\ DownInOrder /\ IdsGiven /\ Basics
  BY DEF GInv
<1>2. /\ sv.serverId \in Nat /\ sv.restarts \in Nat /\ sv.values.systeminfo \in Nat
      /\ client \in Client /\ sv.values \in Values
  <2>1. sv.serverId \in Nat /\ sv.values.systeminfo \in Nat
    BY <1>1, Numbers
  <2>2. QED
    BY <1>1, <2>1 DEF Typed
<1>3. /\ sv' = [sv EXCEPT !.serverId = sv.serverId + 1, !.restarts = sv.restarts + 1,
                          !.values.cs = 0]
      /\ UNCHANGED <<toClient, toServer, cl>>
  BY DEF SV_MapRestart_f
<1>4. PICK reset : reset = IF changed THEN SV_SetConfigstring(client, "cs", 0) ELSE client
  OBVIOUS
<1>5. PICK told : told = IF client.state = "connected" THEN reset
                                                       ELSE Command(reset, "map_restart", 0)
  OBVIOUS
<1>6. PICK pre : pre = [told EXCEPT !.inWorld = FALSE,
                                    !.early = told.early \/ client.state # "active"]
  OBVIOUS
<1>7. client' = SV_PlayerEnterWorld(pre, sv'.values)
  BY <1>4, <1>5, <1>6 DEF SV_MapRestart_f
<1>8. /\ sv' \in [serverId : Nat, restartedServerId : Nat, restarts : Nat, values : Values]
      /\ sv'.serverId = sv.serverId + 1 /\ sv'.restartedServerId = sv.restartedServerId
      /\ sv'.values.systeminfo = sv.values.systeminfo /\ sv'.values.cs = 0
      /\ sv'.values \in Values
  <2> DEFINE w == [sv.values EXCEPT !.cs = 0]
             a == sv.serverId + 1
             b == sv.restarts + 1
  <2>1. w \in Values /\ w.systeminfo = sv.values.systeminfo /\ w.cs = 0
    BY <1>2 DEF Values
  <2>2. a \in Nat /\ b \in Nat
    BY <1>2
  <2>3. sv' = [sv EXCEPT !.serverId = a, !.restarts = b, !.values = w]
    BY <1>3
  <2> HIDE DEF w, a, b
  <2>4. /\ sv' \in [serverId : Nat, restartedServerId : Nat, restarts : Nat, values : Values]
        /\ sv'.serverId = a /\ sv'.restartedServerId = sv.restartedServerId /\ sv'.values = w
    BY <1>1, <2>1, <2>2, <2>3 DEF Typed
  <2>5. QED
    BY <2>1, <2>4 DEF a
<1> HIDE DEF changed, N
<1>9. N \in Nat /\ client.commands \in Seq(Change)
  <2>1. client.commands \in Seq(Change)
    BY <1>2 DEF Client
  <2>2. QED
    BY <2>1 DEF N
<1>10. /\ reset \in Client /\ Rest(reset, client) /\ reset.state = client.state
       /\ reset.inWorld = client.inWorld /\ Extends(reset.commands, client.commands)
       /\ changed /\ client.state = "active" =>
            Len(reset.commands) = N + 1 /\ reset.commands[N + 1] = [index |-> "cs", value |-> 0]
       /\ ~(changed /\ client.state = "active") => reset.commands = client.commands
  <2>1. CASE changed
    BY <1>2, <1>4, <2>1, SetResult DEF Indices, N
  <2>2. CASE ~changed
    <3>1. Rest(client, client) /\ Extends(client.commands, client.commands)
      BY <1>9 DEF Rest, Extends
    <3>2. QED
      BY <1>2, <1>4, <2>2, <3>1
  <2>3. QED
    BY <2>1, <2>2
<1> DEFINE M == Len(reset.commands)
<1>11. M \in Nat /\ N <= M /\ reset.commands \in Seq(Change)
  <2>1. reset.commands \in Seq(Change)
    BY <1>10 DEF Client
  <2>2. N <= M
    BY <1>10, Zenon DEF Extends, N
  <2>3. QED
    BY <2>1, <2>2
<1> HIDE DEF M
<1>12. /\ told \in Client /\ Rest(told, client) /\ told.state = client.state
       /\ Extends(told.commands, reset.commands)
       /\ client.state # "connected" =>
            /\ Len(told.commands) = M + 1
            /\ told.commands[M + 1] = [index |-> "map_restart", value |-> 0]
       /\ client.state = "connected" => told.commands = client.commands
  <2>1. CASE client.state = "connected"
    <3>1. told = reset /\ reset.commands = client.commands
      BY <1>5, <1>10, <2>1
    <3>2. Extends(reset.commands, reset.commands)
      BY <1>11 DEF Extends
    <3>3. QED
      BY <1>10, <2>1, <3>1, <3>2
  <2>2. CASE client.state # "connected"
    <3>1. told = Command(reset, "map_restart", 0)
      BY <1>5, <2>2
    <3>2. /\ told \in Client /\ Rest(told, reset) /\ told.state = reset.state
          /\ Len(told.commands) = M + 1 /\ Extends(told.commands, reset.commands)
          /\ told.commands[M + 1] = [index |-> "map_restart", value |-> 0]
      <4>1. "map_restart" \in Indices \cup {"map_restart"} /\ 0 \in Nat /\ reset \in Client
        BY <1>10
      <4>2. /\ told \in Client /\ Rest(told, reset)
            /\ told.state = reset.state
            /\ Len(told.commands) = Len(reset.commands) + 1
            /\ Extends(told.commands, reset.commands)
            /\ told.commands[Len(reset.commands) + 1] = [index |-> "map_restart", value |-> 0]
        BY <3>1, <4>1, CommandResult
      <4>3. QED
        BY <4>2, Zenon DEF M
    <3>3. Rest(told, client)
      BY <1>10, <3>2 DEF Rest
    <3>4. QED
      BY <1>10, <2>2, <3>2, <3>3
  <2>3. QED
    BY <2>1, <2>2
<1>13. told.commands \in Seq(Change) /\ Extends(told.commands, client.commands)
  <2>1. told.commands \in Seq(Change)
    BY <1>12 DEF Client
  <2>2. QED
    BY <1>9, <1>10, <1>11, <1>12, <2>1, ExtendsTwice
<1>14. /\ pre \in Client /\ pre.state = client.state /\ pre.commands = told.commands
       /\ pre.downloadName = client.downloadName
       /\ pre.lastClientCommand = client.lastClientCommand
       /\ pre.lastClientCommandString = client.lastClientCommandString
       /\ pre.asserted = client.asserted
       /\ pre.early = (client.early \/ client.state # "active")
  <2> DEFINE e == told.early \/ client.state # "active"
  <2>1. e \in BOOLEAN
    OBVIOUS
  <2>2. e = (client.early \/ client.state # "active")
    BY <1>12 DEF Rest
  <2>3. pre = [told EXCEPT !.inWorld = FALSE, !.early = e]
    BY <1>6
  <2> HIDE DEF e
  <2>4. pre \in Client /\ pre.early = e
    BY <1>12, <2>1, <2>3 DEF Client
  <2>5. /\ pre.state = told.state /\ pre.commands = told.commands
        /\ pre.downloadName = told.downloadName
        /\ pre.lastClientCommand = told.lastClientCommand
        /\ pre.lastClientCommandString = told.lastClientCommandString
        /\ pre.asserted = told.asserted
    BY <1>12, <2>3 DEF Client
  <2>6. QED
    BY <1>12, <2>2, <2>4, <2>5 DEF Rest
<1>15. /\ client' \in Client /\ Rest(client', pre) /\ client'.inWorld = TRUE
       /\ pre.state # "primed" => client'.state = pre.state /\ client'.commands = pre.commands
       /\ Extends(client'.commands, pre.commands)
       /\ \A k \in Len(pre.commands) + 1 .. Len(client'.commands) :
            client'.commands[k].index = "systeminfo"
              => client'.commands[k].value = sv'.values.systeminfo
  <2>1. pre \in Client /\ sv'.values \in Values
    BY <1>8, <1>14
  <2>2. QED
    BY <1>7, <2>1, EnterResult, Zenon
<1>16. client'.commands \in Seq(Change) /\ Extends(client'.commands, client.commands)
  <2>1. client'.commands \in Seq(Change)
    BY <1>15 DEF Client
  <2>2. QED
    BY <1>9, <1>13, <1>14, <1>15, <2>1, ExtendsTwice
<1>17. ASSUME NEW k \in N + 1 .. Len(client'.commands),
              client'.commands[k].index = "systeminfo"
       PROVE  client'.commands[k].value <= sv'.serverId
  <2>1. Len(told.commands) \in Nat /\ k \in Nat /\ k >= N + 1
    BY <1>9, <1>13
  <2>2. CASE k > Len(told.commands)
    <3>1. client'.commands[k].value = sv'.values.systeminfo
      BY <1>14, <1>15, <1>17, <2>1, <2>2
    <3>2. QED
      BY <1>1, <1>2, <1>8, <3>1 DEF IdsGiven
  <2>3. CASE k <= Len(told.commands)
    <3>1. k \in 1 .. Len(told.commands)
      BY <1>9, <2>1, <2>3
    <3>2. client'.commands[k] = told.commands[k]
      <4>1. pre.commands = told.commands /\ Extends(client'.commands, pre.commands)
        BY <1>14, <1>15
      <4>2. QED
        BY <3>1, <4>1 DEF Extends
    <3>3. k = M + 1 \/ (k \in 1 .. M /\ k = N + 1)
      <4>1. client.state # "connected"
        <5>1. N < Len(told.commands)
          BY <1>9, <2>1, <2>3
        <5>2. QED
          BY <1>9, <1>12, <5>1 DEF N
      <4>2. M = N \/ M = N + 1
        BY <1>9, <1>10, <1>11 DEF M, N
      <4>3. QED
        BY <1>9, <1>11, <1>12, <2>1, <2>3, <4>1, <4>2
    <3>4. CASE k = M + 1
      <4>1. client.state # "connected"
        <5>1. N < Len(told.commands)
          BY <1>9, <2>1, <2>3
        <5>2. QED
          BY <1>9, <1>12, <5>1 DEF N
      <4>2. told.commands[k].index = "map_restart"
        BY <1>12, <3>4, <4>1
      <4>3. QED
        BY <1>17, <3>2, <4>2
    <3>5. CASE k \in 1 .. M /\ k = N + 1
      <4>1. told.commands[k] = reset.commands[k]
        BY <1>12, <3>5, Zenon DEF Extends, M
      <4>2. changed /\ client.state = "active"
        <5>1. M # N
          BY <1>9, <1>11, <3>5
        <5>2. QED
          BY <1>10, <5>1 DEF M, N
      <4>3. told.commands[k].index = "cs"
        BY <1>10, <3>5, <4>1, <4>2
      <4>4. QED
        BY <1>17, <3>2, <4>3
    <3>6. QED
      BY <3>3, <3>4, <3>5
  <2>4. QED
    BY <2>1, <2>2, <2>3
<1>18. /\ sv'.values.systeminfo \in sv.restartedServerId .. sv'.serverId
       /\ sv'.serverId >= sv.serverId
  <2>1. sv.restartedServerId \in Nat
    BY <1>1, Numbers
  <2>2. QED
    BY <1>1, <1>2, <1>8, <2>1 DEF IdsGiven
<1>19. /\ Typed' /\ DownInOrder' /\ UpInOrder' /\ IdsGiven' /\ Basics'
       /\ Lacking => Lacking'
       /\ Commanded => Commanded'
       /\ Downloads => Downloads'
  <2>1. /\ client'.downloadName = client.downloadName
        /\ client'.lastClientCommand = client.lastClientCommand
        /\ client'.lastClientCommandString = client.lastClientCommandString
    BY <1>14, <1>15 DEF Rest
  <2>2. QED
    BY <1>3, <1>8, <1>15, <1>16, <1>17, <1>18, <2>1, ServerSays DEF N
<1>20. ASSUME ~client'.early PROVE Orderly'
  <2>1. ~client.early /\ client.state = "active"
    BY <1>14, <1>15, <1>20 DEF Rest
  <2>2. Orderly
    BY <2>1 DEF GInv
  <2>3. client'.state = "active" /\ client'.commands = told.commands
    BY <1>14, <1>15, <2>1
  <2>4. Told'
    <3>1. ASSUME NEW n \in Nat, NEW cs, NEW id, n <= N, BringsBoth(n, cs, id)
          PROVE  BringsBoth(n, cs, id)'
      <4>1. /\ Brings(client.commands, "cs", n, cs, sv.values.cs)
            /\ Brings(client.commands, "systeminfo", n, id, sv.values.systeminfo)
        BY <3>1 DEF BringsBoth
      <4>2. /\ Brings(reset.commands, "cs", n, cs, 0)
            /\ Brings(reset.commands, "systeminfo", n, id, sv.values.systeminfo)
        <5>1. CASE changed
          <6> DEFINE x == reset.commands[N + 1]
          <6>1. Len(reset.commands) = Len(client.commands) + 1
                /\ x.index = "cs" /\ x.value = 0
            BY <1>10, <2>1, <5>1 DEF N
          <6>2. /\ Brings(reset.commands, "cs", n, cs,
                          IF x.index = "cs" THEN x.value ELSE sv.values.cs)
                /\ Brings(reset.commands, "systeminfo", n, id,
                          IF x.index = "systeminfo" THEN x.value ELSE sv.values.systeminfo)
            <7> HIDE DEF x
            <7>1. x = reset.commands[Len(client.commands) + 1] /\ n <= Len(client.commands)
              BY <3>1 DEF x, N
            <7>2. QED
              BY <1>9, <1>10, <1>11, <3>1, <4>1, <6>1, <7>1, BothMore
          <6>3. QED
            BY <6>1, <6>2
        <5>2. CASE ~changed
          BY <1>10, <4>1, <5>2 DEF changed
        <5>3. QED
          BY <5>1, <5>2
      <4>3. /\ Brings(told.commands, "cs", n, cs, 0)
            /\ Brings(told.commands, "systeminfo", n, id, sv.values.systeminfo)
        <5> DEFINE x == told.commands[M + 1]
        <5>1. Len(told.commands) = M + 1 /\ x.index = "map_restart"
          BY <1>12, <2>1
        <5> HIDE DEF x
        <5>2. x = told.commands[Len(reset.commands) + 1] /\ n <= Len(reset.commands)
              /\ Len(told.commands) = Len(reset.commands) + 1
          BY <1>9, <1>11, <3>1, <5>1 DEF x, M
        <5>3. /\ Brings(told.commands, "cs", n, cs, IF x.index = "cs" THEN x.value ELSE 0)
              /\ Brings(told.commands, "systeminfo", n, id,
                   IF x.index = "systeminfo" THEN x.value ELSE sv.values.systeminfo)
          <6>1. Extends(told.commands, reset.commands)
            BY <1>12
          <6>2. QED
            BY <1>11, <1>13, <3>1, <4>2, <5>2, <6>1, BothMore
        <5>4. QED
          BY <5>1, <5>3
      <4>4. QED
        BY <1>8, <2>3, <4>3 DEF BringsBoth
    <3>2. /\ toClient' = toClient /\ toServer' = toServer /\ cl' = cl /\ From' = From
      BY <1>3 DEF From
    <3>3. Told
      BY <2>2 DEF Orderly
    <3>4. ASSUME NEW i, IsGamestate(i)
          PROVE  /\ toClient[i].values.systeminfo = Map
                 /\ BringsBoth(toClient[i].reliable, toClient[i].values.cs,
                               toClient[i].values.systeminfo)'
      <4>1. /\ toClient[i].values.systeminfo = Map
            /\ BringsBoth(toClient[i].reliable, toClient[i].values.cs,
                          toClient[i].values.systeminfo)
        BY <2>1, <3>3, <3>4 DEF Told, Away
      <4>2. i \in DOMAIN toClient /\ toClient[i].reliable \in Nat
        BY <1>1, <3>4, MessageNumbers DEF IsGamestate
      <4>3. toClient[i].reliable <= N
        BY <1>1, <4>2 DEF DownInOrder, N
      <4>4. QED
        BY <3>1, <3>2, <4>1, <4>2, <4>3
    <3>5. ASSUME ~cl.replayed
          PROVE  BringsBoth(From, cl.cs, cl.serverId)'
      <4>1. BringsBoth(From, cl.cs, cl.serverId)
        BY <2>1, <3>3, <3>5 DEF Told, Away
      <4>2. QED
        BY <1>1, <3>1, <3>2, <4>1, FromBounded DEF N
    <3>6. QED
      BY <1>8, <3>2, <3>4, <3>5 DEF Told, IsGamestate, Map
  <2>5. Untold'
    BY <2>3 DEF Untold, Away
  <2>6. Lacking' /\ Commanded' /\ Downloads'
    BY <1>19, <2>2 DEF Orderly
  <2>7. client'.asserted = client.asserted
    BY <1>14, <1>15 DEF Rest
  <2>8. client'.inWorld = client.inWorld
    BY <1>1, <1>2, <1>15, <2>1 DEF Basics, Client
  <2>9. QED
    BY <1>3, <1>8, <1>19, <2>1, <2>2, <2>3, <2>4, <2>5, <2>6, <2>7, <2>8, ServerSaysOrderly
       DEF Away
<1>21. QED
  BY <1>19, <1>20 DEF GInv

(***************************************************************************)
(* Messages under way.                                                     *)
(***************************************************************************)
LEMMA TailIs ==
  ASSUME NEW S, NEW q \in Seq(S), q # <<>>
  PROVE  /\ Tail(q) \in Seq(S) /\ Len(Tail(q)) = Len(q) - 1
         /\ DOMAIN Tail(q) = 1 .. Len(q) - 1
         /\ \A i \in DOMAIN Tail(q) : i + 1 \in DOMAIN q /\ Tail(q)[i] = q[i + 1]
         /\ Head(q) = q[1] /\ 1 \in DOMAIN q /\ Head(q) \in S
OBVIOUS

\* A message that is no gamestate is sent.
LEMMA ServerSends ==
  ASSUME GInv, NEW m \in Downlink, m.kind # "gamestate", m.reliable = Len(client.commands),
         m.kind = "snapshot" => client.state = "active",
         m.kind = "block" => client.downloadName,
         toClient' = Append(toClient, m), UNCHANGED <<sv, client, toServer, cl>>
  PROVE  GInv'
<1> DEFINE L == Len(toClient)
<1>1. Typed /\ DownInOrder /\ UpInOrder /\ IdsGiven /\ Basics
  BY DEF GInv
<1>2. sv' = sv /\ client' = client /\ toServer' = toServer /\ cl' = cl
  OBVIOUS
<1>3. /\ toClient' \in Seq(Downlink) /\ L \in Nat
      /\ DOMAIN toClient = 1 .. L /\ DOMAIN toClient' = 1 .. L + 1
      /\ \A i \in 1 .. L : toClient'[i] = toClient[i]
      /\ toClient'[L + 1] = m
  <2>1. toClient \in Seq(Downlink)
    BY <1>1 DEF Typed
  <2>2. QED
    BY <2>1
<1> HIDE DEF L
<1>4. Typed'
  BY <1>1, <1>2, <1>3 DEF Typed
<1>5. \A i \in DOMAIN toClient' :
        \/ i \in DOMAIN toClient /\ i \in 1 .. L /\ toClient'[i] = toClient[i]
        \/ i = L + 1 /\ toClient'[i] = m
  BY <1>3
<1>6. \A i : IsGamestate(i)' =>
        /\ IsGamestate(i) /\ i \in DOMAIN toClient /\ i \in 1 .. L
        /\ toClient'[i] = toClient[i]
  BY <1>3, <1>5 DEF IsGamestate
<1>7. Len(client.commands) \in Nat /\ \A i \in DOMAIN toClient : toClient[i].reliable \in Nat
  BY <1>1, MessageFields
<1>8. DownInOrder'
  <2>1. \A i \in DOMAIN toClient' : /\ cl.serverCommandSequence <= toClient'[i].reliable
                                    /\ toClient'[i].reliable <= Len(client.commands)
    BY <1>1, <1>5, <1>7 DEF DownInOrder
  <2>2. ASSUME NEW i \in DOMAIN toClient', NEW j \in DOMAIN toClient', i < j
        PROVE  toClient'[i].reliable <= toClient'[j].reliable
    <3>1. i \in DOMAIN toClient /\ toClient'[i] = toClient[i]
      BY <1>3, <2>2
    <3>2. CASE j \in DOMAIN toClient /\ toClient'[j] = toClient[j]
      BY <1>1, <2>2, <3>1, <3>2 DEF DownInOrder
    <3>3. CASE toClient'[j] = m
      BY <1>1, <3>1, <3>3 DEF DownInOrder
    <3>4. QED
      BY <1>5, <3>2, <3>3
  <2>3. QED
    BY <1>1, <1>2, <2>1, <2>2 DEF DownInOrder
<1>9. UpInOrder' /\ Basics' /\ IdsGiven'
  <2>1. UpInOrder' /\ Basics'
    BY <1>1, <1>2 DEF UpInOrder, Basics
  <2>2. \A i : IsGamestate(i)' => toClient'[i].values.systeminfo <= sv.serverId
    BY <1>1, <1>6 DEF IdsGiven
  <2>3. QED
    BY <1>1, <1>2, <2>1, <2>2 DEF IdsGiven
<1>10. ASSUME ~client.early PROVE Orderly'
  <2>1. /\ World /\ Maps /\ Loaded /\ Lacking /\ Commanded /\ Downloads /\ Told /\ Untold
    BY <1>10 DEF GInv, Orderly
  <2>2. World' /\ Maps'
    <3>1. World'
      BY <1>2, <2>1 DEF World, Away, Map
    <3>2. Maps'
      BY <1>2, <1>6, <2>1 DEF Maps, Away, Map
    <3>3. QED
      BY <3>1, <3>2
  <2>3. Loaded'
    <3>1. ASSUME NEW j \in DOMAIN toClient', toClient'[j].kind = "snapshot"
          PROVE  /\ cl.loaded
                 /\ \A i : IsGamestate(i)' /\ i < j => CanLoad(toClient'[i].values.systeminfo)
      <4>1. CASE j \in DOMAIN toClient /\ toClient'[j] = toClient[j]
        BY <1>6, <2>1, <3>1, <4>1 DEF Loaded
      <4>2. CASE toClient'[j] = m
        <5>1. ~Away
          BY <3>1, <4>2 DEF Away
        <5>2. QED
          BY <1>6, <2>1, <5>1 DEF Loaded
      <4>3. QED
        BY <1>5, <4>1, <4>2
    <3>2. \A i : ~Away /\ IsGamestate(i)' => CanLoad(toClient'[i].values.systeminfo)
      BY <1>6, <2>1 DEF Loaded
    <3>3. \A id : CanLoad(id)' = CanLoad(id)
      BY <1>2 DEF CanLoad
    <3>4. QED
      BY <1>2, <2>1, <3>1, <3>2, <3>3 DEF Loaded, Away, Map
  <2>4. Lacking'
    <3>1. \A id : CanLoad(id)' = CanLoad(id)
      BY <1>2 DEF CanLoad
    <3>2. QED
      BY <1>2, <1>6, <2>1, <3>1 DEF Lacking, Map
  <2>5. Commanded'
    <3>1. client.downloadName => client.lastClientCommand > 0
      <4>1. client.lastClientCommand \in Nat
        BY <1>1, Numbers
      <4>2. client.lastClientCommand = 0 => ~client.downloadName
        BY <2>1, Zenon DEF Commanded, Named
      <4>3. QED
        BY <4>1, <4>2
    <3>2. \A i \in DOMAIN toClient' : toClient'[i].kind = "block" => client.lastClientCommand > 0
      BY <1>5, <2>1, <3>1 DEF Commanded
    <3>3. Commanded
      BY <2>1
    <3>4. \A n : Fetched(n)' = Fetched(n)
      BY <1>2 DEF Fetched
    <3>5. QED
      BY <1>2, <3>2, <3>3, <3>4 DEF Commanded, Named
  <2>6. Downloads'
    <3>1. ASSUME NEW i, IsGamestate(i)', NEW j \in DOMAIN toClient', j < i
          PROVE  j \in DOMAIN toClient /\ toClient'[j] = toClient[j]
      BY <1>3, <1>6, <3>1
    <3>2. QED
      BY <1>2, <1>6, <2>1, <3>1 DEF Downloads, Fetching
  <2>7. Told'
    BY <1>2, <1>6, <2>1 DEF Told, Away, Map, BringsBoth, From
  <2>8. Untold'
    BY <1>2, <1>6, <2>1 DEF Untold, Away, Map, WillBeTold
  <2>9. QED
    BY <2>2, <2>3, <2>4, <2>5, <2>6, <2>7, <2>8 DEF Orderly
<1>11. QED
  BY <1>2, <1>4, <1>8, <1>9, <1>10 DEF GInv

LEMMA MessageResult ==
  ASSUME Typed, NEW kind \in {"gamestate", "snapshot", "nothing", "block"},
         NEW values \in Values, NEW m, m = Message(kind, values)
  PROVE  /\ m \in Downlink /\ m.kind = kind /\ m.values = values
         /\ m.reliable = Len(client.commands)
<1>1. Len(client.commands) \in Nat
  BY MessageFields
<1>2. QED
  BY <1>1 DEF Message, Downlink

LEMMA SendSnapshotInv ==
  ASSUME GInv, SV_SendClientSnapshot
  PROVE  GInv'
<1> DEFINE kind == IF client.state = "active" THEN "snapshot" ELSE "nothing"
           values == [cs |-> 0, systeminfo |-> None]
           m == Message(kind, values)
<1>1. toClient' = Append(toClient, m) /\ UNCHANGED <<sv, client, toServer, cl>>
  BY DEF SV_SendClientSnapshot
<1>2. values \in Values /\ kind \in {"gamestate", "snapshot", "nothing", "block"}
  BY DEF Values, None
<1>3. /\ kind # "gamestate" /\ kind # "block"
      /\ kind = "snapshot" => client.state = "active"
  OBVIOUS
<1> HIDE DEF kind, values
<1>4. m \in Downlink /\ m.kind = kind /\ m.reliable = Len(client.commands)
  BY <1>2, MessageResult DEF GInv
<1> HIDE DEF m
<1>5. QED
  BY <1>1, <1>3, <1>4, ServerSends

LEMMA SendDownloadInv ==
  ASSUME GInv, SV_SendDownloadMessages
  PROVE  GInv'
<1> DEFINE values == [cs |-> 0, systeminfo |-> None]
           m == Message("block", values)
<1>1. /\ toClient' = Append(toClient, m) /\ UNCHANGED <<sv, client, toServer, cl>>
      /\ client.downloadName
  BY DEF SV_SendDownloadMessages
<1>2. values \in Values
  BY DEF Values, None
<1> HIDE DEF values
<1>3. m \in Downlink /\ m.kind = "block" /\ m.reliable = Len(client.commands)
  BY <1>2, MessageResult DEF GInv
<1> HIDE DEF m
<1>4. QED
  BY <1>1, <1>3, ServerSends

\* The first messages under way are no more.
LEMMA FewerMessages ==
  ASSUME GInv, toClient' \in Seq(Downlink), toServer' \in Seq(Uplink),
         NEW a \in Nat, NEW b \in Nat,
         \A i \in DOMAIN toClient' : i + a \in DOMAIN toClient /\ toClient'[i] = toClient[i + a],
         \A i \in DOMAIN toServer' : i + b \in DOMAIN toServer /\ toServer'[i] = toServer[i + b],
         UNCHANGED <<sv, client, cl>>
  PROVE  GInv'
<1>1. Typed /\ DownInOrder /\ UpInOrder /\ IdsGiven /\ Basics
  BY DEF GInv
<1>2. sv' = sv /\ client' = client /\ cl' = cl
  OBVIOUS
<1>3. Typed'
  BY <1>1, <1>2 DEF Typed
<1>4. \A i \in DOMAIN toClient' : i \in Nat
  OBVIOUS
<1>5. \A i \in DOMAIN toServer' : i \in Nat
  OBVIOUS
<1>6. \A i : IsGamestate(i)' =>
        i \in DOMAIN toClient' /\ IsGamestate(i + a) /\ toClient'[i] = toClient[i + a]
  BY DEF IsGamestate
<1>7. DownInOrder'
  BY <1>1, <1>2, <1>4 DEF DownInOrder
<1>8. UpInOrder'
  BY <1>1, <1>2, <1>5 DEF UpInOrder
<1>9. IdsGiven' /\ Basics'
  BY <1>1, <1>2, <1>6 DEF IdsGiven, Basics
<1>10. ASSUME ~client.early PROVE Orderly'
  <2>1. /\ World /\ Maps /\ Loaded /\ Lacking /\ Commanded /\ Downloads /\ Told /\ Untold
    BY <1>10 DEF GInv, Orderly
  <2>2. World' /\ Maps'
    <3>1. World'
      BY <1>2, <2>1 DEF World, Away, Map
    <3>2. \A i, j : IsGamestate(i)' /\ IsGamestate(j)' /\ i < j
                      => toClient'[i].values.systeminfo <= toClient'[j].values.systeminfo
      <4>1. ASSUME NEW i, NEW j, IsGamestate(i)', IsGamestate(j)', i < j
            PROVE  toClient'[i].values.systeminfo <= toClient'[j].values.systeminfo
        <5>1. IsGamestate(i + a) /\ IsGamestate(j + a) /\ i + a < j + a
          BY <1>4, <1>6, <4>1
        <5>2. toClient[i + a].values.systeminfo <= toClient[j + a].values.systeminfo
          BY <2>1, <5>1 DEF Maps
        <5>3. QED
          BY <1>6, <4>1, <5>2
      <4>2. QED
        BY <4>1
    <3>3. \A i : IsGamestate(i)' => toClient'[i].values.systeminfo <= Map
      BY <1>6, <2>1 DEF Maps
    <3>4. client.state = "connected" =>
            /\ \A i \in DOMAIN toServer' : toServer'[i].serverId < Map
            /\ \A i : IsGamestate(i)' => toClient'[i].values.systeminfo < Map
      BY <1>6, <2>1 DEF Maps
    <3>5. Maps'
      BY <1>2, <2>1, <3>2, <3>3, <3>4 DEF Maps, Away, Map
    <3>6. QED
      BY <3>1, <3>5
  <2>3. \A id : CanLoad(id)' = CanLoad(id)
    BY <1>2 DEF CanLoad
  <2>4. Loaded'
    <3>1. ASSUME NEW j \in DOMAIN toClient', toClient'[j].kind = "snapshot"
          PROVE  /\ cl.loaded
                 /\ \A i : IsGamestate(i)' /\ i < j => CanLoad(toClient'[i].values.systeminfo)
      <4>1. j + a \in DOMAIN toClient /\ toClient[j + a].kind = "snapshot"
        BY <3>1
      <4>2. /\ cl.loaded
            /\ \A i : IsGamestate(i) /\ i < j + a => CanLoad(toClient[i].values.systeminfo)
        BY <2>1, <4>1 DEF Loaded
      <4>3. \A i : IsGamestate(i)' /\ i < j => i + a < j + a
        BY <1>4, <1>6, <3>1
      <4>4. QED
        BY <1>6, <4>2, <4>3
    <3>2. /\ \A i : ~Away /\ IsGamestate(i)' => CanLoad(toClient'[i].values.systeminfo)
          /\ Away => \A i \in DOMAIN toServer' :
               toServer'[i].move /\ toServer'[i].serverId = Map => CanLoad(Map) /\ cl.loaded
      BY <1>6, <2>1 DEF Loaded
    <3>3. QED
      BY <1>2, <2>1, <2>3, <3>1, <3>2 DEF Loaded, Away, Map
  <2>5. Lacking'
    <3>1. \A i \in DOMAIN toServer' : toServer'[i].move /\ toServer'[i].commands > 0 => cl.lacks = None
      BY <2>1 DEF Lacking
    <3>2. \A i : IsGamestate(i)' =>
            IsGamestate(i + a) /\ toClient'[i].values = toClient[i + a].values
      BY <1>6
    <3>3. QED
      BY <1>2, <2>1, <2>3, <3>1, <3>2 DEF Lacking, Map
  <2>6. Commanded'
    <3>1. \A i \in DOMAIN toClient' : toClient'[i].kind = "block" => client.lastClientCommand > 0
      BY <2>1 DEF Commanded
    <3>2. QED
      BY <1>2, <2>1, <3>1 DEF Commanded, Named, Fetched
  <2>7. Downloads'
    <3>1. ASSUME Fetching
          PROVE  /\ ~cl.loaded
                 /\ \A i \in DOMAIN toServer' : ~toServer'[i].move
                 /\ \A i : IsGamestate(i)' =>
                      /\ cl.lacks # None
                      /\ \A j \in DOMAIN toClient' : j < i => toClient'[j].kind # "block"
      <4>1. ~cl.loaded /\ \A i \in DOMAIN toServer' : ~toServer'[i].move
        BY <2>1, <3>1 DEF Downloads
      <4>2. ASSUME NEW i, IsGamestate(i)', NEW j \in DOMAIN toClient', j < i
            PROVE  toClient'[j].kind # "block"
        <5>1. IsGamestate(i + a) /\ j + a \in DOMAIN toClient /\ j + a < i + a
          BY <1>4, <1>6, <4>2
        <5>2. toClient[j + a].kind # "block"
          BY <2>1, <3>1, <5>1 DEF Downloads
        <5>3. QED
          BY <5>2
      <4>3. \A i : IsGamestate(i)' => cl.lacks # None
        BY <1>6, <2>1, <3>1 DEF Downloads
      <4>4. QED
        BY <4>1, <4>2, <4>3
    <3>2. Fetching' = Fetching
      BY <1>2 DEF Fetching
    <3>3. QED
      BY <1>2, <3>1, <3>2 DEF Downloads
  <2>8. Told'
    BY <1>2, <1>6, <2>1 DEF Told, Away, Map, BringsBoth, From
  <2>9. Untold'
    <3>1. (\E i \in DOMAIN toServer' : toServer'[i].serverId = Map)
             => \E i \in DOMAIN toServer : toServer[i].serverId = Map
      OBVIOUS
    <3>2. \A i : IsGamestate(i)' =>
            /\ IsGamestate(i + a) /\ toClient'[i].values = toClient[i + a].values
            /\ toClient'[i].reliable = toClient[i + a].reliable
      BY <1>6
    <3>3. ASSUME Away
          PROVE  /\ \A i : IsGamestate(i)' /\ toClient'[i].values.systeminfo = Map =>
                      /\ WillBeTold(toClient'[i].values.cs)
                      /\ toClient'[i].reliable = Len(client.commands)
                 /\ cl.serverId = Map \/ (\E i \in DOMAIN toServer' : toServer'[i].serverId = Map) =>
                      \A i : IsGamestate(i)' => toClient'[i].values.systeminfo = Map
      <4>1. Untold
        BY <2>1
      <4>2. \A i : IsGamestate(i)' /\ toClient'[i].values.systeminfo = Map =>
               WillBeTold(toClient'[i].values.cs) /\ toClient'[i].reliable = Len(client.commands)
        BY <3>2, <3>3, <4>1 DEF Untold
      <4>3. cl.serverId = Map \/ (\E i \in DOMAIN toServer' : toServer'[i].serverId = Map) =>
              \A i : IsGamestate(i)' => toClient'[i].values.systeminfo = Map
        BY <3>1, <3>2, <3>3, <4>1 DEF Untold
      <4>4. QED
        BY <4>2, <4>3
    <3>4. QED
      BY <1>2, <2>1, <3>1, <3>3 DEF Untold, Away, Map, WillBeTold
  <2>10. QED
    BY <2>2, <2>4, <2>5, <2>6, <2>7, <2>8, <2>9 DEF Orderly
<1>11. QED
  BY <1>2, <1>3, <1>7, <1>8, <1>9, <1>10 DEF GInv

LEMMA LoseInv ==
  ASSUME GInv, Lose
  PROVE  GInv'
<1>1. toClient \in Seq(Downlink) /\ toServer \in Seq(Uplink) /\ UNCHANGED <<sv, client, cl>>
  BY DEF Lose, GInv, Typed
<1>2. CASE toClient # <<>> /\ toClient' = Tail(toClient) /\ UNCHANGED toServer
  <2>1. /\ toClient' \in Seq(Downlink)
        /\ \A i \in DOMAIN toClient' : i + 1 \in DOMAIN toClient /\ toClient'[i] = toClient[i + 1]
    BY <1>1, <1>2, TailIs
  <2>2. /\ toServer' \in Seq(Uplink)
        /\ \A i \in DOMAIN toServer' : i + 0 \in DOMAIN toServer /\ toServer'[i] = toServer[i + 0]
    BY <1>1, <1>2
  <2>3. 0 \in Nat /\ 1 \in Nat
    OBVIOUS
  <2>4. QED
    BY <1>1, <2>1, <2>2, <2>3, FewerMessages
<1>3. CASE toServer # <<>> /\ toServer' = Tail(toServer) /\ UNCHANGED toClient
  <2>1. /\ toServer' \in Seq(Uplink)
        /\ \A i \in DOMAIN toServer' : i + 1 \in DOMAIN toServer /\ toServer'[i] = toServer[i + 1]
    BY <1>1, <1>3, TailIs
  <2>2. /\ toClient' \in Seq(Downlink)
        /\ \A i \in DOMAIN toClient' : i + 0 \in DOMAIN toClient /\ toClient'[i] = toClient[i + 0]
    BY <1>1, <1>3
  <2>3. 0 \in Nat /\ 1 \in Nat
    OBVIOUS
  <2>4. QED
    BY <1>1, <2>1, <2>2, <2>3, FewerMessages
<1>4. QED
  BY <1>2, <1>3 DEF Lose

(***************************************************************************)
(* The server takes a packet.                                              *)
(***************************************************************************)
\* What SV_SendClientGameState leaves of a message.
SameDown(m, n) == m.kind = n.kind /\ m.values = n.values /\ m.reliable = n.reliable
SameUp(m, n) == m.serverId = n.serverId /\ m.commands = n.commands /\ m.move = n.move

\* The first packet is taken, the others stay.
Taken ==
  /\ toServer' \in Seq(Uplink)
  /\ \A i \in DOMAIN toServer' : i + 1 \in DOMAIN toServer /\ SameUp(toServer'[i], toServer[i + 1])

\* The messages under way to the client stay but for the first a, and the last one may be
\* a new gamestate.
Kept(a, i) == i + a \in DOMAIN toClient /\ SameDown(toClient'[i], toClient[i + a])

NewGamestate(a, i) ==
  /\ ~Kept(a, i)
  /\ i = Len(toClient') /\ toClient'[i].kind = "gamestate"
  /\ toClient'[i].values = sv.values /\ toClient'[i].reliable = Len(client.commands)

Sent(a) ==
  /\ toClient' \in Seq(Downlink)
  /\ \A i \in DOMAIN toClient' : Kept(a, i) \/ NewGamestate(a, i)

SameSide ==
  /\ cl' \in ClientSide
  /\ cl'.serverId = cl.serverId /\ cl'.cs = cl.cs
  /\ cl'.serverCommandSequence = cl.serverCommandSequence
  /\ cl'.gamestateSequence = cl.gamestateSequence
  /\ cl'.snapshotSequence = cl.snapshotSequence /\ cl'.lastExecuted = cl.lastExecuted
  /\ cl'.commands = cl.commands /\ cl'.lacks = cl.lacks /\ cl'.loaded = cl.loaded
  /\ cl'.downloading = cl.downloading /\ cl'.replayed = cl.replayed /\ cl'.gone = cl.gone

LEMMA TakenPlain ==
  ASSUME Typed, toServer # <<>>, toServer' = Tail(toServer)
  PROVE  Taken
<1>1. toServer \in Seq(Uplink)
  BY DEF Typed
<1>2. QED
  BY <1>1, TailIs DEF Taken, SameUp

LEMMA NothingSent ==
  ASSUME Typed, UNCHANGED <<toClient, cl>>
  PROVE  Sent(0) /\ SameSide
<1>1. toClient \in Seq(Downlink) /\ cl \in ClientSide
  BY DEF Typed
<1>2. Sent(0)
  BY <1>1 DEF Sent, Kept, SameDown
<1>3. SameSide
  BY <1>1 DEF SameSide
<1>4. QED
  BY <1>2, <1>3

LEMMA GamestateSent ==
  ASSUME Typed, toServer # <<>>, SV_SendClientGameState
  PROVE  /\ Taken /\ SameSide
         /\ \E a \in {0, 1} : Sent(a)
<1>1. toClient \in Seq(Downlink) /\ toServer \in Seq(Uplink) /\ cl \in ClientSide
      /\ sv.values \in Values
  BY DEF Typed
<1>2. SameSide
  <2>1. cl' = [cl EXCEPT !.newer = FALSE]
    BY DEF SV_SendClientGameState
  <2>2. QED
    BY <1>1, <2>1 DEF SameSide, ClientSide
<1>3. Taken
  <2> DEFINE t == Tail(toServer)
             u == [i \in DOMAIN t |-> [t[i] EXCEPT !.newer = FALSE]]
  <2>1. /\ t \in Seq(Uplink)
        /\ \A i \in DOMAIN t : i + 1 \in DOMAIN toServer /\ t[i] = toServer[i + 1]
    BY <1>1, TailIs
  <2>2. toServer' = u
    BY DEF SV_SendClientGameState
  <2> HIDE DEF t
  <2>3. \A i \in DOMAIN t : t[i] \in Uplink
    BY <2>1
  <2>4. ASSUME NEW i \in DOMAIN t
        PROVE  [t[i] EXCEPT !.newer = FALSE] \in Uplink
               /\ SameUp([t[i] EXCEPT !.newer = FALSE], t[i])
    BY <2>3 DEF Uplink, SameUp
  <2>5. DOMAIN t = 1 .. Len(t) /\ Len(t) \in Nat
    BY <2>1
  <2>6. u \in Seq(Uplink) /\ DOMAIN u = DOMAIN t
    BY <2>4, <2>5
  <2>7. QED
    BY <2>1, <2>2, <2>4, <2>6 DEF Taken, SameUp
<1>4. Room \in Seq(Downlink)
      /\ \E a \in {0, 1} : \A i \in DOMAIN Room : i + a \in DOMAIN toClient /\ Room[i] = toClient[i + a]
  <2>1. CASE Len(toClient) < MaxToClient
    <3>1. \A i \in DOMAIN toClient : i + 0 \in DOMAIN toClient /\ toClient[i] = toClient[i + 0]
      BY <1>1
    <3>2. QED
      BY <1>1, <2>1, <3>1 DEF Room
  <2>2. CASE ~(Len(toClient) < MaxToClient)
    <3>1. toClient # <<>>
      BY <1>1, <2>2, BoundAssumption
    <3>2. /\ Tail(toClient) \in Seq(Downlink)
          /\ \A i \in DOMAIN Tail(toClient) :
               i + 1 \in DOMAIN toClient /\ Tail(toClient)[i] = toClient[i + 1]
      BY <1>1, <3>1, TailIs
    <3>3. QED
      BY <2>2, <3>2 DEF Room
  <2>3. QED
    BY <2>1, <2>2
<1>5. PICK a \in {0, 1} :
        \A i \in DOMAIN Room : i + a \in DOMAIN toClient /\ Room[i] = toClient[i + a]
  BY <1>4
<1>6. Sent(a)
  <2> DEFINE R == Room
  <2>1. PICK n \in 0 .. Len(R) :
          toClient' = [i \in DOMAIN R |-> [R[i] EXCEPT !.newer = i > Len(R) - n + 1]]
                      \o <<[Message("gamestate", sv.values) EXCEPT !.newer = n > 0]>>
    BY DEF SV_SendClientGameState
  <2> DEFINE old == [i \in DOMAIN R |-> [R[i] EXCEPT !.newer = i > Len(R) - n + 1]]
             new == [Message("gamestate", sv.values) EXCEPT !.newer = n > 0]
  <2>2. /\ R \in Seq(Downlink) /\ Len(R) \in Nat /\ DOMAIN R = 1 .. Len(R)
        /\ \A i \in DOMAIN R : R[i] \in Downlink
        /\ \A i \in DOMAIN R : i + a \in DOMAIN toClient /\ R[i] = toClient[i + a]
    <3>1. R \in Seq(Downlink)
      BY <1>4
    <3>2. \A i \in DOMAIN R : i + a \in DOMAIN toClient /\ R[i] = toClient[i + a]
      BY <1>5
    <3> HIDE DEF R
    <3>3. QED
      BY <3>1, <3>2
  <2> HIDE DEF R
  <2>3. ASSUME NEW i \in DOMAIN R
        PROVE  old[i] \in Downlink /\ SameDown(old[i], R[i])
    <3> DEFINE b == i > Len(R) - n + 1
    <3>1. old[i] = [R[i] EXCEPT !.newer = b] /\ b \in BOOLEAN
      OBVIOUS
    <3> HIDE DEF b, old
    <3>2. R[i] \in Downlink
      BY <2>2
    <3>3. QED
      BY <3>1, <3>2 DEF Downlink, SameDown
  <2>4. old \in Seq(Downlink) /\ Len(old) = Len(R)
    <3>1. \A i \in DOMAIN R : old[i] \in Downlink
      BY <2>3
    <3>2. DOMAIN old = 1 .. Len(R) /\ old = [i \in 1 .. Len(R) |-> old[i]]
      BY <2>2
    <3> HIDE DEF old
    <3>3. QED
      BY <2>2, <3>1, <3>2
  <2>5. new \in Downlink /\ new.kind = "gamestate" /\ new.values = sv.values
        /\ new.reliable = Len(client.commands)
    <3> DEFINE g == Message("gamestate", sv.values)
               b == n > 0
    <3>1. "gamestate" \in {"gamestate", "snapshot", "nothing", "block"}
      OBVIOUS
    <3>2. g \in Downlink /\ g.kind = "gamestate" /\ g.values = sv.values
          /\ g.reliable = Len(client.commands)
      BY <1>1, <3>1, MessageResult
    <3>3. new = [g EXCEPT !.newer = b] /\ b \in BOOLEAN
      OBVIOUS
    <3> HIDE DEF g, b, new
    <3>4. QED
      BY <3>2, <3>3 DEF Downlink
  <2>6. toClient' = old \o <<new>>
    BY <2>1
  <2> HIDE DEF old, new
  <2>7. /\ toClient' \in Seq(Downlink) /\ Len(toClient') = Len(R) + 1
        /\ \A i \in 1 .. Len(R) : toClient'[i] = old[i]
        /\ toClient'[Len(R) + 1] = new
    <3>1. Len(R) \in Nat /\ Len(old) = Len(R) /\ old \in Seq(Downlink)
      BY <2>2, <2>4
    <3>2. new \in Downlink
      BY <2>5
    <3>3. QED
      BY <2>6, <3>1, <3>2
  <2>8. ASSUME NEW i \in DOMAIN toClient'
        PROVE  Kept(a, i) \/ NewGamestate(a, i)
    <3>1. i \in 1 .. Len(R) \/ i = Len(R) + 1
      BY <2>2, <2>7
    <3>2. CASE i \in 1 .. Len(R)
      BY <2>2, <2>3, <2>7, <3>2 DEF Kept, SameDown
    <3>3. CASE i = Len(R) + 1
      BY <2>5, <2>7, <3>3 DEF NewGamestate
    <3>4. QED
      BY <3>1, <3>2, <3>3
  <2>9. QED
    BY <2>7, <2>8 DEF Sent
<1>7. QED
  BY <1>2, <1>3, <1>5, <1>6

\* What holds with or without an early map_restart, when the server has taken a packet.
LEMMA TakenInv ==
  ASSUME GInv, Taken, SameSide, NEW a \in Nat, Sent(a), sv' = sv,
         client' \in Client, toServer # <<>>,
         client'.lastClientCommand \in {client.lastClientCommand, Head(toServer).commands},
         client'.state = "active" => client'.inWorld,
         Extends(client'.commands, client.commands),
         \A k \in Len(client.commands) + 1 .. Len(client'.commands) :
           client'.commands[k].index = "systeminfo"
             => client'.commands[k].value = sv.values.systeminfo
  PROVE  Typed' /\ DownInOrder' /\ UpInOrder' /\ IdsGiven' /\ Basics'
<1>1. Typed /\ DownInOrder /\ UpInOrder /\ IdsGiven /\ Basics
  BY DEF GInv
<1>2. Typed'
  BY <1>1 DEF Typed, Taken, Sent, SameSide
<1>3. /\ Len(client.commands) \in Nat /\ Len(client'.commands) \in Nat
      /\ Len(client.commands) <= Len(client'.commands)
      /\ DOMAIN client'.commands = 1 .. Len(client'.commands)
      /\ DOMAIN client.commands = 1 .. Len(client.commands)
  <2>1. client.commands \in Seq(Change)
    BY <1>1 DEF Typed, Client
  <2>2. client'.commands \in Seq(Change)
    BY DEF Client
  <2>3. Len(client.commands) <= Len(client'.commands)
    BY Zenon DEF Extends
  <2>4. QED
    BY <2>1, <2>2, <2>3
<1>4. \A i \in DOMAIN toClient' : i \in Nat /\ i <= Len(toClient')
  BY DEF Sent
<1>5. \A i \in DOMAIN toServer' : i \in Nat
  BY DEF Taken
<1>6. \A i \in DOMAIN toClient : toClient[i].reliable \in Nat
  BY <1>1, MessageNumbers
<1>7. ASSUME NEW i \in DOMAIN toClient'
      PROVE  /\ cl.serverCommandSequence <= toClient'[i].reliable
             /\ toClient'[i].reliable <= Len(client.commands)
             /\ toClient'[i].reliable \in Nat
  <2>1. CASE Kept(a, i)
    BY <1>1, <1>6, <2>1 DEF Kept, SameDown, DownInOrder
  <2>2. CASE NewGamestate(a, i)
    BY <1>1, <1>3, <2>2 DEF NewGamestate, DownInOrder
  <2>3. QED
    BY <2>1, <2>2 DEF Sent
<1>8. ASSUME NEW i \in DOMAIN toClient', NEW j \in DOMAIN toClient', i < j
      PROVE  toClient'[i].reliable <= toClient'[j].reliable
  <2>1. Kept(a, i)
    BY <1>4, <1>8 DEF Sent, NewGamestate
  <2>2. CASE Kept(a, j)
    <3>1. i + a < j + a
      BY <1>4, <1>8
    <3>2. QED
      BY <1>1, <2>1, <2>2, <3>1 DEF Kept, SameDown, DownInOrder
  <2>3. CASE NewGamestate(a, j)
    BY <1>7, <2>3 DEF NewGamestate
  <2>4. QED
    BY <2>2, <2>3 DEF Sent
<1>9. DownInOrder'
  <2>1. /\ cl.lastExecuted <= cl.serverCommandSequence
        /\ cl.snapshotSequence <= cl.serverCommandSequence
        /\ cl.gamestateSequence <= cl.serverCommandSequence
        /\ cl.serverCommandSequence <= Len(client'.commands)
    <3>1. cl.serverCommandSequence \in Nat
      BY <1>1, Numbers
    <3>2. QED
      BY <1>1, <1>3, <3>1 DEF DownInOrder
  <2>2. \A i \in DOMAIN toClient' : toClient'[i].reliable <= Len(client'.commands)
    BY <1>3, <1>7
  <2>3. QED
    BY <1>7, <1>8, <2>1, <2>2 DEF DownInOrder, SameSide
<1>10. UpInOrder'
  <2>1. /\ Head(toServer) = toServer[1] /\ 1 \in DOMAIN toServer
    BY <1>1, TailIs DEF Typed
  <2>2. \A i \in DOMAIN toServer : toServer[i].commands \in Nat
    BY <1>1, MessageNumbers
  <2>3. client'.lastClientCommand <= Len(cl.commands)
    BY <1>1, <2>1 DEF UpInOrder
  <2>4. ASSUME NEW i \in DOMAIN toServer'
        PROVE  /\ client'.lastClientCommand <= toServer'[i].commands
               /\ toServer'[i].commands <= Len(cl.commands)
    <3>1. i + 1 \in DOMAIN toServer /\ toServer'[i].commands = toServer[i + 1].commands
          /\ 1 < i + 1
      <4>1. i \in 1 .. Len(toServer')
        BY DEF Taken
      <4>2. QED
        BY <4>1 DEF Taken, SameUp
    <3>2. /\ toServer[1].commands <= toServer[i + 1].commands
          /\ client.lastClientCommand <= toServer[i + 1].commands
          /\ toServer[i + 1].commands <= Len(cl.commands)
      BY <1>1, <2>1, <3>1 DEF UpInOrder
    <3>3. QED
      BY <2>1, <3>1, <3>2
  <2>5. ASSUME NEW i \in DOMAIN toServer', NEW j \in DOMAIN toServer', i < j
        PROVE  toServer'[i].commands <= toServer'[j].commands
    <3>1. /\ i + 1 \in DOMAIN toServer /\ toServer'[i].commands = toServer[i + 1].commands
          /\ j + 1 \in DOMAIN toServer /\ toServer'[j].commands = toServer[j + 1].commands
          /\ i + 1 < j + 1
      BY <1>5, <2>5 DEF Taken, SameUp
    <3>2. QED
      BY <1>1, <3>1 DEF UpInOrder
  <2>6. QED
    BY <2>3, <2>4, <2>5 DEF UpInOrder, SameSide
<1>11. IdsGiven'
  <2>1. sv.values.systeminfo <= sv.serverId /\ sv.restartedServerId <= sv.values.systeminfo
        /\ cl.serverId <= sv.serverId
    BY <1>1 DEF IdsGiven
  <2>2. \A i \in DOMAIN toServer' : toServer'[i].serverId <= sv.serverId
    BY <1>1 DEF IdsGiven, Taken, SameUp
  <2>3. ASSUME NEW i, IsGamestate(i)'
        PROVE  toClient'[i].values.systeminfo <= sv.serverId
    <3>1. i \in DOMAIN toClient' /\ toClient'[i].kind = "gamestate"
      BY <2>3 DEF IsGamestate
    <3>2. CASE Kept(a, i)
      BY <1>1, <3>1, <3>2 DEF Kept, SameDown, IdsGiven, IsGamestate
    <3>3. CASE NewGamestate(a, i)
      BY <2>1, <3>3 DEF NewGamestate
    <3>4. QED
      BY <3>1, <3>2, <3>3 DEF Sent
  <2>4. ASSUME NEW k \in DOMAIN client'.commands, client'.commands[k].index = "systeminfo"
        PROVE  client'.commands[k].value <= sv.serverId
    <3>1. CASE k \in Len(client.commands) + 1 .. Len(client'.commands)
      BY <2>1, <2>4, <3>1
    <3>2. CASE k \in 1 .. Len(client.commands)
      <4>1. client'.commands[k] = client.commands[k]
        BY <3>2, Zenon DEF Extends
      <4>2. QED
        BY <1>1, <1>3, <2>4, <3>2, <4>1 DEF IdsGiven
    <3>3. QED
      BY <1>3, <3>1, <3>2
  <2>5. QED
    BY <2>1, <2>2, <2>3, <2>4 DEF IdsGiven, SameSide
<1>12. Basics'
  BY <1>1 DEF Basics, SameSide
<1>13. QED
  BY <1>2, <1>9, <1>10, <1>11, <1>12

LEMMA PartOf ==
  ASSUME NEW S, NEW q \in Seq(S), NEW k \in Nat, NEW e \in Nat, k <= e, e <= Len(q)
  PROVE  /\ SubSeq(q, k + 1, e) \in Seq(S) /\ Len(SubSeq(q, k + 1, e)) = e - k
         /\ \A j \in 1 .. Len(SubSeq(q, k + 1, e)) : SubSeq(q, k + 1, e)[j] = q[k + j]
<1>1. Len(q) \in Nat /\ \A i \in 1 .. Len(q) : q[i] \in S
  OBVIOUS
<1>2. \A i \in k + 1 .. e : q[i] \in S
  BY <1>1
<1>3. SubSeq(q, k + 1, e) \in Seq(S)
  BY <1>1, <1>2
<1>4. Len(SubSeq(q, k + 1, e)) = e - k
  BY <1>1, <1>2
<1>5. \A j \in 1 .. e - k : SubSeq(q, k + 1, e)[j] = q[k + j]
  BY <1>1, <1>2
<1>6. QED
  BY <1>3, <1>4, <1>5

\* The first packet's commands: those after number Had, up to number Sends.
Had == client.lastClientCommand
Sends == Head(toServer).commands
Names == SubSeq(cl.commands, Had + 1, Sends)
Done == FoldLeft(DownloadCommand, client, Names)

LEMMA PacketNames ==
  ASSUME Typed, UpInOrder, toServer # <<>>
  PROVE  /\ Head(toServer) \in Uplink /\ Head(toServer) = toServer[1] /\ 1 \in DOMAIN toServer
         /\ Had \in Nat /\ Sends \in Nat /\ Len(cl.commands) \in Nat
         /\ Had <= Sends /\ Sends <= Len(cl.commands)
         /\ Names \in Seq(DownloadName) /\ Len(Names) = Sends - Had
         /\ \A j \in 1 .. Len(Names) : Names[j] = cl.commands[Had + j]
<1>1. toServer \in Seq(Uplink) /\ cl.commands \in Seq(DownloadName)
  BY DEF Typed, ClientSide
<1>2. Head(toServer) \in Uplink /\ Head(toServer) = toServer[1] /\ 1 \in DOMAIN toServer
  BY <1>1, TailIs
<1>3. Had \in Nat /\ Sends \in Nat
  <2>1. Had \in Nat
    BY Numbers DEF Had
  <2>2. QED
    BY <1>2, <2>1 DEF Uplink, Sends
<1>4. Had <= Sends /\ Sends <= Len(cl.commands)
  BY <1>2 DEF UpInOrder, Had, Sends
<1>5. /\ Names \in Seq(DownloadName) /\ Len(Names) = Sends - Had
      /\ \A j \in 1 .. Len(Names) : Names[j] = cl.commands[Had + j]
  BY <1>1, <1>3, <1>4, PartOf DEF Names
<1>6. Len(cl.commands) \in Nat
  BY <1>1
<1>7. QED
  BY <1>2, <1>3, <1>4, <1>5, <1>6

LEMMA UserMoveResult ==
  ASSUME Typed, NEW c \in Client, NEW d, d = SV_UserMove(c),
         c.state = "active" => c.inWorld
  PROVE  /\ d \in Client /\ d.downloadName = c.downloadName
         /\ d.lastClientCommand = c.lastClientCommand
         /\ d.lastClientCommandString = c.lastClientCommandString /\ d.early = c.early
         /\ d.inWorld = TRUE
         /\ d.asserted = (c.asserted \/ d.state # "active")
         /\ Extends(d.commands, c.commands)
         /\ \A k \in Len(c.commands) + 1 .. Len(d.commands) :
              d.commands[k].index = "systeminfo" => d.commands[k].value = sv.values.systeminfo
         /\ c.state = "active" => d.state = c.state /\ d.commands = c.commands
         /\ c.state = "primed" /\ ~c.inWorld =>
              /\ d.state = "active"
              /\ Brings(d.commands, "systeminfo", Len(c.commands), sv.values.systeminfo,
                        sv.values.systeminfo)
              /\ \A v : v = sv.values.cs \/ "cs" \in c.csUpdated =>
                   Brings(d.commands, "cs", Len(c.commands), v, sv.values.cs)
<1>1. PICK entered : entered = IF ~c.inWorld THEN SV_PlayerEnterWorld(c, sv.values) ELSE c
  OBVIOUS
<1> DEFINE b == entered.asserted \/ entered.state # "active"
<1>2. d = [entered EXCEPT !.asserted = b]
  BY <1>1 DEF SV_UserMove
<1>3. b \in BOOLEAN /\ sv.values \in Values /\ c.inWorld \in BOOLEAN
  BY DEF Typed, Client
<1> HIDE DEF b
<1>4. /\ entered \in Client /\ Rest(entered, c) /\ entered.inWorld = TRUE
      /\ Extends(entered.commands, c.commands)
      /\ \A k \in Len(c.commands) + 1 .. Len(entered.commands) :
           entered.commands[k].index = "systeminfo"
             => entered.commands[k].value = sv.values.systeminfo
      /\ c.state = "active" => entered.state = c.state /\ entered.commands = c.commands
      /\ c.state = "primed" /\ ~c.inWorld =>
           /\ entered.state = "active"
           /\ Brings(entered.commands, "systeminfo", Len(c.commands), sv.values.systeminfo,
                     sv.values.systeminfo)
           /\ \A v : v = sv.values.cs \/ "cs" \in c.csUpdated =>
                Brings(entered.commands, "cs", Len(c.commands), v, sv.values.cs)
  <2>1. CASE ~c.inWorld
    <3>1. entered = SV_PlayerEnterWorld(c, sv.values)
      BY <1>1, <2>1
    <3>2. /\ entered \in Client /\ Rest(entered, c) /\ entered.inWorld = TRUE
          /\ c.state = "primed" => entered.state = "active"
          /\ Extends(entered.commands, c.commands)
          /\ \A k \in Len(c.commands) + 1 .. Len(entered.commands) :
               entered.commands[k].index = "systeminfo"
                 => entered.commands[k].value = sv.values.systeminfo
          /\ c.state = "primed" =>
               /\ Brings(entered.commands, "systeminfo", Len(c.commands), sv.values.systeminfo,
                         sv.values.systeminfo)
               /\ \A v : v = sv.values.cs \/ "cs" \in c.csUpdated =>
                    Brings(entered.commands, "cs", Len(c.commands), v, sv.values.cs)
      BY <1>3, <3>1, EnterResult
    <3>3. c.state # "active"
      BY <2>1
    <3>4. QED
      BY <3>2, <3>3
  <2>2. CASE c.inWorld
    <3>1. entered = c /\ c.inWorld = TRUE
      BY <1>1, <1>3, <2>2
    <3>2. Len(c.commands) \in Nat /\ Rest(c, c) /\ Extends(c.commands, c.commands)
      <4>1. c.commands \in Seq(Change)
        BY DEF Client
      <4>2. QED
        BY <4>1 DEF Rest, Extends
    <3>3. \A k \in Len(c.commands) + 1 .. Len(c.commands) : FALSE
      BY <3>2
    <3>4. QED
      BY <3>1, <3>2, <3>3
  <2>3. QED
    BY <2>1, <2>2
<1>5. /\ d \in Client /\ Rest(entered, c) /\ d.state = entered.state
      /\ d.inWorld = entered.inWorld /\ d.commands = entered.commands
      /\ d.downloadName = entered.downloadName
      /\ d.lastClientCommand = entered.lastClientCommand
      /\ d.lastClientCommandString = entered.lastClientCommandString
      /\ d.early = entered.early /\ d.asserted = b
  BY <1>2, <1>3, <1>4 DEF Client
<1>6. d.asserted = (c.asserted \/ d.state # "active")
  BY <1>4, <1>5 DEF Rest, b
<1>7. /\ d.downloadName = c.downloadName /\ d.lastClientCommand = c.lastClientCommand
      /\ d.lastClientCommandString = c.lastClientCommandString /\ d.early = c.early
  BY <1>4, <1>5 DEF Rest
<1>8. QED
  BY <1>4, <1>5, <1>6, <1>7

LEMMA DoneResult ==
  ASSUME Typed, UpInOrder, toServer # <<>>
  PROVE  /\ Done \in Client
         /\ Done.state = client.state /\ Done.inWorld = client.inWorld
         /\ Done.csUpdated = client.csUpdated /\ Done.commands = client.commands
         /\ Done.early = client.early /\ Done.asserted = client.asserted
         /\ Done.lastClientCommand = Sends
         /\ Sends = Had => Done = client
         /\ Sends > Had =>
              LET name == cl.commands[Sends]
              IN  /\ Done.lastClientCommandString = name
                  /\ name # "donedl" => Done.downloadName = (name = "download")
                  /\ name = "donedl" =>
                       \/ Sends = Had + 1 /\ Done.downloadName = client.downloadName
                       \/ /\ Sends > Had + 1
                          /\ cl.commands[Sends - 1] # "donedl" =>
                               Done.downloadName = (cl.commands[Sends - 1] = "download")
<1> DEFINE N == Len(Names)
<1>1. /\ Had \in Nat /\ Sends \in Nat /\ Had <= Sends /\ Names \in Seq(DownloadName) /\ N = Sends - Had
      /\ \A j \in 1 .. N : Names[j] = cl.commands[Had + j]
  BY PacketNames
<1>2. client \in Client
  BY DEF Typed
<1>3. /\ Done \in Client
      /\ Done.state = client.state /\ Done.inWorld = client.inWorld
      /\ Done.csUpdated = client.csUpdated
      /\ Done.commands = client.commands /\ Done.early = client.early
      /\ Done.asserted = client.asserted
      /\ Done.lastClientCommand = client.lastClientCommand + N
      /\ N = 0 => Done = client
      /\ N > 0 =>
           LET name == Names[N]
           IN  /\ Done.lastClientCommandString = name
               /\ name # "donedl" => Done.downloadName = (name = "download")
               /\ name = "donedl" =>
                    \/ N = 1 /\ Done.downloadName = client.downloadName
                    \/ /\ N > 1
                       /\ Names[N - 1] # "donedl" =>
                            Done.downloadName = (Names[N - 1] = "download")
  BY <1>1, <1>2, Executed DEF Done
<1> HIDE DEF N
<1>4. Done.lastClientCommand = Sends
  BY <1>1, <1>3 DEF Had
<1>5. Sends = Had => Done = client
  BY <1>1, <1>3
<1>6. Sends > Had => N > 0 /\ Names[N] = cl.commands[Sends]
  BY <1>1
<1>7. /\ N = 1 => Sends = Had + 1
      /\ N > 1 => Sends > Had + 1 /\ Names[N - 1] = cl.commands[Sends - 1]
  <2>1. N > 1 => N - 1 \in 1 .. N /\ Had + (N - 1) = Sends - 1
    BY <1>1
  <2>2. QED
    BY <1>1, <2>1
<1>8. Sends > Had =>
        LET name == cl.commands[Sends]
        IN  /\ Done.lastClientCommandString = name
            /\ name # "donedl" => Done.downloadName = (name = "download")
            /\ name = "donedl" =>
                 \/ Sends = Had + 1 /\ Done.downloadName = client.downloadName
                 \/ /\ Sends > Had + 1
                    /\ cl.commands[Sends - 1] # "donedl" =>
                         Done.downloadName = (cl.commands[Sends - 1] = "download")
  <2>1. ASSUME Sends > Had
        PROVE  /\ Done.lastClientCommandString = cl.commands[Sends]
               /\ cl.commands[Sends] # "donedl" => Done.downloadName = (cl.commands[Sends] = "download")
               /\ cl.commands[Sends] = "donedl" =>
                    \/ Sends = Had + 1 /\ Done.downloadName = client.downloadName
                    \/ /\ Sends > Had + 1
                       /\ cl.commands[Sends - 1] # "donedl" =>
                            Done.downloadName = (cl.commands[Sends - 1] = "download")
    BY ONLY <1>3, <1>6, <1>7, <2>1, Zenon
  <2>2. QED
    BY <2>1
<1>9. QED
  BY <1>3, <1>4, <1>5, <1>8, Zenon

\* Whether a client downloads is seen from the command executed last.
LEMMA FetchingIs ==
  ASSUME Typed, Commanded
  PROVE  Fetching <=> /\ client.lastClientCommand > 0
                      /\ cl.commands[client.lastClientCommand] \in {"download", "nextdl"}
<1>1. client.lastClientCommand \in Nat
  BY Numbers
<1>2. CASE client.lastClientCommand = 0
  <2>1. client.lastClientCommandString = "" /\ ~client.downloadName
    BY <1>2, Zenon DEF Commanded, Named, Had
  <2>2. ~Fetching
    BY <2>1 DEF Fetching
  <2>3. QED
    BY <1>2, <2>2
<1>3. CASE client.lastClientCommand # 0
  <2>1. LET name == cl.commands[client.lastClientCommand]
        IN  client.lastClientCommandString = name /\ client.downloadName = (name = "download")
    BY <1>3, Zenon DEF Commanded, Named, Had
  <2>2. Fetching <=> cl.commands[client.lastClientCommand] \in {"download", "nextdl"}
    BY <2>1 DEF Fetching
  <2>3. QED
    BY <1>1, <1>3, <2>2
<1>4. QED
  BY <1>2, <1>3

\* A packet's commands keep the record of the last one.  They begin a download only for
\* a client that lacks the file and has asked for nothing before, and "donedl" ends one.
LEMMA DoneOrderly ==
  ASSUME Typed, UpInOrder, Lacking, Commanded,
         toServer # <<>>
  PROVE  /\ Named(Done)
         /\ Done.downloadName \/ Done.lastClientCommandString = "nextdl"
              => Fetching \/ (Had = 0 /\ Sends > 0 /\ cl.lacks # None)
         /\ (\E i \in DOMAIN Names : Names[i] = "donedl") =>
              Fetching /\ ~Done.downloadName /\ Done.lastClientCommandString # "nextdl"
<1>1. /\ Had \in Nat /\ Sends \in Nat /\ Had <= Sends /\ Sends <= Len(cl.commands) /\ Len(cl.commands) \in Nat
      /\ Names \in Seq(DownloadName) /\ Len(Names) = Sends - Had
      /\ \A j \in 1 .. Len(Names) : Names[j] = cl.commands[Had + j]
  BY PacketNames
<1>2. /\ Done.lastClientCommand = Sends
      /\ Sends = Had => Done = client
      /\ Sends > Had =>
           LET name == cl.commands[Sends]
           IN  /\ Done.lastClientCommandString = name
               /\ name # "donedl" => Done.downloadName = (name = "download")
               /\ name = "donedl" =>
                    \/ Sends = Had + 1 /\ Done.downloadName = client.downloadName
                    \/ /\ Sends > Had + 1
                       /\ cl.commands[Sends - 1] # "donedl" =>
                            Done.downloadName = (cl.commands[Sends - 1] = "download")
  BY DoneResult
<1>3. DOMAIN cl.commands = 1 .. Len(cl.commands) /\ DOMAIN Names = 1 .. Sends - Had
  <2>1. DOMAIN cl.commands = 1 .. Len(cl.commands)
    BY DEF Typed, ClientSide
  <2>2. QED
    BY <1>1, <2>1
<1>4. Fetching <=> Had > 0 /\ cl.commands[Had] \in {"download", "nextdl"}
  BY FetchingIs DEF Had
<1>5. CASE Sends = Had
  <2>1. Done = client
    BY <1>2, <1>5
  <2>2. ~\E i \in DOMAIN Names : Names[i] = "donedl"
    BY <1>1, <1>3, <1>5
  <2>3. Named(Done)
    BY <2>1, Zenon DEF Commanded
  <2>4. Done.downloadName \/ Done.lastClientCommandString = "nextdl" => Fetching
    BY <2>1 DEF Fetching
  <2>5. QED
    BY <2>2, <2>3, <2>4, Zenon
<1>6. CASE Sends > Had
  <2>1. Sends # 0 /\ Sends > 0 /\ cl.commands # <<>> /\ Sends \in DOMAIN cl.commands
    <3>1. Sends \in 1 .. Len(cl.commands)
      BY <1>1, <1>6
    <3>2. QED
      BY <1>1, <1>3, <1>6, <3>1
  <2>2. Done.lastClientCommandString = cl.commands[Sends]
    BY <1>2, <1>6
  <2>3. CASE cl.lacks # None
    <3>1. \A i \in DOMAIN cl.commands : cl.commands[i] = "download"
      BY <2>1, <2>3 DEF Lacking
    <3>2. cl.commands[Sends] = "download"
      BY <2>1, <3>1
    <3>3. Done.downloadName = (cl.commands[Sends] = "download")
      BY <1>2, <1>6, <3>2
    <3>4. ~\E i \in DOMAIN Names : Names[i] = "donedl"
      <4>1. ASSUME NEW i \in DOMAIN Names PROVE Names[i] = "download"
        <5>1. Had + i \in DOMAIN cl.commands /\ Names[i] = cl.commands[Had + i]
          BY <1>1, <1>3
        <5>2. QED
          BY <3>1, <5>1
      <4>2. QED
        BY <4>1
    <3>5. Fetching \/ Had = 0
      <4>1. Had # 0 => Had \in DOMAIN cl.commands
        BY <1>1, <1>3
      <4>2. QED
        BY <1>1, <1>4, <3>1, <4>1
    <3>6. Named(Done)
      BY <1>2, <2>1, <2>2, <3>3 DEF Named
    <3>7. QED
      BY <2>1, <2>2, <2>3, <3>4, <3>5, <3>6
  <2>4. CASE cl.lacks = None
    <3>1. Had > 0 /\ \E n \in Nat : Fetched(n)
      BY <2>1, <2>4 DEF Commanded, Had
    <3>2. PICK n \in Nat : Fetched(n)
      BY <3>1
    <3>3. /\ n \in DOMAIN cl.commands /\ n >= 3
          /\ \A i \in DOMAIN cl.commands :
               /\ i < n - 1 => cl.commands[i] = "download"
               /\ i = n - 1 => cl.commands[i] = "nextdl"
               /\ i = n => cl.commands[i] = "donedl"
               /\ i > n => cl.commands[i] = "stopdl"
      BY <1>3, <3>2 DEF Fetched
    <3>4. Had \in DOMAIN cl.commands
      BY <1>1, <1>3, <3>1
    <3>5. Done.downloadName = (cl.commands[Sends] = "download")
      <4>1. CASE cl.commands[Sends] # "donedl"
        BY <1>2, <1>6, <4>1
      <4>2. CASE cl.commands[Sends] = "donedl"
        <5>1. Sends = n
          <6>1. Sends < n - 1 \/ Sends = n - 1 \/ Sends = n \/ Sends > n
            BY <1>1
          <6>2. QED
            BY <2>1, <3>3, <4>2, <6>1
        <5>2. CASE Sends = Had + 1 /\ Done.downloadName = client.downloadName
          <6>1. cl.commands[Had] = "nextdl"
            BY <1>1, <3>3, <3>4, <5>1, <5>2
          <6>2. client.downloadName = (cl.commands[Had] = "download")
            <7>1. client.lastClientCommand # 0
              BY <1>1, <3>1 DEF Had
            <7>2. QED
              BY <7>1, Zenon DEF Commanded, Named, Had
          <6>3. QED
            BY <4>2, <5>2, <6>1, <6>2
        <5>3. CASE /\ Sends > Had + 1
                   /\ cl.commands[Sends - 1] # "donedl" =>
                        Done.downloadName = (cl.commands[Sends - 1] = "download")
          <6>1. Sends - 1 \in DOMAIN cl.commands
            BY <1>1, <1>3, <5>3
          <6>2. cl.commands[Sends - 1] = "nextdl"
            BY <1>1, <3>3, <5>1, <6>1
          <6>3. QED
            BY <4>2, <5>3, <6>2
        <5>4. QED
          BY <1>2, <1>6, <4>2, <5>2, <5>3
      <4>3. QED
        BY <4>1, <4>2
    <3>6. ASSUME cl.commands[Sends] \in {"download", "nextdl"}
          PROVE  Fetching
      <4>1. Sends <= n - 1
        BY <1>1, <1>3, <2>1, <3>3, <3>6
      <4>2. Had < n - 1
        BY <1>1, <1>6, <4>1
      <4>3. QED
        BY <1>4, <3>1, <3>3, <3>4, <4>2
    <3>7. ASSUME NEW i \in DOMAIN Names, Names[i] = "donedl"
          PROVE  Fetching /\ cl.commands[Sends] \notin {"download", "nextdl"}
      <4>1. Had + i \in DOMAIN cl.commands /\ cl.commands[Had + i] = "donedl" /\ Had + i <= Sends
            /\ Had < Had + i
        BY <1>1, <1>3, <3>7
      <4>2. Had + i = n
        BY <1>1, <1>3, <3>3, <4>1
      <4>3. Had <= n - 1 /\ Sends >= n
        BY <1>1, <1>3, <4>1, <4>2
      <4>4. cl.commands[Had] \in {"download", "nextdl"}
        BY <1>1, <3>3, <3>4, <4>3
      <4>5. cl.commands[Sends] \in {"donedl", "stopdl"}
        BY <1>1, <2>1, <3>3, <4>3
      <4>6. QED
        BY <1>4, <3>1, <4>4, <4>5
    <3>8. Named(Done)
      BY <1>2, <2>1, <2>2, <3>5 DEF Named
    <3>9. QED
      BY <2>1, <2>2, <3>5, <3>6, <3>7, <3>8
  <2>5. QED
    BY <2>3, <2>4
<1>7. Sends = Had \/ Sends > Had
  BY <1>1
<1>8. QED
  BY <1>5, <1>6, <1>7, Zenon

\* A gamestate is sent to a client that is not in the world, with this map's serverId.
LEMMA NewGamestateOf ==
  ASSUME GInv, Orderly, Away
  PROVE  sv.values.systeminfo = Map /\ sv.serverId = Map
<1>1. sv.restartedServerId \in Nat /\ sv.serverId \in Nat /\ sv.values.systeminfo \in Nat
  BY Numbers DEF GInv
<1>2. /\ sv.restartedServerId <= sv.values.systeminfo
      /\ sv.values.systeminfo <= sv.serverId
  BY DEF GInv, IdsGiven
<1>3. sv.restartedServerId = sv.serverId
  BY DEF Orderly, World, Map
<1>4. QED
  BY <1>1, <1>2, <1>3 DEF Map

\* What the messages under way are after a packet was taken.
LEMMA TakenMessages ==
  ASSUME NEW a \in Nat, Sent(a)
  PROVE  /\ \A i : IsGamestate(i)' =>
              \/ IsGamestate(i + a) /\ SameDown(toClient'[i], toClient[i + a])
              \/ NewGamestate(a, i)
         /\ \A i, j \in DOMAIN toClient' : i < j =>
              i + a \in DOMAIN toClient /\ SameDown(toClient'[i], toClient[i + a])
         /\ \A i, j \in DOMAIN toClient' : i < j => i + a < j + a
         /\ \A i \in DOMAIN toClient' : toClient'[i].kind # "gamestate" =>
              i + a \in DOMAIN toClient /\ SameDown(toClient'[i], toClient[i + a])
         /\ \A i : IsGamestate(i)' => i \in DOMAIN toClient'
<1>1. \A i \in DOMAIN toClient' : i \in Nat /\ i <= Len(toClient')
  BY DEF Sent
<1>2. \A i : IsGamestate(i)' =>
        \/ IsGamestate(i + a) /\ SameDown(toClient'[i], toClient[i + a])
        \/ NewGamestate(a, i)
  BY DEF Sent, Kept, IsGamestate, SameDown
<1>3. ASSUME NEW i \in DOMAIN toClient', NEW j \in DOMAIN toClient', i < j
      PROVE  i + a \in DOMAIN toClient /\ SameDown(toClient'[i], toClient[i + a]) /\ i + a < j + a
  <2>1. i + a < j + a
    BY <1>1, <1>3
  <2>2. ~NewGamestate(a, i)
    BY <1>1, <1>3 DEF NewGamestate
  <2>3. QED
    BY <2>1, <2>2 DEF Sent, Kept
<1>4. ASSUME NEW i \in DOMAIN toClient', toClient'[i].kind # "gamestate"
      PROVE  i + a \in DOMAIN toClient /\ SameDown(toClient'[i], toClient[i + a])
  BY <1>4 DEF Sent, Kept, NewGamestate
<1>5. \A i : IsGamestate(i)' => i \in DOMAIN toClient'
  BY DEF IsGamestate
<1>6. QED
  BY <1>2, <1>3, <1>4, <1>5

\* The parts of the invariant for which it does not matter whether the client enters the
\* world.
LEMMA TakenParts ==
  ASSUME GInv, Orderly, Taken, SameSide, NEW a \in Nat, Sent(a), sv' = sv, Typed', UpInOrder',
         (\E i \in DOMAIN toClient' : NewGamestate(a, i)) => Away,
         client'.lastClientCommand \in Nat,
         client'.lastClientCommand >= client.lastClientCommand,
         Named(client'),
         Fetching' =>
           /\ ~\E i \in DOMAIN toClient' : NewGamestate(a, i)
           /\ \/ Fetching
              \/ /\ client.lastClientCommand = 0 /\ client'.lastClientCommand > 0
                 /\ cl.lacks # None
  PROVE  /\ \A i : IsGamestate(i)' => toClient'[i].values.systeminfo <= Map
         /\ \A i, j : IsGamestate(i)' /\ IsGamestate(j)' /\ i < j
                        => toClient'[i].values.systeminfo <= toClient'[j].values.systeminfo
         /\ \A j \in DOMAIN toClient' :
              toClient'[j].kind = "snapshot" =>
                /\ cl.loaded
                /\ \A i : IsGamestate(i)' /\ i < j => CanLoad(toClient'[i].values.systeminfo)
         /\ Lacking' /\ Commanded' /\ Downloads'
<1>1. /\ World /\ Maps /\ Loaded /\ Lacking /\ Commanded /\ Downloads
  BY DEF Orderly
<1>2. /\ \A i : IsGamestate(i)' =>
           \/ IsGamestate(i + a) /\ SameDown(toClient'[i], toClient[i + a])
           \/ NewGamestate(a, i)
      /\ \A i, j \in DOMAIN toClient' : i < j =>
           i + a \in DOMAIN toClient /\ SameDown(toClient'[i], toClient[i + a])
      /\ \A i, j \in DOMAIN toClient' : i < j => i + a < j + a
      /\ \A i \in DOMAIN toClient' : toClient'[i].kind # "gamestate" =>
           i + a \in DOMAIN toClient /\ SameDown(toClient'[i], toClient[i + a])
      /\ \A i : IsGamestate(i)' => i \in DOMAIN toClient'
  BY TakenMessages
<1>3. ASSUME NEW i, IsGamestate(i)', NewGamestate(a, i)
      PROVE  Away /\ toClient'[i].values.systeminfo = Map
  <2>1. Away
    BY <1>2, <1>3
  <2>2. QED
    BY <1>3, <2>1, NewGamestateOf DEF NewGamestate
<1>4. /\ Map \in Nat /\ client.lastClientCommand \in Nat
      /\ \A i \in DOMAIN toClient : toClient[i].values.systeminfo \in Nat
  BY Numbers, MessageNumbers DEF GInv, Map
<1>5. ASSUME NEW i, IsGamestate(i)'
      PROVE  toClient'[i].values.systeminfo <= Map
  <2>1. CASE NewGamestate(a, i)
    BY <1>3, <1>4, <1>5, <2>1
  <2>2. CASE IsGamestate(i + a) /\ SameDown(toClient'[i], toClient[i + a])
    BY <1>1, <2>2 DEF Maps, SameDown
  <2>3. QED
    BY <1>2, <1>5, <2>1, <2>2
<1>6. ASSUME NEW i, NEW j, IsGamestate(i)', IsGamestate(j)', i < j
      PROVE  toClient'[i].values.systeminfo <= toClient'[j].values.systeminfo
  <2>1. /\ i + a \in DOMAIN toClient /\ SameDown(toClient'[i], toClient[i + a]) /\ i + a < j + a
        /\ IsGamestate(i + a)
    BY <1>2, <1>6 DEF IsGamestate, SameDown
  <2>2. CASE NewGamestate(a, j)
    BY <1>3, <1>5, <1>6, <2>2
  <2>3. CASE IsGamestate(j + a) /\ SameDown(toClient'[j], toClient[j + a])
    BY <1>1, <2>1, <2>3 DEF Maps, SameDown
  <2>4. QED
    BY <1>2, <1>6, <2>2, <2>3
<1>7. ASSUME NEW j \in DOMAIN toClient', toClient'[j].kind = "snapshot"
      PROVE  /\ cl.loaded
             /\ \A i : IsGamestate(i)' /\ i < j => CanLoad(toClient'[i].values.systeminfo)
  <2>1. j + a \in DOMAIN toClient /\ toClient[j + a].kind = "snapshot"
    BY <1>2, <1>7 DEF SameDown
  <2>2. /\ cl.loaded
        /\ \A i : IsGamestate(i) /\ i < j + a => CanLoad(toClient[i].values.systeminfo)
    BY <1>1, <2>1 DEF Loaded
  <2>3. ASSUME NEW i, IsGamestate(i)', i < j
        PROVE  CanLoad(toClient'[i].values.systeminfo)
    <3>1. IsGamestate(i + a) /\ i + a < j + a /\ SameDown(toClient'[i], toClient[i + a])
      BY <1>2, <2>3 DEF IsGamestate, SameDown
    <3>2. QED
      BY <2>2, <3>1 DEF SameDown
  <2>4. QED
    BY <2>2, <2>3
<1>8. \A id : CanLoad(id)' = CanLoad(id)
  BY DEF CanLoad, SameSide
<1>9. /\ cl'.loaded = cl.loaded /\ cl'.lacks = cl.lacks /\ cl'.downloading = cl.downloading
      /\ cl'.commands = cl.commands /\ Map' = Map
  BY DEF SameSide, Map
<1>10. Lacking'
  <2>1. ASSUME NEW i \in DOMAIN toServer', toServer'[i].move, toServer'[i].commands > 0
        PROVE  cl.lacks = None
    BY <1>1, <2>1 DEF Lacking, Taken, SameUp
  <2>2. ASSUME cl.lacks # None, cl.commands # <<>>, NEW i, IsGamestate(i)'
        PROVE  ~CanLoad(toClient'[i].values.systeminfo)
    <3>1. CASE NewGamestate(a, i)
      <4>1. ~CanLoad(Map)
        BY <1>1, <2>2 DEF Lacking
      <4>2. QED
        BY <1>3, <2>2, <3>1, <4>1
    <3>2. CASE IsGamestate(i + a) /\ SameDown(toClient'[i], toClient[i + a])
      BY <1>1, <2>2, <3>2 DEF Lacking, SameDown
    <3>3. QED
      BY <1>2, <2>2, <3>1, <3>2
  <2>3. QED
    BY <1>1, <1>8, <1>9, <2>1, <2>2 DEF Lacking
<1>11. Commanded'
  <2>1. cl.lacks = None /\ cl.commands # <<>> =>
          client'.lastClientCommand > 0 /\ \E n \in Nat : Fetched(n)
    <3>1. cl.lacks = None /\ cl.commands # <<>> =>
            client.lastClientCommand > 0 /\ \E n \in Nat : Fetched(n)
      BY <1>1 DEF Commanded
    <3>2. QED
      BY <1>4, <3>1
  <2>2. ASSUME NEW i \in DOMAIN toClient', toClient'[i].kind = "block"
        PROVE  client'.lastClientCommand > 0
    <3>1. i + a \in DOMAIN toClient /\ toClient[i + a].kind = "block"
      BY <1>2, <2>2 DEF SameDown
    <3>2. client.lastClientCommand > 0
      BY <1>1, <3>1 DEF Commanded
    <3>3. QED
      BY <1>4, <3>2
  <2>3. \A n : Fetched(n)' = Fetched(n)
    BY <1>9 DEF Fetched
  <2>4. Named(client)'
    BY <1>9 DEF Named
  <2>5. QED
    BY <1>9, <2>1, <2>2, <2>3, <2>4 DEF Commanded
<1>12. ASSUME Fetching'
       PROVE  /\ ~cl.loaded
              /\ \A i \in DOMAIN toServer' : ~toServer'[i].move
              /\ \A i : IsGamestate(i)' =>
                   cl.lacks # None /\ \A j \in DOMAIN toClient' : j < i => toClient'[j].kind # "block"
  <2>1. \A i : IsGamestate(i)' => IsGamestate(i + a)
    BY <1>2, <1>12
  <2>2. CASE Fetching
    <3>1. ~cl.loaded /\ \A i \in DOMAIN toServer' : ~toServer'[i].move
      BY <1>1, <2>2 DEF Downloads, Taken, SameUp
    <3>2. ASSUME NEW i, IsGamestate(i)', NEW j \in DOMAIN toClient', j < i
          PROVE  toClient'[j].kind # "block"
      <4>1. /\ IsGamestate(i + a) /\ j + a \in DOMAIN toClient /\ j + a < i + a
            /\ SameDown(toClient'[j], toClient[j + a])
        BY <1>2, <2>1, <3>2
      <4>2. QED
        BY <1>1, <2>2, <4>1 DEF Downloads, SameDown
    <3>3. \A i : IsGamestate(i)' => cl.lacks # None
      BY <1>1, <2>1, <2>2 DEF Downloads
    <3>4. QED
      BY <3>1, <3>2, <3>3
  <2>3. CASE /\ client.lastClientCommand = 0 /\ client'.lastClientCommand > 0
             /\ cl.lacks # None
    <3>1. cl.commands # <<>>
      <4>1. client'.lastClientCommand <= Len(cl.commands)
        BY <1>9 DEF UpInOrder
      <4>2. cl.commands \in Seq(DownloadName)
        BY DEF GInv, Typed, ClientSide
      <4>3. Len(cl.commands) \in Nat
        BY <4>2
      <4>4. Len(cl.commands) # 0
        BY <2>3, <4>1, <4>3
      <4>5. QED
        BY <4>2, <4>4
    <3>2. ~cl.loaded
      BY <1>1, <2>3, <3>1 DEF Lacking
    <3>3. ASSUME NEW i \in DOMAIN toServer'
          PROVE  ~toServer'[i].move
      <4>1. client'.lastClientCommand <= toServer'[i].commands
        BY DEF UpInOrder
      <4>2. i + 1 \in DOMAIN toServer /\ SameUp(toServer'[i], toServer[i + 1])
        BY DEF Taken
      <4>3. toServer[i + 1].commands \in Nat
        BY <4>2, MessageNumbers DEF GInv
      <4>4. toServer[i + 1].commands > 0
        BY <2>3, <4>1, <4>2, <4>3 DEF SameUp
      <4>5. QED
        BY <1>1, <2>3, <4>2, <4>4 DEF Lacking, SameUp
    <3>4. ASSUME NEW j \in DOMAIN toClient'
          PROVE  toClient'[j].kind # "block"
      <4>1. SUFFICES ASSUME toClient'[j].kind = "block" PROVE FALSE
        OBVIOUS
      <4>2. j + a \in DOMAIN toClient /\ toClient[j + a].kind = "block"
        BY <1>2, <4>1 DEF SameDown
      <4>3. QED
        BY <1>1, <2>3, <4>2 DEF Commanded
    <3>5. QED
      BY <2>3, <3>2, <3>3, <3>4
  <2>4. QED
    BY <1>12, <2>2, <2>3
<1>13. Downloads'
  BY <1>9, <1>12 DEF Downloads
<1>14. QED
  BY <1>5, <1>6, <1>7, <1>10, <1>11, <1>13

\* A packet that puts nobody into the world; the gamestate may be sent for it.
LEMMA TakenStays ==
  ASSUME GInv, Orderly, Taken, SameSide, NEW a \in Nat, Sent(a), sv' = sv, Typed', UpInOrder',
         (\E i \in DOMAIN toClient' : NewGamestate(a, i)) => Away /\ client'.state = "primed",
         client'.state = client.state \/ (Away /\ client'.state = "primed"),
         client'.inWorld = client.inWorld, client'.asserted = client.asserted,
         client'.commands = client.commands, Away => client'.csUpdated = client.csUpdated,
         client'.lastClientCommand \in Nat,
         client'.lastClientCommand >= client.lastClientCommand,
         Named(client'),
         Fetching' =>
           /\ ~\E i \in DOMAIN toClient' : NewGamestate(a, i)
           /\ \/ Fetching
              \/ /\ client.lastClientCommand = 0 /\ client'.lastClientCommand > 0
                 /\ cl.lacks # None
  PROVE  Orderly'
<1>1. /\ World /\ Maps /\ Loaded /\ Told /\ Untold
  BY DEF Orderly
<1>2. /\ \A i : IsGamestate(i)' => toClient'[i].values.systeminfo <= Map
      /\ \A i, j : IsGamestate(i)' /\ IsGamestate(j)' /\ i < j
                     => toClient'[i].values.systeminfo <= toClient'[j].values.systeminfo
      /\ \A j \in DOMAIN toClient' :
           toClient'[j].kind = "snapshot" =>
             /\ cl.loaded
             /\ \A i : IsGamestate(i)' /\ i < j => CanLoad(toClient'[i].values.systeminfo)
      /\ Lacking' /\ Commanded' /\ Downloads'
  BY TakenParts
<1>3. /\ cl'.serverId = cl.serverId /\ cl'.cs = cl.cs /\ cl'.loaded = cl.loaded
      /\ cl'.gamestateSequence = cl.gamestateSequence /\ cl'.lastExecuted = cl.lastExecuted
      /\ cl'.replayed = cl.replayed /\ cl'.gone = cl.gone
  BY DEF SameSide
<1>4. Away' = Away /\ Map' = Map /\ From' = From
  BY <1>3 DEF Away, Map, From
<1>5. \A id : CanLoad(id)' = CanLoad(id)
  BY DEF CanLoad, SameSide
<1>6. \A i \in DOMAIN toServer' : /\ i + 1 \in DOMAIN toServer
                                  /\ toServer'[i].serverId = toServer[i + 1].serverId
                                  /\ toServer'[i].move = toServer[i + 1].move
  BY DEF Taken, SameUp
<1>7. \A i : IsGamestate(i)' =>
        \/ /\ IsGamestate(i + a) /\ toClient'[i].values = toClient[i + a].values
           /\ toClient'[i].reliable = toClient[i + a].reliable
        \/ i \in DOMAIN toClient' /\ NewGamestate(a, i)
  BY TakenMessages DEF SameDown
<1>8. ASSUME ~Away, NEW i, IsGamestate(i)'
      PROVE  /\ IsGamestate(i + a) /\ toClient'[i].values = toClient[i + a].values
             /\ toClient'[i].reliable = toClient[i + a].reliable
  BY <1>7, <1>8
<1>9. World'
  BY <1>1, <1>3, <1>4 DEF World
<1>10. Maps'
  <2>1. Away' => \A k \in DOMAIN client'.commands :
          client'.commands[k].index = "systeminfo" => client'.commands[k].value < Map
    BY <1>1, <1>4 DEF Maps
  <2>2. ASSUME client'.state = "connected"
        PROVE  /\ cl.serverId < Map
               /\ \A i \in DOMAIN toServer' : toServer'[i].serverId < Map
               /\ \A i : IsGamestate(i)' => toClient'[i].values.systeminfo < Map
    <3>1. client.state = "connected"
      BY <2>2
    <3>2. \A i : IsGamestate(i)' =>
            IsGamestate(i + a) /\ toClient'[i].values = toClient[i + a].values
      BY <1>7, <2>2
    <3>3. QED
      BY <1>1, <1>6, <3>1, <3>2 DEF Maps
  <2>3. QED
    BY <1>2, <1>3, <1>4, <2>1, <2>2 DEF Maps
<1>11. Loaded'
  <2>1. Away => \A i \in DOMAIN toServer' :
          toServer'[i].move /\ toServer'[i].serverId = Map => CanLoad(Map) /\ cl.loaded
    BY <1>1, <1>6 DEF Loaded
  <2>2. ~Away => /\ cl.loaded
                 /\ \A i : IsGamestate(i)' => CanLoad(toClient'[i].values.systeminfo)
    BY <1>1, <1>8 DEF Loaded
  <2>3. Away /\ cl.loaded /\ cl.serverId = Map => CanLoad(Map)
    BY <1>1 DEF Loaded
  <2>4. QED
    BY <1>2, <1>3, <1>4, <1>5, <2>1, <2>2, <2>3 DEF Loaded
<1>12. Told'
  <2>1. ASSUME ~Away, NEW i, IsGamestate(i)'
        PROVE  /\ toClient'[i].values.systeminfo = Map
               /\ BringsBoth(toClient'[i].reliable, toClient'[i].values.cs,
                             toClient'[i].values.systeminfo)
    BY <1>1, <1>8, <2>1 DEF Told
  <2>2. ~Away /\ ~cl.replayed => BringsBoth(From, cl.cs, cl.serverId)
    BY <1>1 DEF Told
  <2>3. \A n, cs, id : BringsBoth(n, cs, id)' <=> BringsBoth(n, cs, id)
    BY DEF BringsBoth
  <2>4. QED
    BY <1>3, <1>4, <2>1, <2>2, <2>3 DEF Told
<1>13. Untold'
  <2>1. Away => \A cs : WillBeTold(cs)' <=> WillBeTold(cs)
    BY DEF WillBeTold
  <2>2. ASSUME Away, NEW i, IsGamestate(i)', toClient'[i].values.systeminfo = Map
        PROVE  WillBeTold(toClient'[i].values.cs) /\ toClient'[i].reliable = Len(client.commands)
    <3>1. CASE NewGamestate(a, i)
      BY <3>1 DEF NewGamestate, WillBeTold
    <3>2. CASE /\ IsGamestate(i + a) /\ toClient'[i].values = toClient[i + a].values
               /\ toClient'[i].reliable = toClient[i + a].reliable
      BY <1>1, <2>2, <3>2 DEF Untold
    <3>3. QED
      BY <1>7, <2>2, <3>1, <3>2
  <2>3. (\E i \in DOMAIN toServer' : toServer'[i].serverId = Map)
          => \E i \in DOMAIN toServer : toServer[i].serverId = Map
    BY <1>6
  <2>4. ASSUME Away,
               cl.serverId = Map \/ (\E i \in DOMAIN toServer' : toServer'[i].serverId = Map),
               NEW i, IsGamestate(i)'
        PROVE  toClient'[i].values.systeminfo = Map
    <3>1. CASE NewGamestate(a, i)
      BY <2>4, <3>1, NewGamestateOf DEF NewGamestate
    <3>2. CASE /\ IsGamestate(i + a) /\ toClient'[i].values = toClient[i + a].values
      BY <1>1, <2>3, <2>4, <3>2 DEF Untold
    <3>3. QED
      BY <1>7, <2>4, <3>1, <3>2
  <2>5. Away /\ ~cl.replayed /\ cl.serverId = Map =>
          WillBeTold(cl.cs) /\ cl.gamestateSequence = Len(client.commands)
    BY <1>1 DEF Untold
  <2>6. Away /\ (\E i \in DOMAIN toServer' : toServer'[i].serverId = Map) =>
          cl.serverId = Map \/ cl.replayed
    BY <1>1, <2>3 DEF Untold
  <2>7. QED
    BY <1>3, <1>4, <2>1, <2>2, <2>4, <2>5, <2>6 DEF Untold
<1>14. QED
  BY <1>2, <1>9, <1>10, <1>11, <1>12, <1>13 DEF Orderly

\* The first move of a client with this map's gamestate puts it into the world.
LEMMA TakenEnters ==
  ASSUME GInv, Orderly, Taken, UNCHANGED <<sv, toClient, cl>>, Typed', DownInOrder', UpInOrder',
         client.state = "primed", client'.state = "active", client'.inWorld, ~client'.asserted,
         NEW p \in DOMAIN toServer, toServer[p].move, toServer[p].serverId = Map,
         Brings(client'.commands, "systeminfo", Len(client.commands), sv.values.systeminfo,
                sv.values.systeminfo),
         \A v : WillBeTold(v) =>
           Brings(client'.commands, "cs", Len(client.commands), v, sv.values.cs),
         client'.lastClientCommand \in Nat,
         client'.lastClientCommand >= client.lastClientCommand,
         Named(client'),
         Fetching' =>
           \/ Fetching
           \/ /\ client.lastClientCommand = 0 /\ client'.lastClientCommand > 0
              /\ cl.lacks # None
  PROVE  Orderly'
<1>1. /\ World /\ Maps /\ Loaded /\ Untold /\ Lacking
  BY DEF Orderly
<1>2. toClient' = toClient /\ cl' = cl /\ sv' = sv /\ Map' = Map
  BY DEF Map
<1>3. Away /\ ~Away' /\ sv.values.systeminfo = Map
  BY NewGamestateOf DEF Away
<1>4. Sent(0) /\ SameSide
  BY NothingSent DEF GInv
<1>5. \A i \in DOMAIN toClient' : ~NewGamestate(0, i)
  BY <1>2, <1>4 DEF NewGamestate, Kept, SameDown, Sent
<1>6. CanLoad(Map) /\ cl.loaded
  BY <1>1, <1>3 DEF Loaded
<1>7. ~Fetching'
  <2>1. ~Fetching
    BY DEF Orderly, Downloads
  <2>2. ASSUME client'.lastClientCommand > 0, cl.lacks # None
        PROVE  FALSE
    <3>1. client'.lastClientCommand <= Len(cl.commands) /\ cl.commands \in Seq(DownloadName)
      BY <1>2 DEF UpInOrder, GInv, Typed, ClientSide
    <3>2. cl.commands # <<>>
      <4>1. Len(cl.commands) \in Nat
        BY <3>1
      <4>2. Len(cl.commands) # 0
        BY <2>2, <3>1, <4>1
      <4>3. QED
        BY <3>1, <4>2
    <3>3. QED
      BY <1>1, <1>6, <2>2, <3>2 DEF Lacking
  <2>3. QED
    BY <2>1, <2>2
<1>8. /\ \A i : IsGamestate(i)' => toClient'[i].values.systeminfo <= Map
      /\ \A i, j : IsGamestate(i)' /\ IsGamestate(j)' /\ i < j
                     => toClient'[i].values.systeminfo <= toClient'[j].values.systeminfo
      /\ \A j \in DOMAIN toClient' :
           toClient'[j].kind = "snapshot" =>
             /\ cl.loaded
             /\ \A i : IsGamestate(i)' /\ i < j => CanLoad(toClient'[i].values.systeminfo)
      /\ Lacking' /\ Commanded' /\ Downloads'
  <2>1. 0 \in Nat
    OBVIOUS
  <2>2. QED
    BY <1>4, <1>5, <1>7, <2>1, TakenParts
<1>9. \A i : IsGamestate(i)' =>
        IsGamestate(i) /\ toClient'[i] = toClient[i] /\ toClient[i].values.systeminfo = Map
  BY <1>1, <1>2, <1>3 DEF IsGamestate, Untold
<1>10. World' /\ Maps'
  <2>1. World'
    BY <1>1, <1>2, <1>3 DEF World
  <2>2. Maps'
    BY <1>2, <1>3, <1>8 DEF Maps
  <2>3. QED
    BY <2>1, <2>2
<1>11. Loaded'
  <2>1. \A id : CanLoad(id)' = CanLoad(id)
    BY <1>2 DEF CanLoad
  <2>2. \A i : IsGamestate(i)' => CanLoad(toClient'[i].values.systeminfo)
    BY <1>6, <1>9
  <2>3. QED
    BY <1>2, <1>3, <1>6, <1>8, <2>1, <2>2 DEF Loaded
<1>12. Told'
  <2>1. ASSUME NEW v, WillBeTold(v)
        PROVE  /\ Brings(client'.commands, "cs", Len(client.commands), v, sv'.values.cs)
               /\ Brings(client'.commands, "systeminfo", Len(client.commands), Map,
                         sv'.values.systeminfo)
    BY <1>2, <1>3, <2>1
  <2>2. ASSUME NEW i, IsGamestate(i)'
        PROVE  /\ toClient'[i].values.systeminfo = Map
               /\ Brings(client'.commands, "cs", toClient'[i].reliable,
                         toClient'[i].values.cs, sv'.values.cs)
               /\ Brings(client'.commands, "systeminfo", toClient'[i].reliable,
                         toClient'[i].values.systeminfo, sv'.values.systeminfo)
    <3>1. /\ IsGamestate(i) /\ toClient'[i] = toClient[i]
          /\ toClient[i].values.systeminfo = Map
      BY <1>9, <2>2
    <3>2. WillBeTold(toClient[i].values.cs) /\ toClient[i].reliable = Len(client.commands)
      BY <1>1, <1>3, <3>1 DEF Untold
    <3>3. QED
      BY <1>2, <2>1, <3>1, <3>2
  <2>3. ASSUME ~cl.replayed
        PROVE  /\ Brings(client'.commands, "cs", From, cl.cs, sv'.values.cs)
               /\ Brings(client'.commands, "systeminfo", From, cl.serverId,
                         sv'.values.systeminfo)
    <3>1. cl.serverId = Map
      BY <1>1, <1>3, <2>3 DEF Untold
    <3>2. WillBeTold(cl.cs) /\ cl.gamestateSequence = Len(client.commands)
      BY <1>1, <1>3, <2>3, <3>1 DEF Untold
    <3>3. From = Len(client.commands)
      <4>1. cl.lastExecuted \in Nat /\ cl.serverCommandSequence \in Nat
        BY Numbers DEF GInv
      <4>2. Len(client.commands) \in Nat
        BY MessageFields DEF GInv
      <4>3. cl.lastExecuted <= Len(client.commands)
        BY <4>1, <4>2 DEF GInv, DownInOrder
      <4>4. QED
        BY <3>2, <4>1, <4>2, <4>3 DEF From
    <3>4. QED
      BY <2>1, <3>1, <3>2, <3>3
  <2>4. From' = From
    BY <1>2 DEF From
  <2>5. QED
    BY <1>2, <2>2, <2>3, <2>4 DEF Told, BringsBoth
<1>13. Untold'
  BY <1>3 DEF Untold
<1>14. QED
  BY <1>8, <1>10, <1>11, <1>12, <1>13 DEF Orderly

LEMMA PrimedResult ==
  ASSUME NEW c \in Client, NEW d, d = Primed(c)
  PROVE  /\ d \in Client /\ d.state = "primed" /\ Rest(d, c) /\ d.inWorld = c.inWorld
         /\ d.commands = c.commands /\ d.csUpdated = c.csUpdated
BY DEF Primed, Client, Rest

\* "The client has dropped the last gamestate we sent."
LEMMA RetransmitInv ==
  ASSUME GInv, toServer # <<>>, sv' = sv, ~Fetching, client.state # "active",
         client' = Primed(client), SV_SendClientGameState
  PROVE  GInv'
<1>1. Typed /\ client \in Client
  BY DEF GInv, Typed
<1>2. Taken /\ SameSide /\ \E a \in {0, 1} : Sent(a)
  BY <1>1, GamestateSent
<1>3. PICK a \in {0, 1} : Sent(a)
  BY <1>2
<1>4. /\ client' \in Client /\ client'.state = "primed" /\ Rest(client', client)
      /\ client'.inWorld = client.inWorld
      /\ client'.commands = client.commands /\ client'.csUpdated = client.csUpdated
  BY <1>1, PrimedResult
<1>5. a \in Nat /\ Extends(client'.commands, client.commands)
      /\ \A k \in Len(client.commands) + 1 .. Len(client'.commands) : FALSE
  <2>1. client.commands \in Seq(Change)
    BY <1>1 DEF Client
  <2>2. a \in Nat
    OBVIOUS
  <2>3. Len(client.commands) \in Nat
    BY <2>1
  <2>4. QED
    BY <1>4, <2>2, <2>3 DEF Extends
<1>6. /\ client'.lastClientCommand = client.lastClientCommand
      /\ client'.downloadName = client.downloadName
      /\ client'.lastClientCommandString = client.lastClientCommandString
      /\ client'.early = client.early /\ client'.asserted = client.asserted
  BY <1>4 DEF Rest
<1>7. Typed' /\ DownInOrder' /\ UpInOrder' /\ IdsGiven' /\ Basics'
  BY <1>2, <1>3, <1>4, <1>5, <1>6, TakenInv
<1>8. ASSUME ~client.early PROVE Orderly'
  <2>1. Orderly /\ Named(client)
    BY <1>8 DEF GInv, Orderly, Commanded
  <2>2. Named(client')
    BY <1>6, <2>1 DEF Named
  <2>3. ~Fetching'
    BY <1>6 DEF Fetching
  <2>4. client'.lastClientCommand \in Nat
        /\ client'.lastClientCommand >= client.lastClientCommand
    BY <1>1, <1>6, Numbers
  <2>5. QED
    BY <1>2, <1>3, <1>4, <1>5, <1>6, <1>7, <2>1, <2>2, <2>3, <2>4, TakenStays DEF Away
<1>9. QED
  BY <1>6, <1>7, <1>8 DEF GInv

LEMMA DropPacketInv ==
  ASSUME GInv, toServer # <<>>, toServer' = Tail(toServer),
         UNCHANGED <<sv, client, toClient, cl>>
  PROVE  GInv'
<1>1. Lose
  BY DEF Lose
<1>2. QED
  BY <1>1, LoseInv

\* What the client is when the packet's commands were executed and before its move.
LEMMA AskedResult ==
  ASSUME Typed, UpInOrder, toServer # <<>>,
         NEW asked, asked = IF Asks(client, Names) THEN Primed(Done) ELSE Done
  PROVE  /\ asked \in Client /\ asked.inWorld = client.inWorld
         /\ asked.state = IF Asks(client, Names) THEN "primed" ELSE client.state
         /\ asked.csUpdated = client.csUpdated /\ asked.commands = client.commands
         /\ asked.early = client.early /\ asked.asserted = client.asserted
         /\ asked.downloadName = Done.downloadName
         /\ asked.lastClientCommandString = Done.lastClientCommandString
         /\ asked.lastClientCommand = Sends
<1>1. /\ Done \in Client
      /\ Done.state = client.state /\ Done.inWorld = client.inWorld
      /\ Done.csUpdated = client.csUpdated /\ Done.commands = client.commands
      /\ Done.early = client.early /\ Done.asserted = client.asserted
      /\ Done.lastClientCommand = Sends
  BY DoneResult
<1>2. CASE Asks(client, Names)
  <2>1. /\ asked \in Client /\ asked.state = "primed" /\ Rest(asked, Done)
        /\ asked.inWorld = Done.inWorld
        /\ asked.commands = Done.commands /\ asked.csUpdated = Done.csUpdated
    BY <1>1, <1>2, PrimedResult
  <2>2. QED
    BY <1>1, <1>2, <2>1 DEF Rest
<1>3. CASE ~Asks(client, Names)
  BY <1>1, <1>3
<1>4. QED
  BY <1>2, <1>3

LEMMA ExecuteInv ==
  ASSUME GInv, toServer # <<>>, sv' = sv, NEW m, m = Head(toServer), Execute(m),
         m.serverId = sv.serverId \/ Fetching
  PROVE  GInv'
<1> DEFINE asks == Asks(client, Names)
           N == Len(client.commands)
<1>1. Typed /\ DownInOrder /\ UpInOrder /\ IdsGiven /\ Basics /\ client \in Client
  BY DEF GInv, Typed
<1>2. PICK asked : asked = IF asks THEN Primed(Done) ELSE Done
  OBVIOUS
<1>3. /\ client' = IF m.move THEN SV_UserMove(asked) ELSE asked
      /\ IF asks THEN SV_SendClientGameState
                 ELSE toServer' = Tail(toServer) /\ UNCHANGED <<toClient, cl>>
  BY <1>2 DEF Execute, Names, Done, Had, Sends
<1>4. /\ asked \in Client /\ asked.inWorld = client.inWorld
      /\ asked.state = IF asks THEN "primed" ELSE client.state
      /\ asked.csUpdated = client.csUpdated /\ asked.commands = client.commands
      /\ asked.early = client.early /\ asked.asserted = client.asserted
      /\ asked.downloadName = Done.downloadName
      /\ asked.lastClientCommandString = Done.lastClientCommandString
      /\ asked.lastClientCommand = Sends
  BY <1>1, <1>2, AskedResult
<1>5. asks => client.state # "active" /\ \E i \in DOMAIN Names : Names[i] = "donedl"
  BY DEF Asks
<1> HIDE DEF asks
<1>6. /\ Taken /\ SameSide
      /\ \E a \in {0, 1} : Sent(a)
  <2>1. CASE asks
    BY <1>1, <1>3, <2>1, GamestateSent
  <2>2. CASE ~asks
    <3>1. Taken
      BY <1>1, <1>3, <2>2, TakenPlain
    <3>2. Sent(0) /\ SameSide
      BY <1>1, <1>3, <2>2, NothingSent
    <3>3. QED
      BY <3>1, <3>2
  <2>3. QED
    BY <2>1, <2>2
<1>7. /\ Had \in Nat /\ Sends \in Nat /\ Had <= Sends /\ m \in Uplink
      /\ m = toServer[1] /\ 1 \in DOMAIN toServer
  BY <1>1, PacketNames
<1>8. asked.state = "active" => asked.inWorld
  BY <1>1, <1>4, <1>5 DEF Basics
<1>9. N \in Nat /\ Extends(client.commands, client.commands)
      /\ \A k \in N + 1 .. N : FALSE
  <2>1. client.commands \in Seq(Change)
    BY <1>1 DEF Client
  <2>2. N \in Nat
    BY <2>1
  <2>3. QED
    BY <2>2 DEF Extends
<1>10. /\ client' \in Client /\ client'.downloadName = asked.downloadName
       /\ client'.lastClientCommand = asked.lastClientCommand
       /\ client'.lastClientCommandString = asked.lastClientCommandString
       /\ client'.early = asked.early
       /\ client'.state = "active" => client'.inWorld
       /\ Extends(client'.commands, client.commands)
       /\ \A k \in N + 1 .. Len(client'.commands) :
            client'.commands[k].index = "systeminfo"
              => client'.commands[k].value = sv.values.systeminfo
  <2>1. CASE m.move
    <3>1. client' = SV_UserMove(asked)
      BY <1>3, <2>1
    <3>2. /\ client' \in Client /\ client'.downloadName = asked.downloadName
          /\ client'.lastClientCommand = asked.lastClientCommand
          /\ client'.lastClientCommandString = asked.lastClientCommandString
          /\ client'.early = asked.early /\ client'.inWorld = TRUE
          /\ Extends(client'.commands, asked.commands)
          /\ \A k \in Len(asked.commands) + 1 .. Len(client'.commands) :
               client'.commands[k].index = "systeminfo"
                 => client'.commands[k].value = sv.values.systeminfo
      <4>1. asked \in Client /\ (asked.state = "active" => asked.inWorld) /\ Typed
        BY <1>1, <1>4, <1>8
      <4>2. QED
        BY ONLY <3>1, <4>1, UserMoveResult
    <3>3. QED
      BY <1>4, <3>2
  <2>2. CASE ~m.move
    <3>1. client' = asked
      BY <1>3, <2>2
    <3>2. QED
      BY <1>4, <1>8, <1>9, <3>1
  <2>3. QED
    BY <2>1, <2>2
<1>11. Typed' /\ DownInOrder' /\ UpInOrder' /\ IdsGiven' /\ Basics'
  <2>1. PICK a \in {0, 1} : Sent(a)
    BY <1>6
  <2>2. a \in Nat /\ client'.lastClientCommand = Head(toServer).commands
    BY <1>4, <1>10 DEF Sends
  <2>3. QED
    BY <1>6, <1>10, <2>1, <2>2, TakenInv
<1>12. ASSUME ~client.early PROVE Orderly'
  <2>1. Orderly /\ World /\ Maps /\ Loaded /\ Lacking /\ Commanded /\ Downloads
    BY <1>12 DEF GInv, Orderly
  <2>2. /\ Named(Done)
        /\ Done.downloadName \/ Done.lastClientCommandString = "nextdl"
             => Fetching \/ (Had = 0 /\ Sends > 0 /\ cl.lacks # None)
        /\ (\E i \in DOMAIN Names : Names[i] = "donedl") =>
             Fetching /\ ~Done.downloadName /\ Done.lastClientCommandString # "nextdl"
    BY <1>1, <2>1, DoneOrderly
  <2>3. Done.lastClientCommand = Sends
    BY <1>1, DoneResult
  <2>4. Named(client')
    BY <1>4, <1>10, <2>2, <2>3 DEF Named
  <2>5. /\ client'.lastClientCommand \in Nat
        /\ client'.lastClientCommand >= client.lastClientCommand
        /\ client'.lastClientCommand = Sends
    BY <1>4, <1>7, <1>10 DEF Had
  <2>6. Fetching' <=> Done.downloadName \/ Done.lastClientCommandString = "nextdl"
    BY <1>4, <1>10 DEF Fetching
  <2>7. Fetching' =>
          /\ ~asks
          /\ \/ Fetching
             \/ /\ client.lastClientCommand = 0 /\ client'.lastClientCommand > 0
                /\ cl.lacks # None
    BY <1>5, <2>2, <2>5, <2>6 DEF Had
  <2>8. CASE ~m.move \/ ~Away
    <3>1. /\ client'.state = asked.state /\ client'.commands = client.commands
          /\ client'.inWorld = client.inWorld /\ client'.asserted = client.asserted
          /\ Away => client'.csUpdated = client.csUpdated
      <4>1. CASE ~m.move
        BY <1>3, <1>4, <4>1
      <4>2. CASE m.move /\ ~Away
        <5>1. client.state = "active" /\ asked.state = "active"
          BY <1>4, <1>5, <4>2 DEF Away
        <5>2. asked \in Client /\ client' = SV_UserMove(asked) /\ asked.inWorld /\ Typed
          BY <1>1, <1>3, <1>4, <1>8, <4>2, <5>1
        <5>3. /\ client'.inWorld = TRUE
              /\ client'.asserted = (asked.asserted \/ client'.state # "active")
              /\ client'.state = asked.state /\ client'.commands = asked.commands
          BY ONLY <5>1, <5>2, UserMoveResult
        <5>4. client.inWorld = TRUE /\ client.asserted \in BOOLEAN
          BY <1>1, <1>4, <5>2 DEF Client
        <5>5. QED
          BY <1>4, <4>2, <5>1, <5>3, <5>4
      <4>3. QED
        BY <2>8, <4>1, <4>2
    <3>2. PICK a \in {0, 1} : Sent(a) /\ (~asks => \A i \in DOMAIN toClient' : ~NewGamestate(a, i))
      <4>1. CASE asks
        BY <1>6, <4>1
      <4>2. CASE ~asks
        <5>1. toClient' = toClient /\ cl' = cl
          BY <1>3, <4>2
        <5>2. Sent(0)
          BY <1>1, <5>1, NothingSent
        <5>3. \A i \in DOMAIN toClient' : ~NewGamestate(0, i)
          BY <1>1, <5>1 DEF NewGamestate, Kept, SameDown, Typed
        <5>4. QED
          BY <5>2, <5>3
      <4>3. QED
        BY <4>1, <4>2
    <3>3. a \in Nat
      OBVIOUS
    <3>4. (\E i \in DOMAIN toClient' : NewGamestate(a, i)) => Away /\ client'.state = "primed"
      BY <1>4, <1>5, <3>1, <3>2 DEF Away
    <3>5. client'.state = client.state \/ (Away /\ client'.state = "primed")
      BY <1>4, <1>5, <3>1 DEF Away
    <3>6. Fetching' =>
            /\ ~\E i \in DOMAIN toClient' : NewGamestate(a, i)
            /\ \/ Fetching
               \/ /\ client.lastClientCommand = 0 /\ client'.lastClientCommand > 0
                  /\ cl.lacks # None
      BY <2>7, <3>2
    <3>7. QED
      BY <1>6, <1>10, <1>11, <2>1, <2>4, <2>5, <3>1, <3>2, <3>3, <3>4, <3>5, <3>6, TakenStays
  <2>9. CASE m.move /\ Away
    <3>1. ~Fetching
      BY <1>7, <2>1, <2>9 DEF Downloads
    <3>2. m.serverId = Map /\ ~client.inWorld
      BY <2>1, <2>9, <3>1 DEF World, Map
    <3>3. client.state = "primed"
      <4>1. client.state # "connected"
        <5>1. m.serverId \in Nat
          BY <1>7 DEF Uplink
        <5>2. client.state = "connected" => m.serverId < Map
          BY <1>7, <2>1 DEF Maps
        <5>3. QED
          BY <3>2, <5>1, <5>2
      <4>2. client.state \in {"connected", "primed", "active"}
        BY <1>1 DEF Client
      <4>3. QED
        BY <2>9, <4>1, <4>2 DEF Away
    <3>4. ~asks
      BY <1>5, <2>2, <3>1
    <3>5. toServer' = Tail(toServer) /\ UNCHANGED <<toClient, cl>>
      BY <1>3, <3>4
    <3>6. /\ asked.state = "primed" /\ ~asked.inWorld /\ asked \in Client
          /\ client' = SV_UserMove(asked) /\ Typed
      BY <1>1, <1>3, <1>4, <2>9, <3>2, <3>3, <3>4
    <3>7. /\ client'.state = "active" /\ client'.inWorld = TRUE
          /\ client'.asserted = (asked.asserted \/ client'.state # "active")
          /\ Brings(client'.commands, "systeminfo", Len(asked.commands),
                    sv.values.systeminfo, sv.values.systeminfo)
          /\ \A v : v = sv.values.cs \/ "cs" \in asked.csUpdated =>
               Brings(client'.commands, "cs", Len(asked.commands), v, sv.values.cs)
      BY ONLY <3>6, UserMoveResult
    <3>8. ~client'.asserted
      BY <1>4, <2>1, <3>7 DEF World
    <3>9. \A v : WillBeTold(v) =>
            Brings(client'.commands, "cs", Len(client.commands), v, sv.values.cs)
      BY <1>4, <3>7 DEF WillBeTold
    <3>10. m = toServer[1] /\ 1 \in DOMAIN toServer /\ toServer[1].move
           /\ toServer[1].serverId = Map
      BY <1>7, <2>9, <3>2
    <3>11. Brings(client'.commands, "systeminfo", Len(client.commands),
                  sv.values.systeminfo, sv.values.systeminfo)
      BY <1>4, <3>7
    <3>12. Fetching' =>
             \/ Fetching
             \/ /\ client.lastClientCommand = 0 /\ client'.lastClientCommand > 0
                /\ cl.lacks # None
      BY <2>7
    <3>13. QED
      BY <1>6, <1>11, <2>1, <2>4, <2>5, <3>3, <3>5, <3>7, <3>8, <3>9, <3>10, <3>11, <3>12,
         TakenEnters
  <2>10. QED
    BY <2>8, <2>9
<1>13. client'.early = client.early
  BY <1>4, <1>10
<1>14. QED
  BY <1>11, <1>12, <1>13 DEF GInv

(***************************************************************************)
(* The client.                                                             *)
(***************************************************************************)
LEMMA PacketResult ==
  ASSUME NEW c \in ClientSide, NEW m, m = Packet(c)
  PROVE  /\ m \in Uplink /\ m.serverId = c.serverId /\ m.commands = Len(c.commands)
         /\ m.move = c.loaded
<1>1. c.commands \in Seq(DownloadName) /\ c.serverId \in Nat /\ c.newer \in BOOLEAN
      /\ c.loaded \in BOOLEAN
  BY DEF ClientSide
<1>2. Len(c.commands) \in Nat
  BY <1>1
<1>3. QED
  BY <1>1, <1>2 DEF Packet, Uplink

LEMMA WritePacketInv ==
  ASSUME GInv, CL_WritePacket
  PROVE  GInv'
<1> DEFINE m == Packet(cl)
           L == Len(toServer)
<1>1. Typed /\ DownInOrder /\ UpInOrder /\ IdsGiven /\ Basics
  BY DEF GInv
<1>2. toServer' = Append(toServer, m) /\ sv' = sv /\ client' = client /\ toClient' = toClient
      /\ cl' = cl
  BY DEF CL_WritePacket
<1>3. m \in Uplink /\ m.serverId = cl.serverId /\ m.commands = Len(cl.commands)
      /\ m.move = cl.loaded
  BY <1>1, PacketResult DEF Typed
<1> HIDE DEF m
<1>4. /\ toServer' \in Seq(Uplink) /\ L \in Nat
      /\ DOMAIN toServer = 1 .. L /\ DOMAIN toServer' = 1 .. L + 1
      /\ \A i \in 1 .. L : toServer'[i] = toServer[i]
      /\ toServer'[L + 1] = m
  <2>1. toServer \in Seq(Uplink)
    BY <1>1 DEF Typed
  <2>2. QED
    BY <1>2, <1>3, <2>1
<1> HIDE DEF L
<1>5. \A i \in DOMAIN toServer' :
        \/ i \in DOMAIN toServer /\ toServer'[i] = toServer[i]
        \/ i = L + 1 /\ toServer'[i] = m
  BY <1>4
<1>6. Typed'
  BY <1>1, <1>2, <1>4 DEF Typed
<1>7. DownInOrder' /\ Basics'
  BY <1>1, <1>2 DEF DownInOrder, Basics
<1>8. UpInOrder'
  <2>1. Len(cl.commands) \in Nat /\ client.lastClientCommand \in Nat
    BY <1>1, MessageFields, Numbers
  <2>2. \A i \in DOMAIN toServer' : /\ client.lastClientCommand <= toServer'[i].commands
                                    /\ toServer'[i].commands <= Len(cl.commands)
    BY <1>1, <1>3, <1>5, <2>1 DEF UpInOrder
  <2>3. ASSUME NEW i \in DOMAIN toServer', NEW j \in DOMAIN toServer', i < j
        PROVE  toServer'[i].commands <= toServer'[j].commands
    <3>1. i \in DOMAIN toServer /\ toServer'[i] = toServer[i]
      BY <1>4, <2>3
    <3>2. CASE j \in DOMAIN toServer /\ toServer'[j] = toServer[j]
      BY <1>1, <2>3, <3>1, <3>2 DEF UpInOrder
    <3>3. CASE toServer'[j] = m
      BY <1>1, <1>3, <3>1, <3>3 DEF UpInOrder
    <3>4. QED
      BY <1>5, <3>2, <3>3
  <2>4. QED
    BY <1>1, <1>2, <2>2, <2>3 DEF UpInOrder
<1>9. IdsGiven'
  <2>1. \A i \in DOMAIN toServer' : toServer'[i].serverId <= sv.serverId
    BY <1>1, <1>3, <1>5 DEF IdsGiven
  <2>2. QED
    BY <1>1, <1>2, <2>1 DEF IdsGiven, IsGamestate
<1>10. ASSUME ~client.early PROVE Orderly'
  <2>1. /\ World /\ Maps /\ Loaded /\ Lacking /\ Commanded /\ Downloads /\ Told /\ Untold
    BY <1>10 DEF GInv, Orderly
  <2>2. /\ Away' = Away /\ Map' = Map /\ From' = From /\ Fetching' = Fetching
        /\ \A i : IsGamestate(i)' = IsGamestate(i)
        /\ \A id : CanLoad(id)' = CanLoad(id)
    BY <1>2 DEF Away, Map, From, Fetching, IsGamestate, CanLoad
  <2>3. World'
    BY <1>2, <2>1, <2>2 DEF World
  <2>4. Maps'
    <3>1. client.state = "connected" => \A i \in DOMAIN toServer' : toServer'[i].serverId < Map
      BY <1>3, <1>5, <2>1 DEF Maps
    <3>2. QED
      BY <1>2, <2>1, <2>2, <3>1 DEF Maps
  <2>5. Loaded'
    <3>1. Away => \A i \in DOMAIN toServer' :
            toServer'[i].move /\ toServer'[i].serverId = Map => CanLoad(Map) /\ cl.loaded
      BY <1>3, <1>5, <2>1 DEF Loaded
    <3>2. QED
      BY <1>2, <2>1, <2>2, <3>1 DEF Loaded
  <2>6. Lacking'
    <3>1. ASSUME NEW i \in DOMAIN toServer', toServer'[i].move, toServer'[i].commands > 0
          PROVE  cl.lacks = None
      <4>1. CASE toServer'[i] = m
        <5>1. cl.loaded /\ Len(cl.commands) > 0
          BY <1>3, <3>1, <4>1
        <5>2. cl.commands # <<>>
          BY <5>1, EmptySeq
        <5>3. QED
          BY <2>1, <5>1, <5>2 DEF Lacking
      <4>2. CASE i \in DOMAIN toServer /\ toServer'[i] = toServer[i]
        BY <2>1, <3>1, <4>2 DEF Lacking
      <4>3. QED
        BY <1>5, <4>1, <4>2
    <3>2. QED
      BY <1>2, <2>1, <2>2, <3>1 DEF Lacking
  <2>7. Commanded'
    <3>1. \A n : Fetched(n)' = Fetched(n)
      BY <1>2 DEF Fetched
    <3>2. Named(client)' = Named(client)
      BY <1>2 DEF Named
    <3>3. QED
      BY <1>2, <2>1, <3>1, <3>2 DEF Commanded
  <2>8. Downloads'
    <3>1. Fetching => \A i \in DOMAIN toServer' : ~toServer'[i].move
      BY <1>3, <1>5, <2>1 DEF Downloads
    <3>2. QED
      BY <1>2, <2>1, <2>2, <3>1 DEF Downloads
  <2>9. Told'
    BY <1>2, <2>1, <2>2 DEF Told, BringsBoth
  <2>10. Untold'
    <3>1. (\E i \in DOMAIN toServer' : toServer'[i].serverId = Map)
            => cl.serverId = Map \/ \E i \in DOMAIN toServer : toServer[i].serverId = Map
      BY <1>3, <1>5
    <3>2. \A cs : WillBeTold(cs)' = WillBeTold(cs)
      BY <1>2 DEF WillBeTold
    <3>3. QED
      BY <1>2, <2>1, <2>2, <3>1, <3>2 DEF Untold
  <2>11. QED
    BY <2>3, <2>4, <2>5, <2>6, <2>7, <2>8, <2>9, <2>10 DEF Orderly
<1>11. QED
  BY <1>2, <1>6, <1>7, <1>8, <1>9, <1>10 DEF GInv

\* A client that executes a command has every value then that it would have had.
LEMMA BringsExecuted ==
  ASSUME NEW c \in Seq(Change), NEW index, NEW n \in 1 .. Len(c), NEW v, NEW w,
         Brings(c, index, n - 1, v, w)
  PROVE  Brings(c, index, n, IF c[n].index = index THEN c[n].value ELSE v, w)
<1> DEFINE L == Len(c)
<1>1. /\ L \in Nat /\ n \in 1 .. L /\ (n - 1) + 1 = n
      /\ \A k \in n .. L : k = n \/ k \in n + 1 .. L
      /\ \A k \in n + 1 .. L : k \in n .. L
      /\ n \in n .. L
  OBVIOUS
<1>2. CASE v = w /\ \A k \in n .. L : c[k].index # index
  BY <1>1, <1>2 DEF Brings
<1>3. CASE \E k \in n .. L : /\ c[k].index = index /\ c[k].value = w
                             /\ \A j \in k + 1 .. L : c[j].index # index
  <2>1. PICK k \in n .. L : /\ c[k].index = index /\ c[k].value = w
                            /\ \A j \in k + 1 .. L : c[j].index # index
    BY <1>3
  <2>2. CASE k = n
    BY <2>1, <2>2 DEF Brings
  <2>3. CASE k \in n + 1 .. L
    BY <2>1, <2>3 DEF Brings
  <2>4. QED
    BY <1>1, <2>2, <2>3
<1>4. QED
  BY <1>1, <1>2, <1>3 DEF Brings

LEMMA GetServerCommandInv ==
  ASSUME GInv, CL_GetServerCommand
  PROVE  GInv'
<1> DEFINE n == cl.lastExecuted + 1
           command == client.commands[n]
           r == cl.replayed \/ (n <= cl.gamestateSequence /\ command.index # "map_restart")
<1>1. Typed /\ DownInOrder /\ UpInOrder /\ IdsGiven /\ Basics
  BY DEF GInv
<1>2. sv' = sv /\ client' = client /\ toClient' = toClient /\ toServer' = toServer
  BY DEF CL_GetServerCommand
<1>3. PICK d : d = CL_ConfigstringModified(cl, command)
  OBVIOUS
<1>4. /\ cl.loaded /\ cl.lastExecuted < cl.snapshotSequence
      /\ cl' = [d EXCEPT !.lastExecuted = n, !.replayed = d.replayed
                  \/ (n <= cl.gamestateSequence /\ command.index # "map_restart")]
  BY <1>3 DEF CL_GetServerCommand
<1>5. /\ cl.lastExecuted \in Nat /\ cl.snapshotSequence \in Nat /\ cl.serverCommandSequence \in Nat
      /\ cl.gamestateSequence \in Nat /\ cl \in ClientSide
      /\ Len(client.commands) \in Nat /\ client.commands \in Seq(Change)
  <2>1. client.commands \in Seq(Change)
    BY <1>1 DEF Typed, Client
  <2>2. /\ cl.lastExecuted \in Nat /\ cl.snapshotSequence \in Nat
        /\ cl.serverCommandSequence \in Nat /\ cl.gamestateSequence \in Nat
    BY <1>1, Numbers
  <2>3. QED
    BY <1>1, <2>1, <2>2 DEF Typed
<1>6. n \in 1 .. Len(client.commands) /\ n \in Nat /\ n <= cl.serverCommandSequence
      /\ n - 1 = cl.lastExecuted
  BY <1>1, <1>4, <1>5 DEF DownInOrder
<1>7. command \in Change /\ command.index \in {"cs", "systeminfo", "map_restart"}
      /\ command.value \in Nat
  <2>1. command \in Change
    BY <1>5, <1>6
  <2>2. QED
    BY <2>1 DEF Change, Indices
<1>8. /\ cl.cs \in Nat /\ cl.serverId \in Nat /\ cl.replayed \in BOOLEAN /\ r \in BOOLEAN
  BY <1>5 DEF ClientSide
<1> HIDE DEF n, command
<1>9. /\ d \in ClientSide
      /\ d.cs = (IF command.index = "cs" THEN command.value ELSE cl.cs)
      /\ d.serverId = (IF command.index = "systeminfo" THEN command.value ELSE cl.serverId)
      /\ \E u, w \in Nat : d = [cl EXCEPT !.cs = u, !.serverId = w]
  <2>1. CASE command.index = "cs"
    <3>1. d = [cl EXCEPT !.cs = command.value]
      BY <1>3, <2>1 DEF CL_ConfigstringModified
    <3>2. [cl EXCEPT !.cs = command.value]
            = [cl EXCEPT !.cs = command.value, !.serverId = cl.serverId]
      BY <1>5 DEF ClientSide
    <3>3. d \in ClientSide /\ d.cs = command.value /\ d.serverId = cl.serverId
      BY <1>5, <1>7, <3>1 DEF ClientSide
    <3>4. QED
      BY <1>7, <1>8, <2>1, <3>1, <3>2, <3>3
  <2>2. CASE command.index = "systeminfo"
    <3>1. d = [cl EXCEPT !.serverId = command.value]
      BY <1>3, <2>2 DEF CL_ConfigstringModified
    <3>2. [cl EXCEPT !.serverId = command.value]
            = [cl EXCEPT !.cs = cl.cs, !.serverId = command.value]
      BY <1>5 DEF ClientSide
    <3>3. d \in ClientSide /\ d.serverId = command.value /\ d.cs = cl.cs
      BY <1>5, <1>7, <3>1 DEF ClientSide
    <3>4. QED
      BY <1>7, <1>8, <2>2, <3>1, <3>2, <3>3
  <2>3. CASE command.index = "map_restart"
    <3>1. d = cl
      BY <1>3, <2>3 DEF CL_ConfigstringModified
    <3>2. cl = [cl EXCEPT !.cs = cl.cs, !.serverId = cl.serverId]
      BY <1>5 DEF ClientSide
    <3>3. QED
      BY <1>5, <1>8, <2>3, <3>1, <3>2
  <2>4. QED
    BY <1>7, <2>1, <2>2, <2>3
<1>10. /\ d.newer = cl.newer /\ d.serverCommandSequence = cl.serverCommandSequence
       /\ d.gamestateSequence = cl.gamestateSequence
       /\ d.snapshotSequence = cl.snapshotSequence
       /\ d.commands = cl.commands /\ d.lacks = cl.lacks /\ d.loaded = cl.loaded
       /\ d.downloading = cl.downloading /\ d.replayed = cl.replayed /\ d.gone = cl.gone
  BY <1>5, <1>9 DEF ClientSide
<1>11. cl' = [d EXCEPT !.lastExecuted = n, !.replayed = r]
  BY <1>4, <1>10
<1> HIDE DEF r
<1>12. /\ cl' \in ClientSide /\ cl'.lastExecuted = n /\ cl'.replayed = r
       /\ cl'.cs = d.cs /\ cl'.serverId = d.serverId
  BY <1>6, <1>8, <1>9, <1>11 DEF ClientSide
<1>13. /\ cl'.serverCommandSequence = cl.serverCommandSequence
       /\ cl'.gamestateSequence = cl.gamestateSequence
       /\ cl'.snapshotSequence = cl.snapshotSequence
       /\ cl'.commands = cl.commands /\ cl'.lacks = cl.lacks /\ cl'.loaded = cl.loaded
       /\ cl'.downloading = cl.downloading /\ cl'.gone = cl.gone
  BY <1>9, <1>10, <1>11 DEF ClientSide
<1>14. Typed'
  BY <1>1, <1>2, <1>12 DEF Typed
<1>15. DownInOrder' /\ UpInOrder' /\ Basics'
  <2>1. DownInOrder'
    BY <1>1, <1>2, <1>6, <1>12, <1>13 DEF DownInOrder
  <2>2. UpInOrder' /\ Basics'
    BY <1>1, <1>2, <1>13 DEF UpInOrder, Basics
  <2>3. QED
    BY <2>1, <2>2
<1>16. n \in DOMAIN client.commands
  BY <1>5, <1>6
<1>17. IdsGiven'
  <2>1. cl'.serverId <= sv.serverId
    <3>1. command.index = "systeminfo" => command.value <= sv.serverId
      BY <1>1, <1>16 DEF IdsGiven, command
    <3>2. QED
      BY <1>1, <1>9, <1>12, <3>1 DEF IdsGiven
  <2>2. QED
    BY <1>1, <1>2, <2>1 DEF IdsGiven, IsGamestate
<1>18. ASSUME ~client.early PROVE Orderly'
  <2>1. /\ World /\ Maps /\ Loaded /\ Lacking /\ Commanded /\ Downloads /\ Told /\ Untold
    BY <1>18 DEF GInv, Orderly
  <2>2. /\ Away' = Away /\ Map' = Map /\ Fetching' = Fetching
        /\ \A i : IsGamestate(i)' = IsGamestate(i)
        /\ \A id : CanLoad(id)' = CanLoad(id)
    BY <1>2, <1>13 DEF Away, Map, Fetching, IsGamestate, CanLoad
  <2>3. Map \in Nat
    BY <1>1, Numbers DEF Map
  <2>4. Away => \/ cl'.serverId = cl.serverId /\ command.index # "systeminfo"
                \/ cl'.serverId < Map /\ command.index = "systeminfo"
    <3>1. Away /\ command.index = "systeminfo" => command.value < Map
      BY <1>16, <2>1 DEF Maps, command
    <3>2. QED
      BY <1>9, <1>12, <3>1
  <2>5. World' /\ Maps'
    <3>1. World'
      BY <1>2, <1>13, <2>1, <2>2 DEF World
    <3>2. client.state = "connected" => cl'.serverId < Map
      BY <2>1, <2>4 DEF Maps, Away
    <3>3. Maps'
      BY <1>2, <2>1, <2>2, <3>2 DEF Maps
    <3>4. QED
      BY <3>1, <3>3
  <2>6. Loaded'
    <3>1. Away /\ cl.loaded /\ cl'.serverId = Map => CanLoad(Map)
      BY <1>12, <2>1, <2>3, <2>4 DEF Loaded
    <3>2. QED
      BY <1>2, <1>13, <2>1, <2>2, <3>1 DEF Loaded
  <2>7. Lacking'
    BY <1>2, <1>13, <2>1, <2>2 DEF Lacking
  <2>8. Commanded'
    <3>1. \A k : Fetched(k)' = Fetched(k)
      BY <1>13 DEF Fetched
    <3>2. Named(client)' = Named(client)
      BY <1>2, <1>13 DEF Named
    <3>3. QED
      BY <1>2, <1>13, <2>1, <3>1, <3>2 DEF Commanded
  <2>9. Downloads'
    BY <1>2, <1>13, <2>1, <2>2 DEF Downloads
  <2>10. ~r => ~cl.replayed /\ (n <= cl.gamestateSequence => command.index = "map_restart")
    BY DEF r
  <2>11. Told'
    <3>1. ASSUME ~Away, ~r
          PROVE  BringsBoth(From, cl.cs, cl.serverId)'
      <4>1. BringsBoth(From, cl.cs, cl.serverId)
        BY <2>1, <2>10, <3>1 DEF Told
      <4>2. CASE n <= cl.gamestateSequence
        <5>1. From = cl.gamestateSequence /\ From' = cl.gamestateSequence
          BY <1>5, <1>6, <1>12, <1>13, <4>2 DEF From
        <5>2. cl'.cs = cl.cs /\ cl'.serverId = cl.serverId
          BY <1>9, <1>12, <2>10, <3>1, <4>2
        <5>3. QED
          BY <1>2, <4>1, <5>1, <5>2 DEF BringsBoth
      <4>3. CASE n > cl.gamestateSequence
        <5>1. From = n - 1 /\ From' = n
          BY <1>5, <1>6, <1>12, <1>13, <4>3 DEF From
        <5>2. /\ Brings(client.commands, "cs", n - 1, cl.cs, sv.values.cs)
              /\ Brings(client.commands, "systeminfo", n - 1, cl.serverId, sv.values.systeminfo)
          BY <4>1, <5>1 DEF BringsBoth
        <5>3. Brings(client.commands, "cs", n,
                     IF command.index = "cs" THEN command.value ELSE cl.cs, sv.values.cs)
          BY <1>5, <1>6, <5>2, BringsExecuted DEF command
        <5>4. Brings(client.commands, "systeminfo", n,
                     IF command.index = "systeminfo" THEN command.value ELSE cl.serverId,
                     sv.values.systeminfo)
          BY <1>5, <1>6, <5>2, BringsExecuted DEF command
        <5>5. /\ Brings(client.commands, "cs", n, cl'.cs, sv.values.cs)
              /\ Brings(client.commands, "systeminfo", n, cl'.serverId, sv.values.systeminfo)
          BY <1>9, <1>12, <5>3, <5>4
        <5>6. QED
          BY <1>2, <5>1, <5>5 DEF BringsBoth
      <4>4. QED
        BY <1>5, <1>6, <4>2, <4>3
    <3>2. ASSUME ~Away, NEW i, IsGamestate(i)
          PROVE  /\ toClient[i].values.systeminfo = Map
                 /\ BringsBoth(toClient[i].reliable, toClient[i].values.cs,
                               toClient[i].values.systeminfo)
      BY <2>1, <3>2 DEF Told
    <3>3. \A k, cs, id : BringsBoth(k, cs, id)' = BringsBoth(k, cs, id)
      BY <1>2 DEF BringsBoth
    <3>4. QED
      BY <1>2, <1>12, <2>2, <3>1, <3>2, <3>3 DEF Told
  <2>12. Untold'
    <3>1. \A cs : WillBeTold(cs)' = WillBeTold(cs)
      BY <1>2 DEF WillBeTold
    <3>2. Away /\ cl'.serverId = Map => cl.serverId = Map /\ command.index # "systeminfo"
      BY <1>12, <2>3, <2>4
    <3>3. Away /\ ~cl.replayed /\ cl.serverId = Map =>
            /\ WillBeTold(cl.cs) /\ cl.gamestateSequence = Len(client.commands)
            /\ n <= cl.gamestateSequence
      BY <1>6, <2>1 DEF Untold
    <3>4. ASSUME Away, ~r, cl'.serverId = Map
          PROVE  WillBeTold(cl'.cs) /\ cl'.gamestateSequence = Len(client.commands)
      <4>1. command.index = "map_restart"
        BY <2>10, <3>2, <3>3, <3>4
      <4>2. cl'.cs = cl.cs
        BY <1>9, <1>12, <4>1
      <4>3. QED
        BY <1>13, <2>10, <3>2, <3>3, <3>4, <4>2
    <3>5. ASSUME Away, \E i \in DOMAIN toServer : toServer[i].serverId = Map
          PROVE  cl'.serverId = Map \/ r
      <4>1. cl.serverId = Map \/ cl.replayed
        BY <2>1, <3>5 DEF Untold
      <4>2. CASE cl.replayed
        BY <4>2 DEF r
      <4>3. CASE cl.serverId = Map /\ ~cl.replayed
        <5>1. n <= cl.gamestateSequence
          BY <3>3, <3>5, <4>3
        <5>2. command.index # "map_restart" => r
          BY <5>1 DEF r
        <5>3. command.index = "map_restart" => cl'.serverId = cl.serverId
          BY <1>9, <1>12
        <5>4. QED
          BY <4>3, <5>2, <5>3
      <4>4. QED
        BY <4>1, <4>2, <4>3
    <3>6. Away => \A i : IsGamestate(i) /\ toClient[i].values.systeminfo = Map =>
            WillBeTold(toClient[i].values.cs) /\ toClient[i].reliable = Len(client.commands)
      BY <2>1 DEF Untold
    <3>7. Away /\ (cl'.serverId = Map \/ \E i \in DOMAIN toServer : toServer[i].serverId = Map) =>
            \A i : IsGamestate(i) => toClient[i].values.systeminfo = Map
      BY <2>1, <3>2 DEF Untold
    <3>8. \A i : Away /\ IsGamestate(i) /\ toClient[i].values.systeminfo = Map =>
            WillBeTold(toClient[i].values.cs)'
      BY <1>2, <3>6 DEF WillBeTold
    <3>9. Away /\ ~r /\ cl'.serverId = Map => WillBeTold(cl.cs)'
      BY <1>2, <3>4 DEF WillBeTold
    <3>10. QED
      BY <1>2, <1>12, <2>2, <3>4, <3>5, <3>6, <3>7, <3>8, <3>9 DEF Untold
  <2>13. QED
    BY <2>5, <2>6, <2>7, <2>8, <2>9, <2>11, <2>12 DEF Orderly
<1>19. QED
  BY <1>2, <1>14, <1>15, <1>17, <1>18 DEF GInv

\* The message that arrives is no longer under way.
LEMMA Arrived ==
  ASSUME Typed, toClient # <<>>, toClient' = Tail(toClient)
  PROVE  /\ toClient' \in Seq(Downlink)
         /\ Head(toClient) = toClient[1] /\ 1 \in DOMAIN toClient /\ Head(toClient) \in Downlink
         /\ \A i \in DOMAIN toClient' :
              i \in Nat /\ 1 < i + 1 /\ i + 1 \in DOMAIN toClient /\ toClient'[i] = toClient[i + 1]
         /\ \A i : IsGamestate(i)' =>
              /\ i \in DOMAIN toClient' /\ IsGamestate(i + 1) /\ toClient'[i] = toClient[i + 1]
         /\ \A i, j : IsGamestate(i)' /\ IsGamestate(j)' /\ i < j => i + 1 < j + 1
<1>1. toClient \in Seq(Downlink)
  BY DEF Typed
<1>2. /\ toClient' \in Seq(Downlink)
      /\ Head(toClient) = toClient[1] /\ 1 \in DOMAIN toClient /\ Head(toClient) \in Downlink
      /\ \A i \in DOMAIN toClient' : i + 1 \in DOMAIN toClient /\ toClient'[i] = toClient[i + 1]
  BY <1>1, TailIs
<1>3. \A i \in DOMAIN toClient' : i \in Nat /\ 1 < i + 1
  BY <1>2
<1>4. \A i : IsGamestate(i)' =>
        /\ i \in DOMAIN toClient' /\ IsGamestate(i + 1) /\ toClient'[i] = toClient[i + 1]
  BY <1>2 DEF IsGamestate
<1>5. QED
  BY <1>2, <1>3, <1>4

\* What holds with or without an early map_restart, when the client has taken a message.
LEMMA ParsedInv ==
  ASSUME GInv, toClient # <<>>, toClient' = Tail(toClient), UNCHANGED <<sv, client>>,
         cl' \in ClientSide, toServer' \in Seq(Uplink),
         cl'.lastExecuted = cl.lastExecuted,
         cl'.serverCommandSequence \in {cl.serverCommandSequence, Head(toClient).reliable},
         cl'.snapshotSequence <= cl'.serverCommandSequence,
         cl'.gamestateSequence <= cl'.serverCommandSequence,
         cl'.serverId <= sv.serverId, cl'.loaded => ~cl'.downloading,
         Len(cl.commands) <= Len(cl'.commands),
         \A i \in DOMAIN toServer' :
           \/ i \in DOMAIN toServer /\ toServer'[i] = toServer[i]
           \/ /\ i = Len(toServer) + 1 /\ toServer'[i].serverId = cl.serverId
              /\ toServer'[i].commands \in Len(cl.commands) .. Len(cl'.commands)
  PROVE  Typed' /\ DownInOrder' /\ UpInOrder' /\ IdsGiven' /\ Basics'
<1>1. Typed /\ DownInOrder /\ UpInOrder /\ IdsGiven /\ Basics
  BY DEF GInv
<1>2. sv' = sv /\ client' = client
  OBVIOUS
<1>3. /\ toClient' \in Seq(Downlink)
      /\ Head(toClient) = toClient[1] /\ 1 \in DOMAIN toClient
      /\ \A i \in DOMAIN toClient' :
           i \in Nat /\ 1 < i + 1 /\ i + 1 \in DOMAIN toClient /\ toClient'[i] = toClient[i + 1]
      /\ \A i : IsGamestate(i)' =>
           /\ i \in DOMAIN toClient' /\ IsGamestate(i + 1) /\ toClient'[i] = toClient[i + 1]
  BY <1>1, Arrived
<1>4. Typed'
  BY <1>1, <1>2, <1>3 DEF Typed
<1>5. /\ Len(client.commands) \in Nat /\ Len(cl.commands) \in Nat /\ Len(cl'.commands) \in Nat
      /\ cl.serverCommandSequence \in Nat /\ cl.lastExecuted \in Nat
      /\ client.lastClientCommand \in Nat
      /\ \A i \in DOMAIN toClient : toClient[i].reliable \in Nat
      /\ \A i \in DOMAIN toServer : toServer[i].commands \in Nat
  <2>1. Len(client.commands) \in Nat /\ Len(cl.commands) \in Nat
    BY <1>1, MessageFields
  <2>2. cl'.commands \in Seq(DownloadName)
    BY DEF ClientSide
  <2>3. Len(cl'.commands) \in Nat
    BY <2>2
  <2>4. cl.serverCommandSequence \in Nat /\ cl.lastExecuted \in Nat
        /\ client.lastClientCommand \in Nat
    BY <1>1, Numbers
  <2>5. QED
    BY <1>1, <2>1, <2>3, <2>4, MessageNumbers
<1>6. /\ cl.serverCommandSequence <= cl'.serverCommandSequence
      /\ cl'.serverCommandSequence <= Len(client.commands)
      /\ \A i \in DOMAIN toClient' : cl'.serverCommandSequence <= toClient'[i].reliable
      /\ cl'.serverCommandSequence \in Nat
  <2>1. CASE cl'.serverCommandSequence = cl.serverCommandSequence
    BY <1>1, <1>3, <1>5, <2>1 DEF DownInOrder
  <2>2. CASE cl'.serverCommandSequence = toClient[1].reliable
    BY <1>1, <1>3, <1>5, <2>2 DEF DownInOrder
  <2>3. QED
    BY <1>3, <2>1, <2>2
<1>7. DownInOrder'
  <2>1. cl'.lastExecuted <= cl'.serverCommandSequence
    BY <1>1, <1>5, <1>6 DEF DownInOrder
  <2>2. \A i \in DOMAIN toClient' : toClient'[i].reliable <= Len(client.commands)
    BY <1>1, <1>3 DEF DownInOrder
  <2>3. ASSUME NEW i \in DOMAIN toClient', NEW j \in DOMAIN toClient', i < j
        PROVE  toClient'[i].reliable <= toClient'[j].reliable
    <3>1. i + 1 < j + 1
      BY <1>3, <2>3
    <3>2. QED
      BY <1>1, <1>3, <3>1 DEF DownInOrder
  <2>4. QED
    BY <1>2, <1>6, <2>1, <2>2, <2>3 DEF DownInOrder
<1>8. UpInOrder'
  <2>1. client.lastClientCommand <= Len(cl'.commands)
    BY <1>1, <1>5 DEF UpInOrder
  <2>2. ASSUME NEW i \in DOMAIN toServer'
        PROVE  /\ client.lastClientCommand <= toServer'[i].commands
               /\ toServer'[i].commands <= Len(cl'.commands)
    <3>1. CASE i \in DOMAIN toServer /\ toServer'[i] = toServer[i]
      BY <1>1, <1>5, <3>1 DEF UpInOrder
    <3>2. CASE toServer'[i].commands \in Len(cl.commands) .. Len(cl'.commands)
      BY <1>1, <1>5, <3>2 DEF UpInOrder
    <3>3. QED
      BY <3>1, <3>2
  <2>3. ASSUME NEW i \in DOMAIN toServer', NEW j \in DOMAIN toServer', i < j
        PROVE  toServer'[i].commands <= toServer'[j].commands
    <3>1. i \in Nat /\ j \in Nat /\ DOMAIN toServer = 1 .. Len(toServer)
          /\ Len(toServer) \in Nat
      BY <1>1 DEF Typed
    <3>2. CASE j \in DOMAIN toServer /\ toServer'[j] = toServer[j]
      <4>1. i \in DOMAIN toServer /\ toServer'[i] = toServer[i]
        BY <2>3, <3>1, <3>2
      <4>2. QED
        BY <1>1, <2>3, <3>2, <4>1 DEF UpInOrder
    <3>3. CASE j = Len(toServer) + 1 /\ toServer'[j].commands \in Len(cl.commands) .. Len(cl'.commands)
      <4>1. i \in DOMAIN toServer /\ toServer'[i] = toServer[i]
        BY <2>3, <3>1, <3>3
      <4>2. toServer[i].commands <= Len(cl.commands)
        BY <1>1, <4>1 DEF UpInOrder
      <4>3. QED
        BY <1>5, <3>3, <4>1, <4>2
    <3>4. QED
      BY <3>2, <3>3
  <2>4. QED
    BY <1>2, <2>1, <2>2, <2>3 DEF UpInOrder
<1>9. IdsGiven'
  <2>1. \A i \in DOMAIN toServer' : toServer'[i].serverId <= sv.serverId
    BY <1>1 DEF IdsGiven
  <2>2. \A i : IsGamestate(i)' => toClient'[i].values.systeminfo <= sv.serverId
    BY <1>1, <1>3 DEF IdsGiven
  <2>3. QED
    BY <1>1, <1>2, <2>1, <2>2 DEF IdsGiven
<1>10. Basics'
  BY <1>1, <1>2 DEF Basics
<1>11. QED
  BY <1>4, <1>7, <1>8, <1>9, <1>10

\* A message without a gamestate, and with a block only if the client expects none.
LEMMA ParseOtherInv ==
  ASSUME GInv, toClient # <<>>, toClient' = Tail(toClient), UNCHANGED <<sv, client, toServer>>,
         cl' \in ClientSide, cl'.lastExecuted = cl.lastExecuted,
         cl'.serverId = cl.serverId, cl'.cs = cl.cs,
         cl'.serverCommandSequence \in {cl.serverCommandSequence, Head(toClient).reliable},
         cl'.snapshotSequence \in {cl.snapshotSequence, cl'.serverCommandSequence},
         cl'.gamestateSequence = cl.gamestateSequence,
         \/ cl'.commands = cl.commands
         \/ /\ Head(toClient).kind = "block" /\ ~cl.downloading
            /\ cl'.commands = Append(cl.commands, "stopdl"),
         cl'.lacks = cl.lacks, cl'.loaded = cl.loaded,
         cl'.downloading = cl.downloading, cl'.replayed = cl.replayed,
         cl'.gone => cl.gone \/ (Head(toClient).kind = "snapshot" /\ ~cl.loaded)
  PROVE  GInv'
<1>1. Typed /\ DownInOrder /\ UpInOrder /\ IdsGiven /\ Basics
  BY DEF GInv
<1>2. sv' = sv /\ client' = client /\ toServer' = toServer
  OBVIOUS
<1>3. /\ Head(toClient) = toClient[1] /\ 1 \in DOMAIN toClient
      /\ \A i \in DOMAIN toClient' :
           i \in Nat /\ 1 < i + 1 /\ i + 1 \in DOMAIN toClient /\ toClient'[i] = toClient[i + 1]
      /\ \A i : IsGamestate(i)' =>
           /\ i \in DOMAIN toClient' /\ IsGamestate(i + 1) /\ toClient'[i] = toClient[i + 1]
      /\ \A i, j : IsGamestate(i)' /\ IsGamestate(j)' /\ i < j => i + 1 < j + 1
  BY <1>1, Arrived
<1>4. /\ Len(cl.commands) \in Nat /\ Len(cl.commands) <= Len(cl'.commands)
      /\ DOMAIN cl.commands = 1 .. Len(cl.commands)
      /\ \A k \in 1 .. Len(cl.commands) : cl'.commands[k] = cl.commands[k]
      /\ \/ cl'.commands = cl.commands
         \/ /\ Head(toClient).kind = "block" /\ ~cl.downloading
            /\ \A k \in DOMAIN cl'.commands :
                 k \in 1 .. Len(cl.commands) \/ k = Len(cl.commands) + 1
            /\ cl'.commands[Len(cl.commands) + 1] = "stopdl"
            /\ DOMAIN cl.commands \subseteq DOMAIN cl'.commands
  <2>1. cl.commands \in Seq(DownloadName) /\ Len(cl.commands) \in Nat
        /\ DOMAIN cl.commands = 1 .. Len(cl.commands)
    BY <1>1, Fields, MessageFields
  <2>2. CASE cl'.commands = cl.commands
    BY <2>1, <2>2
  <2>3. CASE /\ Head(toClient).kind = "block" /\ ~cl.downloading
             /\ cl'.commands = Append(cl.commands, "stopdl")
    <3> DEFINE c == cl.commands
               d == Append(c, "stopdl")
    <3>1. c \in Seq(DownloadName)
      BY <2>1
    <3> HIDE DEF c
    <3>2. /\ Len(d) = Len(c) + 1
          /\ \A k \in 1 .. Len(c) : d[k] = c[k]
          /\ \A k \in DOMAIN d : k \in 1 .. Len(c) \/ k = Len(c) + 1
          /\ d[Len(c) + 1] = "stopdl" /\ DOMAIN c \subseteq DOMAIN d
      BY <3>1
    <3>3. Len(c) \in Nat
      BY <3>1
    <3>4. Len(c) <= Len(d)
      BY <3>2, <3>3
    <3>5. d = cl'.commands
      BY <2>3 DEF c
    <3> HIDE DEF d
    <3>6. QED
      BY <2>1, <2>3, <3>2, <3>4, <3>5 DEF c
  <2>4. QED
    BY <2>2, <2>3
<1>4a. Typed' /\ DownInOrder' /\ UpInOrder' /\ IdsGiven' /\ Basics'
  <2>1. /\ cl.serverCommandSequence <= cl'.serverCommandSequence
        /\ cl'.serverCommandSequence \in Nat /\ cl.serverCommandSequence \in Nat
    <3>1. cl.serverCommandSequence \in Nat /\ toClient[1].reliable \in Nat
      BY <1>1, <1>3, Numbers, MessageNumbers
    <3>2. cl.serverCommandSequence <= toClient[1].reliable
      BY <1>1, <1>3 DEF DownInOrder
    <3>3. QED
      BY <1>3, <3>1, <3>2
  <2>2. /\ cl'.snapshotSequence <= cl'.serverCommandSequence
        /\ cl'.gamestateSequence <= cl'.serverCommandSequence
    <3>1. /\ cl.snapshotSequence \in Nat /\ cl.gamestateSequence \in Nat
          /\ cl.snapshotSequence <= cl.serverCommandSequence
          /\ cl.gamestateSequence <= cl.serverCommandSequence
      BY <1>1, Numbers DEF DownInOrder
    <3>2. QED
      BY <2>1, <3>1
  <2>3. cl'.serverId <= sv.serverId /\ (cl'.loaded => ~cl'.downloading)
    BY <1>1 DEF IdsGiven, Basics
  <2>4. Len(cl.commands) <= Len(cl'.commands)
    BY <1>4
  <2>5. toServer' \in Seq(Uplink)
        /\ \A i \in DOMAIN toServer' : i \in DOMAIN toServer /\ toServer'[i] = toServer[i]
    BY <1>1, <1>2 DEF Typed
  <2>6. QED
    BY <2>2, <2>3, <2>4, <2>5, ParsedInv
<1>5. ASSUME ~client.early PROVE Orderly'
  <2>1. /\ World /\ Maps /\ Loaded /\ Lacking /\ Commanded /\ Downloads /\ Told /\ Untold
    BY <1>5 DEF GInv, Orderly
  <2>2. /\ Away' = Away /\ Map' = Map /\ From' = From /\ Fetching' = Fetching
        /\ \A id : CanLoad(id)' = CanLoad(id)
        /\ \A n \in Nat : Fetched(n) => Fetched(n)'
        /\ Named(client)'
        /\ cl'.commands = cl.commands \/ (cl.lacks = None /\ cl.commands # <<>>)
        /\ \A n, cs, id : BringsBoth(n, cs, id)' = BringsBoth(n, cs, id)
        /\ \A cs : WillBeTold(cs)' = WillBeTold(cs)
    <3>1. /\ Away' = Away /\ Map' = Map /\ From' = From /\ Fetching' = Fetching
      BY <1>2 DEF Away, Map, From, Fetching
    <3>2. \A id : CanLoad(id)' = CanLoad(id)
      BY DEF CanLoad
    <3>2a. ASSUME NEW n \in Nat, Fetched(n) PROVE Fetched(n)'
      <4>1. CASE cl'.commands = cl.commands
        BY <3>2a, <4>1 DEF Fetched
      <4>2. CASE /\ \A k \in DOMAIN cl'.commands :
                      k \in 1 .. Len(cl.commands) \/ k = Len(cl.commands) + 1
                 /\ cl'.commands[Len(cl.commands) + 1] = "stopdl"
                 /\ DOMAIN cl.commands \subseteq DOMAIN cl'.commands
        <5>1. n \in DOMAIN cl'.commands /\ n >= 3 /\ n <= Len(cl.commands)
          BY <1>4, <3>2a, <4>2 DEF Fetched
        <5>2. ASSUME NEW i \in DOMAIN cl'.commands
              PROVE  cl'.commands[i] = CASE i < n - 1 -> "download" [] i = n - 1 -> "nextdl"
                                         [] i = n -> "donedl" [] i > n -> "stopdl"
          <6>1. CASE i \in 1 .. Len(cl.commands)
            BY <1>4, <3>2a, <6>1 DEF Fetched
          <6>2. CASE i = Len(cl.commands) + 1
            <7>1. i > n /\ ~(i < n - 1) /\ i # n - 1 /\ i # n
              BY <1>4, <5>1, <6>2
            <7>2. QED
              BY <4>2, <6>2, <7>1
          <6>3. QED
            BY <4>2, <6>1, <6>2
        <5>3. QED
          BY <5>1, <5>2 DEF Fetched
      <4>3. QED
        BY <1>4, <4>1, <4>2
    <3>2b. Named(client)'
      <4>1. client.lastClientCommand \in Nat /\ client.lastClientCommand <= Len(cl.commands)
        BY <1>1, Numbers DEF UpInOrder
      <4>2. client.lastClientCommand # 0 =>
              cl'.commands[client.lastClientCommand] = cl.commands[client.lastClientCommand]
        BY <1>4, <4>1
      <4>3. Named(client)
        BY <2>1 DEF Commanded
      <4>4. QED
        BY <1>2, <4>2, <4>3 DEF Named
    <3>2c. cl'.commands = cl.commands \/ (cl.lacks = None /\ cl.commands # <<>>)
      <4>1. CASE Head(toClient).kind = "block" /\ ~cl.downloading
        <5>1. client.lastClientCommand > 0
          BY <1>3, <2>1, <4>1 DEF Commanded
        <5>2. cl.commands # <<>>
          <6>1. client.lastClientCommand \in Nat /\ client.lastClientCommand <= Len(cl.commands)
            BY <1>1, Numbers DEF UpInOrder
          <6>2. QED
            BY <5>1, <6>1
        <5>3. cl.lacks = None
          BY <2>1, <4>1, <5>2 DEF Lacking
        <5>4. QED
          BY <5>2, <5>3
      <4>2. QED
        BY <1>4, <4>1
    <3>3. /\ \A n, cs, id : BringsBoth(n, cs, id)' = BringsBoth(n, cs, id)
          /\ \A cs : WillBeTold(cs)' = WillBeTold(cs)
      BY <1>2 DEF BringsBoth, WillBeTold
    <3>4. QED
      BY <3>1, <3>2, <3>2a, <3>2b, <3>2c, <3>3
  <2>3. World'
    <3>1. ~cl'.gone
      BY <1>3, <2>1 DEF World, Loaded
    <3>2. QED
      BY <1>2, <2>1, <2>2, <3>1 DEF World
  <2>4. Maps'
    <3>1. \A i, j : IsGamestate(i)' /\ IsGamestate(j)' /\ i < j
                      => toClient'[i].values.systeminfo <= toClient'[j].values.systeminfo
      <4>1. ASSUME NEW i, NEW j, IsGamestate(i)', IsGamestate(j)', i < j
            PROVE  toClient'[i].values.systeminfo <= toClient'[j].values.systeminfo
        <5>1. /\ IsGamestate(i + 1) /\ IsGamestate(j + 1) /\ i + 1 < j + 1
              /\ toClient'[i] = toClient[i + 1] /\ toClient'[j] = toClient[j + 1]
          BY <1>3, <4>1
        <5>2. QED
          BY <2>1, <5>1 DEF Maps
      <4>2. QED
        BY <4>1
    <3>2. \A i : IsGamestate(i)' => toClient'[i].values.systeminfo <= Map
      BY <1>3, <2>1 DEF Maps
    <3>3. client.state = "connected" =>
            \A i : IsGamestate(i)' => toClient'[i].values.systeminfo < Map
      BY <1>3, <2>1 DEF Maps
    <3>4. QED
      BY <1>2, <2>1, <2>2, <3>1, <3>2, <3>3 DEF Maps
  <2>5. Loaded'
    <3>1. ASSUME NEW j \in DOMAIN toClient', toClient'[j].kind = "snapshot"
          PROVE  /\ cl.loaded
                 /\ \A i : IsGamestate(i)' /\ i < j => CanLoad(toClient'[i].values.systeminfo)
      <4>1. j + 1 \in DOMAIN toClient /\ toClient[j + 1].kind = "snapshot" /\ j \in Nat
        BY <1>3, <3>1
      <4>2. /\ cl.loaded
            /\ \A i : IsGamestate(i) /\ i < j + 1 => CanLoad(toClient[i].values.systeminfo)
        BY <2>1, <4>1 DEF Loaded
      <4>3. \A i : IsGamestate(i)' /\ i < j => i + 1 < j + 1
        BY <1>3, <4>1
      <4>4. QED
        BY <1>3, <4>2, <4>3
    <3>2. ~Away => \A i : IsGamestate(i)' => CanLoad(toClient'[i].values.systeminfo)
      BY <1>3, <2>1 DEF Loaded
    <3>3. QED
      BY <1>2, <2>1, <2>2, <3>1, <3>2 DEF Loaded
  <2>6. Lacking'
    <3>1. \A i : IsGamestate(i)' =>
            IsGamestate(i + 1) /\ toClient'[i].values = toClient[i + 1].values
      BY <1>3
    <3>2. QED
      BY <1>2, <2>1, <2>2, <3>1 DEF Lacking
  <2>7. Commanded'
    <3>1. \A i \in DOMAIN toClient' : toClient'[i].kind = "block" => client.lastClientCommand > 0
      BY <1>3, <2>1 DEF Commanded
    <3>2. QED
      BY <1>2, <2>1, <2>2, <3>1 DEF Commanded
  <2>8. Downloads'
    <3>1. ASSUME Fetching, NEW i, IsGamestate(i)'
          PROVE  /\ cl.lacks # None
                 /\ \A j \in DOMAIN toClient' : j < i => toClient'[j].kind # "block"
      <4>1. IsGamestate(i + 1) /\ i \in Nat
        BY <1>3, <3>1
      <4>2. \A j \in DOMAIN toClient' : j < i =>
              j + 1 < i + 1 /\ j + 1 \in DOMAIN toClient /\ toClient'[j] = toClient[j + 1]
        BY <1>3, <4>1
      <4>3. QED
        BY <2>1, <3>1, <4>1, <4>2 DEF Downloads
    <3>2. QED
      BY <1>2, <2>1, <2>2, <3>1 DEF Downloads
  <2>9. Told'
    <3>1. ASSUME ~Away, NEW i, IsGamestate(i)'
          PROVE  /\ toClient'[i].values.systeminfo = Map
                 /\ BringsBoth(toClient'[i].reliable, toClient'[i].values.cs,
                               toClient'[i].values.systeminfo)
      BY <1>3, <2>1, <3>1 DEF Told
    <3>2. QED
      BY <2>1, <2>2, <3>1 DEF Told
  <2>10. Untold'
    <3>1. ASSUME Away, NEW i, IsGamestate(i)'
          PROVE  /\ toClient'[i].values.systeminfo = Map =>
                      /\ WillBeTold(toClient'[i].values.cs)
                      /\ toClient'[i].reliable = Len(client.commands)
                 /\ cl.serverId = Map \/ (\E k \in DOMAIN toServer : toServer[k].serverId = Map) =>
                      toClient'[i].values.systeminfo = Map
      <4>1. IsGamestate(i + 1) /\ toClient'[i] = toClient[i + 1] /\ Untold
        BY <1>3, <2>1, <3>1
      <4>2. QED
        BY <3>1, <4>1 DEF Untold
    <3>2. QED
      BY <1>2, <2>1, <2>2, <3>1 DEF Untold
  <2>11. QED
    BY <2>3, <2>4, <2>5, <2>6, <2>7, <2>8, <2>9, <2>10 DEF Orderly
<1>6. QED
  BY <1>2, <1>4a, <1>5 DEF GInv

\* A gamestate.
LEMMA ParseGamestateInv ==
  ASSUME GInv, toClient # <<>>, toClient' = Tail(toClient), UNCHANGED <<sv, client, toServer>>,
         Head(toClient).kind = "gamestate", cl' = CL_ParseGamestate(Head(toClient))
  PROVE  GInv'
<1>1. Typed /\ DownInOrder /\ UpInOrder /\ IdsGiven /\ Basics
  BY DEF GInv
<1>2. sv' = sv /\ client' = client /\ toServer' = toServer
  OBVIOUS
<1>3. /\ Head(toClient) = toClient[1] /\ 1 \in DOMAIN toClient /\ toClient[1] \in Downlink
      /\ \A i \in DOMAIN toClient' :
           i \in Nat /\ 1 < i + 1 /\ i + 1 \in DOMAIN toClient /\ toClient'[i] = toClient[i + 1]
      /\ \A i : IsGamestate(i)' =>
           /\ i \in DOMAIN toClient' /\ IsGamestate(i + 1) /\ toClient'[i] = toClient[i + 1]
      /\ \A i, j : IsGamestate(i)' /\ IsGamestate(j)' /\ i < j => i + 1 < j + 1
  BY <1>1, Arrived
<1>4. IsGamestate(1)
  BY <1>3 DEF IsGamestate
<1> DEFINE id == toClient[1].values.systeminfo
           can == cl.lacks = None \/ id < cl.lacks
           added == IF ~can THEN Append(cl.commands, "download") ELSE cl.commands
<1>5. /\ id \in Nat /\ toClient[1].reliable \in Nat /\ toClient[1].values.cs \in Nat
      /\ toClient[1].newer \in BOOLEAN /\ can \in BOOLEAN
  <2>1. id \in Nat /\ toClient[1].reliable \in Nat /\ toClient[1].values.cs \in Nat
    BY <1>1, <1>3, MessageNumbers
  <2>2. toClient[1].newer \in BOOLEAN
    BY <1>3 DEF Downlink
  <2>3. QED
    BY <2>1, <2>2
<1>6. /\ added \in Seq(DownloadName) /\ Len(cl.commands) \in Nat /\ Len(added) \in Nat
      /\ Len(cl.commands) <= Len(added)
      /\ \A k \in 1 .. Len(cl.commands) : added[k] = cl.commands[k]
      /\ can => added = cl.commands
      /\ ~can => /\ \A k \in DOMAIN added : k \in 1 .. Len(cl.commands) \/ added[k] = "download"
  <2>1. cl.commands \in Seq(DownloadName) /\ "download" \in DownloadName
    BY <1>1, Fields DEF DownloadName
  <2>2. CASE can
    BY <2>1, <2>2
  <2>3. CASE ~can
    <3>1. added = Append(cl.commands, "download")
      BY <2>3
    <3> HIDE DEF added, can
    <3>2. QED
      BY <2>1, <2>3, <3>1
  <2>4. QED
    BY <2>2, <2>3
<1>7. cl' = [cl EXCEPT !.newer = toClient[1].newer, !.serverCommandSequence = toClient[1].reliable,
                 !.gamestateSequence = toClient[1].reliable, !.snapshotSequence = 0,
                 !.replayed = FALSE, !.serverId = id, !.cs = toClient[1].values.cs,
                 !.loaded = can, !.downloading = ~can, !.commands = added]
  <2>1. cl.lacks \in Nat /\ None \in Nat
    BY <1>1, Numbers DEF None
  <2>2. (cl.lacks # None /\ id >= cl.lacks) = ~can
    BY <1>5, <2>1
  <2>3. cl \in ClientSide
    BY <1>1 DEF Typed
  <2> HIDE DEF id, can
  <2>4. cl' = [cl EXCEPT !.newer = toClient[1].newer, !.serverCommandSequence = toClient[1].reliable,
                 !.gamestateSequence = toClient[1].reliable, !.snapshotSequence = 0,
                 !.replayed = FALSE, !.serverId = id, !.cs = toClient[1].values.cs,
                 !.loaded = ~~can, !.downloading = ~can, !.commands = added]
    BY <1>3, <2>2, <2>3, Zenon DEF CL_ParseGamestate, id, ClientSide
  <2>5. QED
    BY <1>5, <2>4
<1> HIDE DEF added
<1>8. /\ cl' \in ClientSide
      /\ cl'.serverCommandSequence = toClient[1].reliable
      /\ cl'.gamestateSequence = toClient[1].reliable /\ cl'.snapshotSequence = 0
      /\ cl'.replayed = FALSE /\ cl'.serverId = id /\ cl'.cs = toClient[1].values.cs
      /\ cl'.loaded = can /\ cl'.downloading = ~can /\ cl'.commands = added
      /\ cl'.lacks = cl.lacks /\ cl'.lastExecuted = cl.lastExecuted /\ cl'.gone = cl.gone
  <2> DEFINE reliable == toClient[1].reliable
             cs == toClient[1].values.cs
             newer == toClient[1].newer
             loaded == can
             downloading == ~can
  <2>1. cl \in ClientSide
    BY <1>1 DEF Typed
  <2>2. /\ id \in Nat /\ reliable \in Nat /\ cs \in Nat /\ newer \in BOOLEAN
        /\ loaded \in BOOLEAN /\ downloading \in BOOLEAN /\ added \in Seq(DownloadName)
    BY <1>5, <1>6
  <2>3. cl' = [cl EXCEPT !.newer = newer, !.serverCommandSequence = reliable,
                 !.gamestateSequence = reliable, !.snapshotSequence = 0,
                 !.replayed = FALSE, !.serverId = id, !.cs = cs,
                 !.loaded = loaded, !.downloading = downloading, !.commands = added]
    BY <1>7
  <2> HIDE DEF id, reliable, cs, newer, loaded, downloading
  <2>4. cl' \in ClientSide
    <3> DEFINE c == [cl EXCEPT !.newer = newer, !.serverCommandSequence = reliable,
                         !.gamestateSequence = reliable, !.snapshotSequence = 0,
                         !.replayed = FALSE]
               d == [c EXCEPT !.serverId = id, !.cs = cs,
                              !.loaded = loaded, !.downloading = downloading]
               e == [d EXCEPT !.commands = added]
    <3>1. c \in ClientSide
      BY <2>1, <2>2 DEF ClientSide
    <3>2. cl' = e
      BY <2>1, <2>3 DEF ClientSide
    <3> HIDE DEF c
    <3>3. d \in ClientSide
      BY <2>2, <3>1 DEF ClientSide
    <3> HIDE DEF d
    <3>4. e \in ClientSide
      BY <2>2, <3>3 DEF ClientSide
    <3>5. QED
      BY <3>2, <3>4
  <2>5. /\ cl'.serverCommandSequence = reliable
        /\ cl'.gamestateSequence = reliable /\ cl'.snapshotSequence = 0
        /\ cl'.replayed = FALSE /\ cl'.serverId = id /\ cl'.cs = cs
        /\ cl'.loaded = loaded /\ cl'.downloading = downloading /\ cl'.commands = added
        /\ cl'.lacks = cl.lacks /\ cl'.lastExecuted = cl.lastExecuted /\ cl'.gone = cl.gone
    BY <2>1, <2>3 DEF ClientSide
  <2>6. QED
    BY <2>4, <2>5 DEF reliable, cs, loaded, downloading
<1>9. can = CanLoad(id) /\ \A n : CanLoad(n)' = CanLoad(n)
  BY <1>8 DEF CanLoad
<1> HIDE DEF can
<1>10. Typed' /\ DownInOrder' /\ UpInOrder' /\ IdsGiven' /\ Basics'
  <2>1. /\ cl'.snapshotSequence <= cl'.serverCommandSequence
        /\ cl'.gamestateSequence <= cl'.serverCommandSequence
    BY <1>5, <1>8
  <2>2. cl'.serverId <= sv.serverId /\ (cl'.loaded => ~cl'.downloading)
    BY <1>1, <1>4, <1>8 DEF IdsGiven
  <2>3. Len(cl.commands) <= Len(cl'.commands)
    BY <1>6, <1>8
  <2>4. toServer' \in Seq(Uplink)
        /\ \A i \in DOMAIN toServer' : i \in DOMAIN toServer /\ toServer'[i] = toServer[i]
    BY <1>1, <1>2 DEF Typed
  <2>5. QED
    BY <1>3, <1>8, <2>1, <2>2, <2>3, <2>4, ParsedInv
<1> HIDE DEF id
<1>11. ASSUME ~client.early PROVE Orderly'
  <2>1. /\ World /\ Maps /\ Loaded /\ Lacking /\ Commanded /\ Downloads /\ Told /\ Untold
    BY <1>11 DEF GInv, Orderly
  <2>2. /\ Away' = Away /\ Map' = Map /\ Fetching' = Fetching
        /\ \A n, cs, v : BringsBoth(n, cs, v)' = BringsBoth(n, cs, v)
        /\ \A cs : WillBeTold(cs)' = WillBeTold(cs)
    <3>1. Away' = Away /\ Map' = Map /\ Fetching' = Fetching
      BY <1>2 DEF Away, Map, Fetching
    <3>2. /\ \A n, cs, v : BringsBoth(n, cs, v)' = BringsBoth(n, cs, v)
          /\ \A cs : WillBeTold(cs)' = WillBeTold(cs)
      BY <1>2 DEF BringsBoth, WillBeTold
    <3>3. QED
      BY <3>1, <3>2
  <2>3. World'
    BY <1>2, <1>8, <2>1, <2>2 DEF World
  <2>4. id <= Map /\ Map \in Nat /\ cl.lacks \in Nat
    BY <1>1, <1>4, <2>1, Numbers DEF Maps, Map, id
  <2>5. \A i : IsGamestate(i)' => id <= toClient'[i].values.systeminfo
    <3>1. ASSUME NEW i, IsGamestate(i)'
          PROVE  id <= toClient'[i].values.systeminfo
      <4>1. IsGamestate(i + 1) /\ 1 < i + 1 /\ toClient'[i] = toClient[i + 1]
        BY <1>3, <3>1
      <4>2. QED
        BY <1>4, <2>1, <4>1 DEF Maps, id
    <3>2. QED
      BY <3>1
  <2>6. Maps'
    <3>1. ASSUME NEW i, NEW j, IsGamestate(i)', IsGamestate(j)', i < j
          PROVE  toClient'[i].values.systeminfo <= toClient'[j].values.systeminfo
      <4>1. /\ IsGamestate(i + 1) /\ IsGamestate(j + 1) /\ i + 1 < j + 1
            /\ toClient'[i] = toClient[i + 1] /\ toClient'[j] = toClient[j + 1]
        BY <1>3, <3>1
      <4>2. QED
        BY <2>1, <4>1 DEF Maps
    <3>2. \A i : IsGamestate(i)' => toClient'[i].values.systeminfo <= Map
      BY <1>3, <2>1 DEF Maps
    <3>3. client.state = "connected" =>
            /\ cl'.serverId < Map
            /\ \A i : IsGamestate(i)' => toClient'[i].values.systeminfo < Map
      BY <1>3, <1>4, <1>8, <2>1 DEF Maps, id
    <3>4. QED
      BY <1>2, <2>1, <2>2, <3>1, <3>2, <3>3 DEF Maps
  <2>7. Loaded'
    <3>1. Away /\ cl'.loaded /\ cl'.serverId = Map => CanLoad(Map)
      BY <1>8, <1>9
    <3>2. ASSUME Away, NEW i \in DOMAIN toServer, toServer[i].move, toServer[i].serverId = Map
          PROVE  CanLoad(Map) /\ cl'.loaded
      <4>1. CanLoad(Map)
        BY <2>1, <3>2 DEF Loaded
      <4>2. id = Map
        BY <1>4, <2>1, <3>2 DEF Untold, id
      <4>3. QED
        BY <1>8, <1>9, <4>1, <4>2
    <3>3. ~Away => /\ cl'.loaded
                   /\ \A i : IsGamestate(i)' => CanLoad(toClient'[i].values.systeminfo)
      BY <1>3, <1>4, <1>8, <1>9, <2>1 DEF Loaded, id
    <3>4. ASSUME NEW j \in DOMAIN toClient', toClient'[j].kind = "snapshot"
          PROVE  /\ cl'.loaded
                 /\ \A i : IsGamestate(i)' /\ i < j => CanLoad(toClient'[i].values.systeminfo)
      <4>1. j + 1 \in DOMAIN toClient /\ toClient[j + 1].kind = "snapshot" /\ j \in Nat /\ 1 < j + 1
        BY <1>3, <3>4
      <4>2. \A i : IsGamestate(i) /\ i < j + 1 => CanLoad(toClient[i].values.systeminfo)
        BY <2>1, <4>1 DEF Loaded
      <4>3. \A i : IsGamestate(i)' /\ i < j => i + 1 < j + 1
        BY <1>3, <4>1
      <4>4. CanLoad(id)
        BY <1>4, <4>1, <4>2 DEF id
      <4>5. \A i : IsGamestate(i)' => IsGamestate(i + 1) /\ toClient'[i] = toClient[i + 1]
        BY <1>3
      <4>6. \A i : IsGamestate(i)' /\ i < j => CanLoad(toClient'[i].values.systeminfo)
        BY <4>2, <4>3, <4>5
      <4>7. QED
        BY <1>8, <1>9, <4>4, <4>6
    <3>5. QED
      BY <1>2, <1>9, <2>2, <3>1, <3>2, <3>3, <3>4 DEF Loaded
  <2>8. cl.lacks = None => CanLoad(id)
    BY DEF CanLoad
  <2>9. Lacking'
    <3>1. cl'.downloading => cl'.lacks # None
      BY <1>8, <1>9, <2>8
    <3>2. ASSUME cl.lacks # None, added # <<>>
          PROVE  /\ ~CanLoad(Map) /\ ~cl'.loaded /\ cl'.downloading
                 /\ \A i : IsGamestate(i)' => ~CanLoad(toClient'[i].values.systeminfo)
                 /\ \A i \in DOMAIN added : added[i] = "download"
      <4>1. ~CanLoad(id)
        <5>1. CASE cl.commands # <<>>
          BY <1>4, <2>1, <3>2, <5>1 DEF Lacking, id
        <5>2. CASE cl.commands = <<>>
          BY <1>6, <1>9, <3>2, <5>2
        <5>3. QED
          BY <5>1, <5>2
      <4>2. cl.lacks <= id
        BY <2>4, <1>5, <4>1 DEF CanLoad, id
      <4>3. ~CanLoad(Map)
        BY <1>5, <2>4, <3>2, <4>2 DEF CanLoad, id
      <4>4. ASSUME NEW i, IsGamestate(i)'
            PROVE  ~CanLoad(toClient'[i].values.systeminfo)
        <5>1. toClient'[i].values.systeminfo \in Nat /\ id \in Nat
          BY <1>1, <1>3, <1>5, <4>4, MessageNumbers DEF IsGamestate, id
        <5> DEFINE x == toClient'[i].values.systeminfo
        <5>2. x \in Nat /\ id <= x
          BY <2>5, <4>4, <5>1
        <5> HIDE DEF x
        <5>3. ~CanLoad(x)
          BY <2>4, <3>2, <4>2, <5>1, <5>2 DEF CanLoad
        <5>4. QED
          BY <5>3 DEF x
      <4>5. ASSUME NEW i \in DOMAIN added
            PROVE  added[i] = "download"
        <5>1. CASE i \in 1 .. Len(cl.commands)
          <6>1. cl.commands # <<>> /\ i \in DOMAIN cl.commands
            BY <1>1, <5>1, MessageFields
          <6>2. cl.commands[i] = "download"
            BY <2>1, <3>2, <6>1 DEF Lacking
          <6>3. QED
            BY <1>6, <5>1, <6>2
        <5>2. CASE ~(i \in 1 .. Len(cl.commands))
          BY <1>6, <1>9, <4>1, <5>2
        <5>3. QED
          BY <5>1, <5>2
      <4>6. QED
        BY <1>8, <1>9, <4>1, <4>3, <4>4, <4>5
    <3>3. QED
      BY <1>2, <1>8, <1>9, <2>1, <2>2, <3>1, <3>2 DEF Lacking
  <2>10. Commanded'
    <3>1. \A i \in DOMAIN toClient' : toClient'[i].kind = "block" => client.lastClientCommand > 0
      BY <1>3, <2>1 DEF Commanded
    <3>2. cl.lacks = None /\ added # <<>> =>
            client.lastClientCommand > 0 /\ \E n \in Nat : Fetched(n)'
      <4>1. CASE cl.lacks = None
        <5>1. added = cl.commands
          BY <1>6, <1>9, <2>8, <4>1
        <5>2. cl'.commands = cl.commands
          BY <1>8, <5>1
        <5>3. \A n : Fetched(n)' = Fetched(n)
          BY ONLY <5>2 DEF Fetched
        <5>4. QED
          BY <2>1, <4>1, <5>1, <5>3 DEF Commanded
      <4>2. QED
        BY <4>1
    <3>3. Named(client)'
      <4>1. client.lastClientCommand \in Nat /\ client.lastClientCommand <= Len(cl.commands)
        BY <1>1, Numbers DEF UpInOrder
      <4>2. client.lastClientCommand # 0 =>
              added[client.lastClientCommand] = cl.commands[client.lastClientCommand]
        BY <1>6, <4>1
      <4>3. Named(client)
        BY <2>1 DEF Commanded
      <4>4. QED
        BY <1>2, <1>8, <4>2, <4>3 DEF Named
    <3>4. QED
      BY <1>2, <1>8, <3>1, <3>2, <3>3 DEF Commanded
  <2>11. Downloads'
    <3>1. ASSUME Fetching, NEW i, IsGamestate(i)'
          PROVE  /\ cl.lacks # None
                 /\ \A j \in DOMAIN toClient' : j < i => toClient'[j].kind # "block"
      <4>1. IsGamestate(i + 1) /\ i \in Nat
        BY <1>3, <3>1
      <4>2. \A j \in DOMAIN toClient' : j < i =>
              j + 1 < i + 1 /\ j + 1 \in DOMAIN toClient /\ toClient'[j] = toClient[j + 1]
        BY <1>3, <4>1
      <4>3. QED
        BY <2>1, <3>1, <4>1, <4>2 DEF Downloads
    <3>2. ASSUME Fetching PROVE ~cl'.loaded
      <4>1. cl.lacks # None
        BY <1>4, <2>1, <3>2 DEF Downloads
      <4>2. client.lastClientCommand > 0
        BY <1>1, <2>1, <3>2, FetchingIs
      <4>3. cl.commands # <<>>
        <5>1. client.lastClientCommand \in Nat /\ client.lastClientCommand <= Len(cl.commands)
          BY <1>1, Numbers DEF UpInOrder
        <5>2. QED
          BY <1>6, <4>2, <5>1
      <4>4. ~CanLoad(id)
        BY <1>4, <2>1, <4>1, <4>3 DEF Lacking, id
      <4>5. QED
        BY <1>8, <1>9, <4>4
    <3>3. QED
      BY <1>2, <1>8, <2>1, <2>2, <3>1, <3>2 DEF Downloads
  <2>12. Told'
    <3>1. ASSUME ~Away, NEW i, IsGamestate(i)'
          PROVE  /\ toClient'[i].values.systeminfo = Map
                 /\ BringsBoth(toClient'[i].reliable, toClient'[i].values.cs,
                               toClient'[i].values.systeminfo)
      BY <1>3, <2>1, <3>1 DEF Told
    <3>2. From' = toClient[1].reliable
      <4>1. /\ cl.lastExecuted <= toClient[1].reliable /\ cl.lastExecuted \in Nat
        <5>1. cl.lastExecuted \in Nat /\ cl.serverCommandSequence \in Nat
          BY <1>1, Numbers
        <5>2. cl.lastExecuted <= cl.serverCommandSequence
              /\ cl.serverCommandSequence <= toClient[1].reliable
          BY <1>1, <1>3 DEF DownInOrder
        <5>3. QED
          BY <1>5, <5>1, <5>2
      <4>2. QED
        BY <1>5, <1>8, <4>1 DEF From
    <3>3. ~Away => BringsBoth(toClient[1].reliable, toClient[1].values.cs, id)
      BY <1>4, <2>1 DEF Told, id
    <3>4. ~Away => BringsBoth(From, cl.cs, cl.serverId)'
      BY <1>8, <2>2, <3>2, <3>3, Zenon
    <3>5. QED
      BY <2>2, <3>1, <3>4 DEF Told
  <2>13. Untold'
    <3>1. ASSUME Away, NEW i, IsGamestate(i)'
          PROVE  toClient'[i].values.systeminfo = Map =>
                      /\ WillBeTold(toClient'[i].values.cs)
                      /\ toClient'[i].reliable = Len(client.commands)
      BY <1>3, <2>1, <3>1 DEF Untold
    <3>2. ASSUME Away, cl'.serverId = Map
          PROVE  WillBeTold(cl'.cs) /\ cl'.gamestateSequence = Len(client.commands)
      BY <1>4, <1>8, <2>1, <3>2 DEF Untold, id
    <3>3. ASSUME Away, NEW i, IsGamestate(i)',
                 cl'.serverId = Map \/ \E k \in DOMAIN toServer : toServer[k].serverId = Map
          PROVE  toClient'[i].values.systeminfo = Map
      <4>1. id = Map
        BY <1>4, <1>8, <2>1, <3>3 DEF Untold, id
      <4>2. id <= toClient'[i].values.systeminfo /\ toClient'[i].values.systeminfo <= Map
        BY <1>3, <2>1, <2>5, <3>3 DEF Maps
      <4>3. toClient'[i].values.systeminfo \in Nat
        BY <1>1, <1>3, <3>3, MessageNumbers DEF IsGamestate
      <4> DEFINE x == toClient'[i].values.systeminfo
      <4>4. id <= x /\ x <= Map /\ x \in Nat
        BY <4>2, <4>3
      <4> HIDE DEF x
      <4>5. x = Map
        BY <2>4, <4>1, <4>4
      <4>6. QED
        BY <4>5 DEF x
    <3>4. Away /\ (\E k \in DOMAIN toServer : toServer[k].serverId = Map) => cl'.serverId = Map
      BY <1>4, <1>8, <2>1 DEF Untold, id
    <3>5. \A cs : WillBeTold(cs)' = WillBeTold(cs)
      BY <2>2
    <3>6. QED
      BY <1>2, <2>2, <3>1, <3>2, <3>3, <3>4 DEF Untold
  <2>14. QED
    BY <2>3, <2>6, <2>7, <2>9, <2>10, <2>11, <2>12, <2>13 DEF Orderly
<1>12. QED
  BY <1>2, <1>10, <1>11 DEF GInv

\* The block that the client waits for.
LEMMA ParseDownloadInv ==
  ASSUME GInv, toClient # <<>>, toClient' = Tail(toClient), UNCHANGED <<sv, client>>,
         Head(toClient).kind = "block", cl.downloading, CL_ParseDownload(Head(toClient))
  PROVE  GInv'
<1>1. Typed /\ DownInOrder /\ UpInOrder /\ IdsGiven /\ Basics
  BY DEF GInv
<1>2. sv' = sv /\ client' = client
  OBVIOUS
<1>3. /\ Head(toClient) = toClient[1] /\ 1 \in DOMAIN toClient /\ toClient[1] \in Downlink
      /\ \A i \in DOMAIN toClient' :
           i \in Nat /\ 1 < i + 1 /\ i + 1 \in DOMAIN toClient /\ toClient'[i] = toClient[i + 1]
      /\ \A i : IsGamestate(i)' =>
           /\ i \in DOMAIN toClient' /\ IsGamestate(i + 1) /\ toClient'[i] = toClient[i + 1]
      /\ \A i, j : IsGamestate(i)' /\ IsGamestate(j)' /\ i < j => i + 1 < j + 1
  BY <1>1, Arrived
<1> DEFINE n == Len(cl.commands)
           one == Append(cl.commands, "nextdl")
           both == Append(one, "donedl")
           newer == toClient[1].newer
           got == [cl EXCEPT !.newer = newer, !.downloading = FALSE, !.lacks = None,
                             !.commands = one]
           packet == Packet(got)
<1>4. /\ one \in Seq(DownloadName) /\ both \in Seq(DownloadName)
      /\ n \in Nat /\ Len(one) = n + 1 /\ Len(both) = n + 2
      /\ DOMAIN cl.commands = 1 .. n /\ DOMAIN both = 1 .. n + 2
      /\ \A k \in 1 .. n : both[k] = cl.commands[k]
      /\ both[n + 1] = "nextdl" /\ both[n + 2] = "donedl"
  <2> DEFINE c == cl.commands
  <2>1. c \in Seq(DownloadName) /\ {"nextdl", "donedl"} \subseteq DownloadName
    BY <1>1, Fields DEF DownloadName
  <2> HIDE DEF c
  <2>2. /\ Append(c, "nextdl") \in Seq(DownloadName)
        /\ Len(Append(c, "nextdl")) = Len(c) + 1 /\ Len(c) \in Nat /\ DOMAIN c = 1 .. Len(c)
        /\ \A k \in 1 .. Len(c) : Append(c, "nextdl")[k] = c[k]
        /\ Append(c, "nextdl")[Len(c) + 1] = "nextdl"
    BY <2>1
  <2> DEFINE o == Append(c, "nextdl")
  <2>3. o \in Seq(DownloadName) /\ Len(o) = Len(c) + 1
    BY <2>2
  <2> HIDE DEF o
  <2>4. /\ Append(o, "donedl") \in Seq(DownloadName)
        /\ Len(Append(o, "donedl")) = Len(c) + 2
        /\ DOMAIN Append(o, "donedl") = 1 .. Len(c) + 2
        /\ \A k \in 1 .. Len(c) + 1 : Append(o, "donedl")[k] = o[k]
        /\ Append(o, "donedl")[Len(c) + 2] = "donedl"
    BY <2>1, <2>2, <2>3
  <2>5. \A k \in 1 .. Len(c) : k \in 1 .. Len(c) + 1
    BY <2>2
  <2>6. Len(c) + 1 \in 1 .. Len(c) + 1
    BY <2>2
  <2>7. QED
    BY <2>2, <2>3, <2>4, <2>5, <2>6 DEF o, c
<1>5. /\ got \in ClientSide /\ newer \in BOOLEAN
      /\ got.serverId = cl.serverId /\ got.loaded = cl.loaded /\ got.commands = one
      /\ got.newer = newer
  <2>1. cl \in ClientSide /\ newer \in BOOLEAN /\ None \in Nat
    BY <1>1, <1>3 DEF Typed, Downlink, None
  <2> HIDE DEF one, newer
  <2>2. QED
    BY <1>4, <2>1 DEF ClientSide
<1>6. cl' = [cl EXCEPT !.newer = newer, !.downloading = FALSE, !.lacks = None,
                       !.commands = both]
  <2>1. cl' = [got EXCEPT !.commands = both]
    <3>1. cl' = [got EXCEPT !.commands = Append(@, "donedl")]
      BY <1>3 DEF CL_ParseDownload
    <3> HIDE DEF got, one
    <3>2. QED
      BY <1>5, <3>1 DEF ClientSide
  <2>2. cl \in ClientSide
    BY <1>1 DEF Typed
  <2> HIDE DEF both, one, newer
  <2>3. QED
    BY <2>1, <2>2 DEF ClientSide
<1>7. \/ toServer' = Append(toServer, packet)
      \/ toServer' = toServer
  BY <1>3 DEF CL_ParseDownload
<1>8. /\ packet \in Uplink /\ packet.serverId = cl.serverId /\ packet.commands = n + 1
      /\ packet.move = cl.loaded
  <2>1. got.serverId \in Nat /\ got.loaded \in BOOLEAN
    BY <1>5 DEF ClientSide
  <2>2. packet = [serverId |-> got.serverId, newer |-> newer, commands |-> n + 1,
                  move |-> got.loaded]
    BY <1>4, <1>5 DEF Packet
  <2>3. n + 1 \in Nat
    BY <1>4
  <2> HIDE DEF packet, got, newer, n
  <2>4. QED
    BY <1>5, <2>1, <2>2, <2>3 DEF Uplink
<1> HIDE DEF packet, got, both, one, newer
<1>9. /\ cl' \in ClientSide
      /\ cl'.commands = both /\ cl'.lacks = None /\ cl'.downloading = FALSE
      /\ cl'.serverCommandSequence = cl.serverCommandSequence
      /\ cl'.gamestateSequence = cl.gamestateSequence
      /\ cl'.snapshotSequence = cl.snapshotSequence /\ cl'.lastExecuted = cl.lastExecuted
      /\ cl'.replayed = cl.replayed /\ cl'.serverId = cl.serverId /\ cl'.cs = cl.cs
      /\ cl'.loaded = cl.loaded /\ cl'.gone = cl.gone
  <2>1. cl \in ClientSide /\ None \in Nat
    BY <1>1 DEF Typed, None
  <2>2. QED
    BY <1>4, <1>5, <1>6, <2>1 DEF ClientSide
<1>10. /\ toServer' \in Seq(Uplink)
       /\ \A i \in DOMAIN toServer' :
            \/ i \in DOMAIN toServer /\ toServer'[i] = toServer[i]
            \/ /\ i = Len(toServer) + 1 /\ toServer'[i] = packet
  <2>1. toServer \in Seq(Uplink)
    BY <1>1 DEF Typed
  <2>2. packet \in Uplink
    BY <1>8
  <2>3. CASE toServer' = Append(toServer, packet)
    BY ONLY <2>1, <2>2, <2>3
  <2>4. CASE toServer' = toServer
    BY ONLY <2>1, <2>4
  <2>5. QED
    BY <1>7, <2>3, <2>4
<1>11. Typed' /\ DownInOrder' /\ UpInOrder' /\ IdsGiven' /\ Basics'
  <2>1. /\ cl'.snapshotSequence <= cl'.serverCommandSequence
        /\ cl'.gamestateSequence <= cl'.serverCommandSequence
    BY <1>1, <1>9 DEF DownInOrder
  <2>2. cl'.serverId <= sv.serverId /\ (cl'.loaded => ~cl'.downloading)
    BY <1>1, <1>9 DEF IdsGiven
  <2>3. /\ Len(cl.commands) <= Len(cl'.commands)
        /\ n + 1 \in Len(cl.commands) .. Len(cl'.commands)
    BY <1>4, <1>9
  <2>4. \A i \in DOMAIN toServer' :
           \/ i \in DOMAIN toServer /\ toServer'[i] = toServer[i]
           \/ /\ i = Len(toServer) + 1 /\ toServer'[i].serverId = cl.serverId
              /\ toServer'[i].commands \in Len(cl.commands) .. Len(cl'.commands)
    BY <1>8, <1>10, <2>3
  <2>5. cl'.serverCommandSequence \in {cl.serverCommandSequence, Head(toClient).reliable}
    BY <1>9
  <2> HIDE DEF n
  <2>6. QED
    BY <1>9, <1>10, <2>1, <2>2, <2>3, <2>4, <2>5, ParsedInv
<1>12. ASSUME ~client.early PROVE Orderly'
  <2>1. /\ World /\ Maps /\ Loaded /\ Lacking /\ Commanded /\ Downloads /\ Told /\ Untold
    BY <1>12 DEF GInv, Orderly
  <2>2. /\ Away' = Away /\ Map' = Map /\ Fetching' = Fetching /\ From' = From
        /\ \A m, cs, v : BringsBoth(m, cs, v)' = BringsBoth(m, cs, v)
        /\ \A cs : WillBeTold(cs)' = WillBeTold(cs)
        /\ \A id : CanLoad(id)'
    <3>1. Away' = Away /\ Map' = Map /\ Fetching' = Fetching /\ From' = From
      BY <1>2, <1>9 DEF Away, Map, Fetching, From
    <3>2. /\ \A m, cs, v : BringsBoth(m, cs, v)' = BringsBoth(m, cs, v)
          /\ \A cs : WillBeTold(cs)' = WillBeTold(cs)
      BY <1>2 DEF BringsBoth, WillBeTold
    <3>3. \A id : CanLoad(id)'
      BY <1>9 DEF CanLoad
    <3>4. QED
      BY <3>1, <3>2, <3>3
  <2>3. /\ client.lastClientCommand > 0 /\ client.lastClientCommand \in Nat
        /\ client.lastClientCommand <= n /\ n > 0
    <3>1. client.lastClientCommand > 0
      BY <1>3, <2>1 DEF Commanded
    <3>2. client.lastClientCommand \in Nat /\ client.lastClientCommand <= n
      BY <1>1, Numbers DEF UpInOrder
    <3>3. QED
      BY <1>4, <3>1, <3>2
  <2>4. /\ cl.lacks # None /\ ~CanLoad(Map) /\ ~cl.loaded
        /\ \A i \in DOMAIN cl.commands : cl.commands[i] = "download"
    <3>1. cl.lacks # None
      BY <2>1 DEF Lacking
    <3>2. cl.commands # <<>>
      BY <2>3
    <3>3. QED
      BY <2>1, <3>1, <3>2 DEF Lacking
  <2>5. Away
    BY <2>1, <2>4 DEF Loaded
  <2>6. \A i \in DOMAIN toClient' : toClient'[i].kind # "snapshot"
    BY <1>3, <2>1, <2>4 DEF Loaded
  <2>7. World'
    BY <1>2, <1>9, <2>1, <2>2 DEF World
  <2>8. Maps'
    <3>1. ASSUME NEW i, NEW j, IsGamestate(i)', IsGamestate(j)', i < j
          PROVE  toClient'[i].values.systeminfo <= toClient'[j].values.systeminfo
      <4>1. /\ IsGamestate(i + 1) /\ IsGamestate(j + 1) /\ i + 1 < j + 1
            /\ toClient'[i] = toClient[i + 1] /\ toClient'[j] = toClient[j + 1]
        BY <1>3, <3>1
      <4>2. QED
        BY <2>1, <4>1 DEF Maps
    <3>2. \A i : IsGamestate(i)' => toClient'[i].values.systeminfo <= Map
      BY <1>3, <2>1 DEF Maps
    <3>3. client.state = "connected" =>
            /\ cl'.serverId < Map
            /\ \A i : IsGamestate(i)' => toClient'[i].values.systeminfo < Map
      BY <1>3, <1>9, <2>1 DEF Maps
    <3>4. client.state = "connected" => \A i \in DOMAIN toServer' : toServer'[i].serverId < Map
      BY <1>8, <1>10, <2>1 DEF Maps
    <3>5. QED
      BY <1>2, <2>1, <2>2, <3>1, <3>2, <3>3, <3>4 DEF Maps
  <2>9. Loaded'
    <3>1. \A i \in DOMAIN toServer' : ~(toServer'[i].move /\ toServer'[i].serverId = Map)
      BY <1>8, <1>10, <2>1, <2>4, <2>5 DEF Loaded
    <3>2. QED
      BY <2>2, <2>5, <2>6, <3>1 DEF Loaded
  <2>10. Lacking'
    BY <1>9 DEF Lacking
  <2>11. Commanded'
    <3>1. ASSUME NEW k \in Nat, k = n + 2 PROVE Fetched(k)'
      <4>1. n + 2 \in DOMAIN both /\ n + 2 >= 3
        BY <1>4, <2>3
      <4>2. ASSUME NEW i \in DOMAIN both
            PROVE  both[i] = CASE i < (n + 2) - 1 -> "download" [] i = (n + 2) - 1 -> "nextdl"
                               [] i = n + 2 -> "donedl" [] i > n + 2 -> "stopdl"
        <5>1. CASE i \in 1 .. n
          <6>1. i < (n + 2) - 1 /\ i # (n + 2) - 1 /\ i # n + 2 /\ ~(i > n + 2)
            BY <1>4, <5>1
          <6>2. both[i] = "download"
            BY <1>4, <2>4, <5>1
          <6>3. QED
            BY <6>1, <6>2
        <5>2. CASE i = n + 1
          <6>1. ~(i < (n + 2) - 1) /\ i = (n + 2) - 1 /\ i # n + 2 /\ ~(i > n + 2)
            BY <1>4, <5>2
          <6>2. QED
            BY <1>4, <5>2, <6>1
        <5>3. CASE i = n + 2
          <6>1. ~(i < (n + 2) - 1) /\ i # (n + 2) - 1 /\ i = n + 2 /\ ~(i > n + 2)
            BY <1>4, <5>3
          <6>2. QED
            BY <1>4, <5>3, <6>1
        <5>4. QED
          BY <1>4, <5>1, <5>2, <5>3
      <4> HIDE DEF n, both
      <4>3. QED
        BY <1>9, <3>1, <4>1, <4>2 DEF Fetched
    <3>2. \A i \in DOMAIN toClient' : toClient'[i].kind = "block" => client.lastClientCommand > 0
      BY <2>3
    <3>3. Named(client)'
      <4>1. cl'.commands[client.lastClientCommand] = cl.commands[client.lastClientCommand]
        BY <1>4, <1>9, <2>3
      <4>2. client.lastClientCommand # 0
        BY <2>3
      <4>3. Named(client)
        BY <2>1 DEF Commanded
      <4>4. QED
        BY <1>2, <4>1, <4>2, <4>3 DEF Named
    <3>4. \E k \in Nat : Fetched(k)'
      BY <1>4, <3>1
    <3> HIDE DEF n
    <3>5. QED
      BY <1>2, <2>3, <3>1, <3>2, <3>3, <3>4 DEF Commanded
  <2>12. Downloads'
    <3>1. ASSUME Fetching
          PROVE  /\ ~cl'.loaded
                 /\ \A i \in DOMAIN toServer' : ~toServer'[i].move
                 /\ \A i : ~IsGamestate(i)'
      <4>1. \A i \in DOMAIN toServer' : ~toServer'[i].move
        BY <1>8, <1>10, <2>1, <2>4, <3>1 DEF Downloads
      <4>2. ASSUME NEW i, IsGamestate(i)' PROVE FALSE
        <5>1. IsGamestate(i + 1) /\ 1 < i + 1
          BY <1>3, <4>2
        <5>2. QED
          BY <1>3, <2>1, <3>1, <5>1 DEF Downloads
      <4>3. QED
        BY <1>9, <2>4, <4>1, <4>2
    <3>2. QED
      BY <2>2, <3>1 DEF Downloads
  <2>13. Told'
    BY <2>2, <2>5 DEF Told
  <2>14. Untold'
    <3>1. ASSUME NEW i, IsGamestate(i)'
          PROVE  toClient'[i].values.systeminfo = Map =>
                      /\ WillBeTold(toClient'[i].values.cs)
                      /\ toClient'[i].reliable = Len(client.commands)
      BY <1>3, <2>1, <2>5, <3>1 DEF Untold
    <3>2. ~cl.replayed /\ cl.serverId = Map =>
            WillBeTold(cl.cs) /\ cl.gamestateSequence = Len(client.commands)
      BY <2>1, <2>5 DEF Untold
    <3>3. (\E k \in DOMAIN toServer' : toServer'[k].serverId = Map) =>
            cl.serverId = Map \/ \E k \in DOMAIN toServer : toServer[k].serverId = Map
      BY <1>8, <1>10
    <3>4. ASSUME NEW i, IsGamestate(i)',
                 cl.serverId = Map \/ \E k \in DOMAIN toServer' : toServer'[k].serverId = Map
          PROVE  toClient'[i].values.systeminfo = Map
      BY <1>3, <2>1, <2>5, <3>3, <3>4 DEF Untold
    <3>5. (\E k \in DOMAIN toServer' : toServer'[k].serverId = Map) =>
            cl.serverId = Map \/ cl.replayed
      BY <2>1, <2>5, <3>3 DEF Untold
    <3>6. QED
      BY <1>2, <1>9, <2>2, <3>1, <3>2, <3>4, <3>5 DEF Untold
  <2>15. QED
    BY <2>7, <2>8, <2>9, <2>10, <2>11, <2>12, <2>13, <2>14 DEF Orderly
<1>13. QED
  BY <1>2, <1>11, <1>12 DEF GInv

\* A snapshot, or a message with nothing but reliable commands.
LEMMA ParsePlainInv ==
  ASSUME GInv, toClient # <<>>, toClient' = Tail(toClient), UNCHANGED <<sv, client, toServer>>,
         Head(toClient).kind \in {"snapshot", "nothing"},
         cl' = IF Head(toClient).kind = "snapshot" THEN CL_ParseSnapshot(Head(toClient))
               ELSE [cl EXCEPT !.newer = Head(toClient).newer,
                               !.serverCommandSequence = Head(toClient).reliable]
  PROVE  GInv'
<1> DEFINE m == Head(toClient)
<1>1. cl \in ClientSide /\ m \in Downlink
  BY Arrived DEF GInv, Typed
<1>2. m.newer \in BOOLEAN /\ m.reliable \in Nat
  BY <1>1 DEF Downlink
<1>3. \/ cl' = [cl EXCEPT !.newer = m.newer, !.serverCommandSequence = m.reliable,
                          !.snapshotSequence = m.reliable]
      \/ cl' = [cl EXCEPT !.newer = m.newer, !.serverCommandSequence = m.reliable]
      \/ m.kind = "snapshot" /\ ~cl.loaded /\ cl' = [cl EXCEPT !.gone = TRUE]
  BY DEF CL_ParseSnapshot
<1> HIDE DEF m
<1>4. /\ cl' \in ClientSide /\ cl'.lastExecuted = cl.lastExecuted
      /\ cl'.serverId = cl.serverId /\ cl'.cs = cl.cs
      /\ cl'.serverCommandSequence \in {cl.serverCommandSequence, m.reliable}
      /\ cl'.snapshotSequence \in {cl.snapshotSequence, cl'.serverCommandSequence}
      /\ cl'.gamestateSequence = cl.gamestateSequence
      /\ cl'.commands = cl.commands /\ cl'.lacks = cl.lacks /\ cl'.loaded = cl.loaded
      /\ cl'.downloading = cl.downloading /\ cl'.replayed = cl.replayed
      /\ cl'.gone => cl.gone \/ (m.kind = "snapshot" /\ ~cl.loaded)
  <2> DEFINE newer == m.newer
             reliable == m.reliable
             c == [cl EXCEPT !.newer = newer, !.serverCommandSequence = reliable]
  <2>1. newer \in BOOLEAN /\ reliable \in Nat
    BY <1>2
  <2> HIDE DEF newer, reliable
  <2>2. /\ c \in ClientSide /\ c.lastExecuted = cl.lastExecuted
        /\ c.serverId = cl.serverId /\ c.cs = cl.cs
        /\ c.serverCommandSequence = reliable /\ c.snapshotSequence = cl.snapshotSequence
        /\ c.gamestateSequence = cl.gamestateSequence
        /\ c.commands = cl.commands /\ c.lacks = cl.lacks /\ c.loaded = cl.loaded
        /\ c.downloading = cl.downloading /\ c.replayed = cl.replayed /\ c.gone = cl.gone
    BY <1>1, <2>1 DEF ClientSide
  <2>3. CASE cl' = [cl EXCEPT !.newer = m.newer, !.serverCommandSequence = m.reliable,
                              !.snapshotSequence = m.reliable]
    <3>1. cl' = [c EXCEPT !.snapshotSequence = reliable]
      BY <1>1, <2>3 DEF ClientSide, newer, reliable
    <3> HIDE DEF c
    <3>2. /\ cl' \in ClientSide /\ cl'.lastExecuted = c.lastExecuted
          /\ cl'.serverId = c.serverId /\ cl'.cs = c.cs
          /\ cl'.serverCommandSequence = reliable /\ cl'.snapshotSequence = reliable
          /\ cl'.gamestateSequence = c.gamestateSequence
          /\ cl'.commands = c.commands /\ cl'.lacks = c.lacks /\ cl'.loaded = c.loaded
          /\ cl'.downloading = c.downloading /\ cl'.replayed = c.replayed /\ cl'.gone = c.gone
      BY <2>1, <2>2, <3>1 DEF ClientSide
    <3>3. QED
      BY <2>2, <3>2 DEF reliable
  <2>4. CASE cl' = [cl EXCEPT !.newer = m.newer, !.serverCommandSequence = m.reliable]
    <3>1. cl' = c
      BY <2>4 DEF newer, reliable
    <3> HIDE DEF c
    <3>2. QED
      BY <2>2, <3>1 DEF reliable
  <2>5. CASE m.kind = "snapshot" /\ ~cl.loaded /\ cl' = [cl EXCEPT !.gone = TRUE]
    BY <1>1, <2>5 DEF ClientSide
  <2>6. QED
    BY <1>3, <2>3, <2>4, <2>5
<1>5. QED
  BY <1>4, ParseOtherInv DEF m

\* A block that was sent once too often.
LEMMA UnexpectedBlockInv ==
  ASSUME GInv, toClient # <<>>, toClient' = Tail(toClient), UNCHANGED <<sv, client>>,
         Head(toClient).kind = "block", ~cl.downloading, UnexpectedBlock(Head(toClient))
  PROVE  GInv'
<1> DEFINE m == Head(toClient)
           c == IF cl.commands # <<>> /\ Last(cl.commands) = "stopdl" THEN cl.commands
                ELSE Append(cl.commands, "stopdl")
<1>1. cl \in ClientSide /\ m \in Downlink /\ m.kind = "block"
  BY Arrived DEF GInv, Typed
<1>2. m.newer \in BOOLEAN
  BY <1>1 DEF Downlink
<1>3. c = cl.commands \/ c = Append(cl.commands, "stopdl")
  OBVIOUS
<1>4. cl' = [cl EXCEPT !.newer = m.newer, !.commands = c] /\ toServer' = toServer
  BY <1>1 DEF UnexpectedBlock, ClientSide
<1> HIDE DEF m, c
<1>5. c \in Seq(DownloadName)
  <2>1. cl.commands \in Seq(DownloadName) /\ "stopdl" \in DownloadName
    BY <1>1 DEF ClientSide, DownloadName
  <2>2. Append(cl.commands, "stopdl") \in Seq(DownloadName)
    BY <2>1, OneMoreMessage, Zenon
  <2>3. QED
    BY <1>3, <2>1, <2>2
<1>6. /\ cl' \in ClientSide /\ cl'.lastExecuted = cl.lastExecuted
      /\ cl'.serverId = cl.serverId /\ cl'.cs = cl.cs
      /\ cl'.serverCommandSequence = cl.serverCommandSequence
      /\ cl'.snapshotSequence = cl.snapshotSequence
      /\ cl'.gamestateSequence = cl.gamestateSequence
      /\ cl'.commands = c /\ cl'.lacks = cl.lacks /\ cl'.loaded = cl.loaded
      /\ cl'.downloading = cl.downloading /\ cl'.replayed = cl.replayed
      /\ cl'.gone = cl.gone
  BY <1>1, <1>2, <1>4, <1>5 DEF ClientSide
<1>7. \/ cl'.commands = cl.commands
      \/ /\ m.kind = "block" /\ ~cl.downloading
         /\ cl'.commands = Append(cl.commands, "stopdl")
  BY <1>1, <1>3, <1>6
<1>8. /\ cl'.serverCommandSequence \in {cl.serverCommandSequence, m.reliable}
      /\ cl'.snapshotSequence \in {cl.snapshotSequence, cl'.serverCommandSequence}
      /\ UNCHANGED <<sv, client, toServer>>
      /\ cl'.gone => cl.gone \/ (m.kind = "snapshot" /\ ~cl.loaded)
  BY <1>4, <1>6
<1>9. QED
  BY <1>6, <1>7, <1>8, ParseOtherInv DEF m

LEMMA ParseServerMessageInv ==
  ASSUME GInv, CL_ParseServerMessage
  PROVE  GInv'
<1>1. toClient # <<>> /\ toClient' = Tail(toClient) /\ UNCHANGED <<sv, client>>
  BY DEF CL_ParseServerMessage
<1>2. Head(toClient) \in Downlink
  BY <1>1, Arrived DEF GInv
<1>3. Head(toClient).kind \in {"gamestate", "snapshot", "nothing", "block"}
  BY <1>2 DEF Downlink
<1>4. CASE Head(toClient).kind = "block" /\ cl.downloading
  <2>1. CL_ParseDownload(Head(toClient))
    BY <1>4 DEF CL_ParseServerMessage
  <2>2. QED
    BY <1>1, <1>4, <2>1, ParseDownloadInv
<1>5. CASE Head(toClient).kind = "block" /\ ~cl.downloading
  <2>1. UnexpectedBlock(Head(toClient))
    BY <1>5 DEF CL_ParseServerMessage
  <2>2. QED
    BY <1>1, <1>5, <2>1, UnexpectedBlockInv
<1>6. CASE Head(toClient).kind = "gamestate"
  <2>1. cl' = CL_ParseGamestate(Head(toClient)) /\ UNCHANGED toServer
    BY <1>6 DEF CL_ParseServerMessage
  <2>2. QED
    BY <1>1, <1>6, <2>1, ParseGamestateInv
<1>7. CASE Head(toClient).kind \in {"snapshot", "nothing"}
  <2>1. /\ UNCHANGED toServer
        /\ cl' = IF Head(toClient).kind = "snapshot" THEN CL_ParseSnapshot(Head(toClient))
                 ELSE [cl EXCEPT !.newer = Head(toClient).newer,
                                 !.serverCommandSequence = Head(toClient).reliable]
    BY <1>7 DEF CL_ParseServerMessage
  <2>2. QED
    BY <1>1, <1>7, <2>1, ParsePlainInv
<1>8. QED
  BY <1>3, <1>4, <1>5, <1>6, <1>7

LEMMA ExecuteClientMessageInv ==
  ASSUME GInv, SV_ExecuteClientMessage
  PROVE  GInv'
<1> DEFINE m == Head(toServer)
<1>1. toServer # <<>> /\ sv' = sv
  BY DEF SV_ExecuteClientMessage
<1>2. CASE /\ m.serverId # sv.serverId /\ ~Fetching /\ DroppedGamestate(m)
           /\ client' = Primed(client) /\ SV_SendClientGameState
  <2>1. client.state # "active"
    BY <1>2 DEF DroppedGamestate
  <2>2. QED
    BY <1>1, <1>2, <2>1, RetransmitInv
<1>3. CASE toServer' = Tail(toServer) /\ UNCHANGED <<client, toClient, cl>>
  BY <1>1, <1>3, DropPacketInv
<1>4. CASE (m.serverId = sv.serverId \/ Fetching) /\ Execute(m)
  BY <1>1, <1>4, ExecuteInv
<1>5. QED
  BY <1>2, <1>3, <1>4 DEF SV_ExecuteClientMessage

\* In every state of every behaviour the invariant holds.
THEOREM GamestateInvariant == GamestateSpec => []GInv
<1>1. GamestateInit => GInv
  BY InitInv
<1>2. GInv /\ [GamestateNext]_gamestateVars => GInv'
  <2> SUFFICES ASSUME GInv, [GamestateNext]_gamestateVars PROVE GInv'
    OBVIOUS
  <2>1. CASE SV_SpawnServer
    BY <2>1, SpawnServerInv
  <2>2. CASE SV_MapRestart_f
    BY <2>2, MapRestartInv
  <2>3. CASE SetConfigstring
    BY <2>3, SetConfigstringInv
  <2>4. CASE UpdateInfostrings
    BY <2>4, UpdateInfostringsInv
  <2>5. CASE SV_SendClientSnapshot
    BY <2>5, SendSnapshotInv
  <2>6. CASE SV_SendDownloadMessages
    BY <2>6, SendDownloadInv
  <2>7. CASE SV_ExecuteClientMessage
    BY <2>7, ExecuteClientMessageInv
  <2>8. CASE CL_ParseServerMessage
    BY <2>8, ParseServerMessageInv
  <2>9. CASE CL_GetServerCommand
    BY <2>9, GetServerCommandInv
  <2>10. CASE CL_WritePacket
    BY <2>10, WritePacketInv
  <2>11. CASE Lose
    BY <2>11, LoseInv
  <2>12. CASE UNCHANGED gamestateVars
    <3>1. sv' = sv /\ client' = client /\ toClient' = toClient /\ toServer' = toServer /\ cl' = cl
      BY <2>12 DEF gamestateVars
    <3>2. /\ toClient' \in Seq(Downlink) /\ toServer' \in Seq(Uplink)
          /\ \A i \in DOMAIN toClient' : i + 0 \in DOMAIN toClient /\ toClient'[i] = toClient[i + 0]
          /\ \A i \in DOMAIN toServer' : i + 0 \in DOMAIN toServer /\ toServer'[i] = toServer[i + 0]
      BY <3>1 DEF GInv, Typed
    <3>3. QED
      BY <3>1, <3>2, FewerMessages
  <2>13. QED
    BY <2>1, <2>2, <2>3, <2>4, <2>5, <2>6, <2>7, <2>8, <2>9, <2>10, <2>11, <2>12 DEF GamestateNext
<1>3. QED
  BY <1>1, <1>2, PTL DEF GamestateSpec

\* Types, and what the counters of the two sides say of each other, always hold.
THEOREM GamestateTypeCorrect == GamestateSpec => []GamestateTypeOK
<1>1. GInv => GamestateTypeOK
  <2> SUFFICES ASSUME GInv PROVE GamestateTypeOK
    OBVIOUS
  <2>1. Typed /\ DownInOrder /\ UpInOrder /\ IdsGiven /\ Basics
    BY DEF GInv
  <2>2. /\ sv.restartedServerId \in Nat /\ sv.values.systeminfo \in Nat /\ sv.serverId \in Nat
        /\ cl.serverId \in Nat
    BY <2>1, Numbers
  <2>3. sv.restartedServerId <= sv.serverId
    BY <2>1, <2>2 DEF IdsGiven
  <2>4. cl.serverId \in None .. sv.serverId
    BY <2>1, <2>2 DEF IdsGiven, None
  <2>5. client.state \in {"connected", "primed", "active"} /\ client.csUpdated \subseteq Indices
    BY <2>1, Fields
  <2>6. QED
    BY <2>1, <2>3, <2>4, <2>5 DEF GamestateTypeOK, DownInOrder, UpInOrder, IdsGiven, Basics, Indices
<1>2. QED
  BY <1>1, GamestateInvariant, PTL

\* "Any configstring changes should be reliably transmitted to all clients": a client that
\* has executed all that it was sent has the server's configstrings.
THEOREM ConfigstringsReachClient == GamestateSpec => []ConfigstringsAgreeIfOrderly
<1>1. GInv => ConfigstringsAgreeIfOrderly
  <2> SUFFICES ASSUME GInv, ~cl.replayed, ~client.early, Settled PROVE ConfigstringsAgree
    BY DEF ConfigstringsAgreeIfOrderly, ConfigstringsAgree
  <2>1. Typed /\ DownInOrder /\ Told
    BY DEF GInv, Orderly
  <2>2. ~Away /\ cl.lastExecuted = Len(client.commands)
    BY DEF Settled, Away
  <2>3. BringsBoth(From, cl.cs, cl.serverId)
    BY <2>1, <2>2 DEF Told
  <2>4. From = Len(client.commands) /\ Len(client.commands) \in Nat
    <3>1. /\ cl.gamestateSequence \in Nat /\ Len(client.commands) \in Nat
          /\ cl.serverCommandSequence \in Nat
      BY <2>1, Numbers, MessageFields
    <3>2. cl.gamestateSequence <= Len(client.commands)
      BY <2>1, <3>1 DEF DownInOrder
    <3>3. QED
      BY <2>2, <3>1, <3>2 DEF From
  <2>5. \A k : ~(k \in From + 1 .. Len(client.commands))
    BY <2>4
  <2>6. QED
    BY <2>3, <2>5 DEF BringsBoth, Brings, ConfigstringsAgree
<1>2. QED
  BY <1>1, GamestateInvariant, PTL

\* Without a map_restart before the client is active, no snapshot comes before the cgame
\* is loaded and no move of a client that is not active is run: a client is only put into
\* the world with its gamestate.
THEOREM ClientEntersInOrder == GamestateSpec => []EnteredInOrder
<1>1. GInv => EnteredInOrder
  BY DEF GInv, Orderly, World, EnteredInOrder, NoUnexpectedSnapshot, UserMoveAssertion
<1>2. QED
  BY <1>1, GamestateInvariant, PTL
=============================================================================
