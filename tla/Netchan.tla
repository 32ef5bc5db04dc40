------------------------------ MODULE Netchan ------------------------------
(***************************************************************************)
(* One direction of a connection's net channel: the sending half of one    *)
(* netchan_t (qcommon/net_chan.c), the receiving half of the peer's, and   *)
(* the datagrams between them.  The other direction is another instance:   *)
(* the two halves of a netchan_t share no state but the challenge.         *)
(*                                                                         *)
(* A message is a sequence of bytes.  net holds every datagram that was    *)
(* sent; a datagram is never removed, so it may arrive never, once or      *)
(* often, and in any order.  The senders of the two programs use the       *)
(* actions of this module in different ways: ServerNetchan has the server's. *)
(***************************************************************************)
EXTENDS Integers, Sequences

CONSTANTS Byte,                     \* the payload alphabet
          Messages,                 \* the messages the sender may be given
          FRAGMENT_SIZE,            \* payload bytes of a full fragment
          MAX_MSGLEN,               \* the longest message
          challenge,                \* chosen by the server for this connection
          NETCHAN_GENCHECKSUM(_, _),
          Stray                     \* datagrams of earlier connections from
                                    \* the same address, still under way

\* A datagram: [sequence, fragmented, start, data, checksum].
WellFormed(p) == /\ p.sequence \in Nat
                 /\ p.fragmented \in BOOLEAN
                 /\ p.start \in Nat
                 /\ p.data \in Seq(Byte)

\* UDP spoofing protection: the checksum ties the packet to this connection.
Valid(p) == p.checksum = NETCHAN_GENCHECKSUM(challenge, p.sequence)

ASSUME SizeAssumption == /\ FRAGMENT_SIZE \in Nat \ {0}
                         /\ MAX_MSGLEN \in Nat
ASSUME MessageAssumption == \A m \in Messages : m \in Seq(Byte) /\ Len(m) <= MAX_MSGLEN
\* Not so of a stray packet numbered 1: c ^ (1 * c) is 0 for every challenge c.
ASSUME StrayAssumption == \A p \in Stray : WellFormed(p) /\ ~Valid(p)

VARIABLES
  outgoingSequence,       \* sender: the number of the message under way
  unsentFragments,        \* sender: fragments of it are still to be sent
  unsentFragmentStart,    \* sender: how much of it has been sent
  unsentBuffer,           \* sender: the message
  net,                    \* the datagrams
  incomingSequence,       \* receiver: the newest message handed up
  fragmentSequence,       \* receiver: the message being reassembled
  fragmentBuffer,         \* receiver: its first fragmentLength bytes
  delivered               \* history: what Netchan_Process returned qtrue for

senderVars   == <<outgoingSequence, unsentFragments, unsentFragmentStart, unsentBuffer>>
receiverVars == <<incomingSequence, fragmentSequence, fragmentBuffer, delivered>>

\* The mutants of the runs: what a slip in the definition named first would be.
Netchan_Setup_FromZero ==
  /\ outgoingSequence = 0 /\ incomingSequence = 0 /\ fragmentSequence = 0
  /\ unsentFragments = FALSE /\ unsentFragmentStart = 0 /\ unsentBuffer = <<>>
  /\ net = Stray /\ fragmentBuffer = <<>> /\ delivered = <<>>

Netchan_Setup ==
  /\ outgoingSequence = 1
  /\ unsentFragments = FALSE
  /\ unsentFragmentStart = 0
  /\ unsentBuffer = <<>>
  /\ net = Stray
  /\ incomingSequence = 0
  /\ fragmentSequence = 0
  /\ fragmentBuffer = <<>>
  /\ delivered = <<>>

-----------------------------------------------------------------------------
\* Sender

Datagram(fragmented, start, data) ==
  [sequence   |-> outgoingSequence,
   fragmented |-> fragmented,
   start      |-> start,
   data       |-> data,
   checksum   |-> NETCHAN_GENCHECKSUM(challenge, outgoingSequence)]

\* The fragment of message m that begins after its first `start' bytes.
FragmentLength(m, start) ==
  IF start + FRAGMENT_SIZE > Len(m) THEN Len(m) - start ELSE FRAGMENT_SIZE

Fragment(m, start) == SubSeq(m, start + 1, start + FragmentLength(m, start))

LastFragment_EmptyForgotten(m, start) ==
  /\ start + FragmentLength(m, start) = Len(m)
  /\ FragmentLength(m, start) \notin {0, FRAGMENT_SIZE}

\* A full fragment is never the last one: a message whose length is a multiple
\* of FRAGMENT_SIZE ends with an empty fragment.
LastFragment(m, start) ==
  /\ start + FragmentLength(m, start) = Len(m)
  /\ FragmentLength(m, start) # FRAGMENT_SIZE

\* Send one fragment of m and step over it.
SendFragment(m, start) ==
  /\ net' = net \cup {Datagram(TRUE, start, Fragment(m, start))}
  /\ unsentBuffer' = m
  /\ unsentFragmentStart' = start + FragmentLength(m, start)
  /\ unsentFragments' = ~LastFragment(m, start)
  /\ outgoingSequence' = IF LastFragment(m, start) THEN outgoingSequence + 1
                                                   ELSE outgoingSequence

Netchan_TransmitNextFragment ==
  /\ SendFragment(unsentBuffer, unsentFragmentStart)
  /\ UNCHANGED receiverVars

Netchan_Transmit(m) ==
  /\ Len(m) <= MAX_MSGLEN
  /\ \/ /\ Len(m) >= FRAGMENT_SIZE
        /\ SendFragment(m, 0)
     \/ /\ Len(m) < FRAGMENT_SIZE
        /\ net' = net \cup {Datagram(FALSE, 0, m)}
        /\ outgoingSequence' = outgoingSequence + 1
        /\ unsentFragmentStart' = 0
        /\ UNCHANGED <<unsentFragments, unsentBuffer>>
  /\ UNCHANGED receiverVars

-----------------------------------------------------------------------------
\* Receiver

HandUp(sequence, data) ==
  /\ incomingSequence' = sequence
  /\ delivered' = Append(delivered, [sequence |-> sequence, data |-> data])

Reassembled_Kept(p) == fragmentBuffer

\* A fragment of another message than the one being reassembled starts over.
Reassembled(p) == IF p.sequence = fragmentSequence THEN fragmentBuffer ELSE <<>>

InPlace_AnyGap(p) == p.start >= Len(Reassembled(p))

InPlace(p) == p.start = Len(Reassembled(p))

Fits(p) == Len(Reassembled(p)) + Len(p.data) <= MAX_MSGLEN

Newer_OrEqual(p) == p.sequence >= incomingSequence

Newer(p) == p.sequence > incomingSequence

ProcessFragment(p) ==
  /\ fragmentSequence' = p.sequence
  /\ \/ /\ ~InPlace(p) \/ ~Fits(p)
        /\ fragmentBuffer' = Reassembled(p)
        /\ UNCHANGED <<incomingSequence, delivered>>
     \/ /\ InPlace(p) /\ Fits(p)
        /\ Len(p.data) = FRAGMENT_SIZE
        /\ fragmentBuffer' = Reassembled(p) \o p.data
        /\ UNCHANGED <<incomingSequence, delivered>>
     \/ /\ InPlace(p) /\ Fits(p)
        /\ Len(p.data) # FRAGMENT_SIZE
        /\ fragmentBuffer' = <<>>
        /\ HandUp(p.sequence, Reassembled(p) \o p.data)

Netchan_Process(p) ==
  /\ Valid(p)
  /\ Newer(p)
  /\ \/ p.fragmented /\ ProcessFragment(p)
     \/ /\ ~p.fragmented
        /\ HandUp(p.sequence, p.data)
        /\ UNCHANGED <<fragmentSequence, fragmentBuffer>>
  /\ UNCHANGED <<senderVars, net>>
=============================================================================
