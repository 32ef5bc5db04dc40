--------------------------- MODULE ServerNetchan ---------------------------
(***************************************************************************)
(* The server's side of a net channel (server/sv_net_chan.c).  The server  *)
(* sends one fragment at a time, as the client's rate allows, and keeps    *)
(* the messages built meanwhile in a queue: Netchan_Transmit has a single  *)
(* unsentBuffer and would abandon the message under way.  The receiver is  *)
(* the client's netchan.                                                   *)
(***************************************************************************)
EXTENDS Netchan

CONSTANT MaxMessages        \* bound on the messages of a behaviour

VARIABLES netchan_queue,    \* netchan_start_queue .. netchan_end_queue
          accepted          \* history: every message given to SV_Netchan_Transmit

vars == <<senderVars, net, receiverVars, netchan_queue, accepted>>

Init == Netchan_Setup /\ netchan_queue = <<>> /\ accepted = <<>>

\* Mutant: the queue is not looked at.
MustQueue_FragmentsOnly == unsentFragments

MustQueue == unsentFragments \/ netchan_queue # <<>>

SV_Netchan_Transmit(m) ==
  /\ Len(accepted) < MaxMessages
  /\ accepted' = Append(accepted, m)
  /\ \/ /\ MustQueue
        /\ netchan_queue' = Append(netchan_queue, m)
        /\ UNCHANGED <<senderVars, net, receiverVars>>
     \/ /\ ~MustQueue
        /\ Netchan_Transmit(m)
        /\ UNCHANGED netchan_queue

SV_Netchan_TransmitNextInQueue ==
  /\ Netchan_Transmit(Head(netchan_queue))
  /\ netchan_queue' = Tail(netchan_queue)

SV_Netchan_TransmitNextFragment ==
  /\ \/ /\ unsentFragments
        /\ Netchan_TransmitNextFragment
        /\ UNCHANGED netchan_queue
     \/ /\ ~unsentFragments
        /\ netchan_queue # <<>>
        /\ SV_Netchan_TransmitNextInQueue
  /\ UNCHANGED accepted

Receive == /\ \E p \in net : Netchan_Process(p)
           /\ UNCHANGED <<netchan_queue, accepted>>

Next == \/ \E m \in Messages : SV_Netchan_Transmit(m)
        \/ SV_Netchan_TransmitNextFragment
        \/ Receive

\* SV_SendQueuedMessages calls SV_Netchan_TransmitNextFragment for every client
\* with something unsent, in every turn of the main loop its rate allows.
Spec == Init /\ [][Next]_vars /\ WF_vars(SV_Netchan_TransmitNextFragment)

-----------------------------------------------------------------------------
TypeOK ==
  /\ outgoingSequence \in Nat \ {0}
  /\ unsentFragments \in BOOLEAN
  /\ unsentFragmentStart \in Nat
  /\ unsentBuffer \in Seq(Byte)
  /\ \A p \in net : WellFormed(p)
  /\ incomingSequence \in Nat
  /\ fragmentSequence \in Nat
  /\ fragmentBuffer \in Seq(Byte)
  /\ delivered \in Seq([sequence: Nat, data: Seq(Byte)])
  /\ netchan_queue \in Seq(Messages)
  /\ accepted \in Seq(Messages)

\* The messages under way: the one being fragmented, then the queue.
Backlog == (IF unsentFragments THEN <<unsentBuffer>> ELSE <<>>) \o netchan_queue

\* Nothing is overtaken on the server: the backlog is the tail of what was
\* accepted, and the message under way carries its place there as its number
\* (what SV_Netchan_Transmit's queue is for).
BacklogInOrder ==
  /\ outgoingSequence + Len(Backlog) = Len(accepted) + 1
  /\ \A i \in DOMAIN Backlog : Backlog[i] = accepted[outgoingSequence + i - 1]

\* Whatever the network loses, repeats or reorders, what Netchan_Process puts
\* together is the message that was sent under that number.
DeliveredIntact ==
  \A i \in DOMAIN delivered :
     /\ delivered[i].sequence \in DOMAIN accepted
     /\ delivered[i].data = accepted[delivered[i].sequence]

\* No message is handed up twice or after a newer one.
DeliveredInOrder ==
  /\ \A i \in DOMAIN delivered : delivered[i].sequence <= incomingSequence
  /\ \A i, j \in DOMAIN delivered :
        i < j => delivered[i].sequence < delivered[j].sequence

\* A message accepted behind a backlog is sent to its last fragment in the end.
BacklogDrains == \A n \in 1 .. MaxMessages : Len(accepted) = n ~> outgoingSequence > n

\* The channel keeps the promise of OrderedMessages.
Promise == INSTANCE OrderedMessages WITH Messages <- Messages,
                                         accepted <- accepted, delivered <- delivered
ImplementsOrderedMessages == Promise!Spec
=============================================================================
