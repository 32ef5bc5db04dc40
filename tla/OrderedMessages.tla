-------------------------- MODULE OrderedMessages --------------------------
(***************************************************************************)
(* What a net channel promises to the code above it.  The sender's n-th    *)
(* message is numbered n.  The receiver is handed messages with the number *)
(* they were sent under, each at most once, never an older one after a     *)
(* newer one, and each one whole: a message may be lost, it is never       *)
(* reordered, repeated, truncated or mixed with another.                   *)
(***************************************************************************)
EXTENDS Naturals, Sequences

CONSTANT Messages           \* what may be sent

VARIABLES accepted,         \* every message the sender was given, in order
          delivered         \* every message the receiver was handed, in order

Newest == IF delivered = <<>> THEN 0 ELSE delivered[Len(delivered)].sequence

Init == accepted = <<>> /\ delivered = <<>>

Submit(m) == /\ accepted' = Append(accepted, m)
             /\ UNCHANGED delivered

Deliver(n) == /\ n > Newest
              /\ delivered' = Append(delivered, [sequence |-> n, data |-> accepted[n]])
              /\ UNCHANGED accepted

Next == \/ \E m \in Messages : Submit(m)
        \/ \E n \in DOMAIN accepted : Deliver(n)

Spec == Init /\ [][Next]_<<accepted, delivered>>
=============================================================================
