----------------------------- MODULE Allocator -----------------------------
(***************************************************************************)
(* What the callers of Z_Malloc rely on: a piece of memory that was handed *)
(* out lies inside the zone, overlaps no other piece that is in use, is at *)
(* least as long as asked for, and stays where it is until it is freed.    *)
(* Where a piece is placed, and whether there is one, is not promised.     *)
(***************************************************************************)
EXTENDS Naturals

CONSTANTS Limit,            \* the words of the zone
          Needs,            \* how many words may be asked for
          Slack,            \* how many words too many a caller may be given
          Tags              \* what a piece is tagged with

VARIABLE allocated          \* the pieces in use: [at, size, tag]

Pieces == [at : 1 .. Limit, size : 1 .. Limit, tag : Tags]

Disjoint(p, q) == p.at + p.size <= q.at \/ q.at + q.size <= p.at

Init == allocated = {}

Alloc(p) == /\ p.at + p.size <= Limit + 1
            /\ \E n \in Needs : n <= p.size /\ p.size <= n + Slack
            /\ \A q \in allocated : Disjoint(p, q)
            /\ allocated' = allocated \cup {p}

Free(p) == allocated' = allocated \ {p}

FreeTag(t) == allocated' = {p \in allocated : p.tag # t}

FreeAll == allocated' = {}

Next == \/ FreeAll
        \/ \E p \in Pieces : Alloc(p)
        \/ \E p \in allocated : Free(p)
        \/ \E t \in Tags : FreeTag(t)

Spec == Init /\ [][Next]_allocated
=============================================================================
