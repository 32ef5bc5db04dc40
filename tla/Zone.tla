-------------------------------- MODULE Zone --------------------------------
(***************************************************************************)
(* The zone of qcommon/common.c: small pieces of memory, each behind a     *)
(* header that links it with its neighbours, found first-fit from a rover. *)
(*                                                                         *)
(* Memory is counted in words and an address is the number of a word; the  *)
(* list's cap, zone->blocklist, has address 0.  HEADER stands for the      *)
(* header, the trash marker and the padding.  The zone is one memzone_t;   *)
(* Z_ZoneForTag gives every tag exactly one.  Left out: the contents, the  *)
(* marker, labels for debugging, and TAG_STATIC, whose blocks are not in a *)
(* zone.                                                                   *)
(***************************************************************************)
EXTENDS Integers, FiniteSets

CONSTANTS ZONE,             \* the words behind the zone's own header
          HEADER,           \* sizeof(memblock_t) and the marker, padded
          MINFRAGMENT,      \* no smaller rest is split off
          Requests,         \* the sizes that are asked for
          Tags              \* the tags that live in this zone

FREE == 0                   \* TAG_FREE
BLOCKLIST == 0              \* the address of zone->blocklist
FIRST == 1                  \* the address of the first block
TAG_RENDERER == 2
NoBlock == -1

ASSUME ZoneAssumption ==
  /\ ZONE \in Nat \ {0} /\ HEADER \in Nat \ {0}
  /\ MINFRAGMENT \in Nat /\ HEADER <= MINFRAGMENT + 1
  /\ Requests \subseteq Nat
  /\ Tags \subseteq Nat \ {FREE} /\ TAG_RENDERER \in Tags

VARIABLES zone,             \* memzone_t: [block, rover, used], block a function
                            \* from addresses to headers [size, tag, prev, next]
          refused           \* what Z_TagMalloc gave up on (ERR_FATAL), or 0
zoneVars == <<zone, refused>>

(***************************************************************************)
(* The zone's parts.                                                       *)
(***************************************************************************)
Blocks(z) == DOMAIN z.block \ {BLOCKLIST}

InUse(z) == {b \in Blocks(z) : z.block[b].tag # FREE}

IsFree(z, b) == z.block[b].tag = FREE

Z_ClearZone ==
  [block |-> [b \in {BLOCKLIST, FIRST} |->
                IF b = BLOCKLIST
                THEN [size |-> 0, tag |-> 1, prev |-> FIRST, next |-> FIRST]
                ELSE [size |-> ZONE, tag |-> FREE, prev |-> BLOCKLIST, next |-> BLOCKLIST]],
   rover |-> FIRST,
   used |-> 0]

ZoneInit == zone = Z_ClearZone /\ refused = 0

(***************************************************************************)
(* Z_TagMalloc.                                                            *)
(***************************************************************************)
\* Mutant: the scan gives up at the end of the list.
Start_Cap(z) == BLOCKLIST

\* The block the scan begins with, and the one at which it gives up.
Start(z) == z.block[z.rover].prev

\* The first free block from the rover on that is big enough, or NoBlock.  rover
\* runs ahead of base by one block when base is free but too small.
FirstFit(z, need) ==
  LET scan[at \in (DOMAIN z.block) \X (DOMAIN z.block)] ==
        LET base == at[1]
            rover == at[2]
            next == z.block[rover].next
            candidate == IF IsFree(z, rover) THEN base ELSE next
        IN IF rover = Start(z) THEN NoBlock
           ELSE IF IsFree(z, candidate) /\ z.block[candidate].size >= need
                THEN candidate
                ELSE scan[<<candidate, next>>]
  IN scan[<<z.rover, z.rover>>]

\* What is left of the block behind the need words becomes a block of its own,
\* unless it is too small.
Split(f, base, need) ==
  LET extra == f[base].size - need
      new == base + need
  IN IF extra <= MINFRAGMENT THEN f
     ELSE [b \in DOMAIN f \cup {new} |->
             CASE b = new -> [size |-> extra, tag |-> FREE, prev |-> base, next |-> f[base].next]
               [] b = base -> [f[b] EXCEPT !.size = need, !.next = new]
               [] b = f[base].next -> [f[b] EXCEPT !.prev = new]
               [] OTHER -> f[b]]

Z_TagMalloc(size, tag) ==
  LET need == size + HEADER
      base == FirstFit(zone, need)
      block == Split(zone.block, base, need)
  IN /\ refused = 0
     /\ IF base = NoBlock
        THEN refused' = need /\ UNCHANGED zone
        ELSE /\ zone' = [block |-> [block EXCEPT ![base].tag = tag],
                         rover |-> block[base].next,
                         used |-> zone.used + block[base].size]
             /\ UNCHANGED refused

(***************************************************************************)
(* Z_Free and Z_FreeTags.                                                  *)
(***************************************************************************)
\* Block b takes in the block behind it, whose header is gone.
Absorb(f, b) ==
  LET other == f[b].next
      merged == [f EXCEPT ![b].size = @ + f[other].size,
                          ![b].next = f[other].next,
                          ![f[other].next].prev = b]
  IN [x \in DOMAIN f \ {other} |-> merged[x]]

\* Mutant: a free block behind the freed one is not merged with it.
Freed_BehindKept(z, b) ==
  LET freed == [z.block EXCEPT ![b].tag = FREE]
      before == freed[b].prev
      block == IF freed[before].tag = FREE THEN before ELSE b
  IN [block |-> IF block = before THEN Absorb(freed, before) ELSE freed,
      rover |-> block,
      used |-> z.used - z.block[b].size]

\* Mutant: the rover stays where it was.
Freed_RoverKept(z, b) ==
  LET freed == [z.block EXCEPT ![b].tag = FREE]
      before == freed[b].prev
      block == IF freed[before].tag = FREE THEN before ELSE b
      joined == IF block = before THEN Absorb(freed, before) ELSE freed
      behind == joined[block].next
  IN [block |-> IF joined[behind].tag = FREE THEN Absorb(joined, block) ELSE joined,
      rover |-> z.rover,
      used |-> z.used - z.block[b].size]

\* A freed block is merged with a free block before it, and that one with a
\* free block behind it.  The rover is left at the result.
Freed(z, b) ==
  LET freed == [z.block EXCEPT ![b].tag = FREE]
      before == freed[b].prev
      block == IF freed[before].tag = FREE THEN before ELSE b
      joined == IF block = before THEN Absorb(freed, before) ELSE freed
      behind == joined[block].next
  IN [block |-> IF joined[behind].tag = FREE THEN Absorb(joined, block) ELSE joined,
      rover |-> block,
      used |-> z.used - z.block[b].size]

Z_Free(b) ==
  /\ refused = 0
  /\ zone' = Freed(zone, b)
  /\ UNCHANGED refused

\* Mutant: the sweep begins where the rover happens to be.
SweepFrom_Rover(z) == z.rover

SweepFrom(z) == z.block[BLOCKLIST].next

\* The sweep uses the zone's own rover, which Z_Free moves: a block that was
\* freed is looked at again, merged with its neighbours, and then passed.
Visit(z, tag) == IF z.block[z.rover].tag = tag
                 THEN Freed(z, z.rover)
                 ELSE [z EXCEPT !.rover = z.block[z.rover].next]

\* It ends at the cap: after two visits for each word at the latest.
Swept(z, tag) ==
  LET sweep[n \in 0 .. 2 * ZONE] ==
        IF n = 0 THEN Visit([z EXCEPT !.rover = SweepFrom(z)], tag)
        ELSE LET before == sweep[n - 1]
             IN IF before.rover = BLOCKLIST THEN before ELSE Visit(before, tag)
  IN sweep[2 * ZONE]

Z_FreeTags(tag) ==
  /\ refused = 0
  /\ zone' = Swept(zone, tag)
  /\ UNCHANGED refused

\* The zone of a virtual machine is set up anew whenever the machine is loaded.
Z_VM_InitHeap ==
  /\ refused = 0
  /\ zone' = Z_ClearZone
  /\ UNCHANGED refused

ZoneNext ==
  \/ Z_VM_InitHeap
  \/ \E size \in Requests, tag \in Tags : Z_TagMalloc(size, tag)
  \/ \E b \in InUse(zone) : Z_Free(b)
  \/ Z_FreeTags(TAG_RENDERER)

ZoneSpec == ZoneInit /\ [][ZoneNext]_zoneVars

(***************************************************************************)
(* Properties.                                                             *)
(***************************************************************************)
Addresses == BLOCKLIST .. ZONE

\* The headers are where headers may be and the rover points at one of them
\* (the rover of Z_Free survives the merging of the block it points at).
ZoneTypeOK ==
  /\ {BLOCKLIST, FIRST} \subseteq DOMAIN zone.block
  /\ DOMAIN zone.block \subseteq Addresses
  /\ \A b \in DOMAIN zone.block :
        zone.block[b] \in [size : 0 .. ZONE, tag : Tags \cup {FREE, 1},
                           prev : DOMAIN zone.block, next : DOMAIN zone.block]
  /\ zone.rover \in DOMAIN zone.block
  /\ zone.used \in 0 .. ZONE
  /\ refused \in {0} \cup {size + HEADER : size \in Requests}

\* What Z_AvailableMemory subtracts is the memory in use, however blocks were
\* split and merged.
UsedIsInUse ==
  zone.used = Cardinality(UNION {b .. b + zone.block[b].size - 1 : b \in InUse(zone)})

\* What Z_CheckHeap checks, common.c:779 says and Com_Meminfo_f reports: every
\* block touches the next one, back links are right, no two free blocks are
\* neighbours, the last block ends where the zone ends, and the count is right.
HeapWellFormed ==
  /\ \A b \in DOMAIN zone.block :
        /\ zone.block[zone.block[b].next].prev = b
        /\ zone.block[zone.block[b].prev].next = b
        /\ IsFree(zone, b) => ~IsFree(zone, zone.block[b].next)
  /\ \A b \in Blocks(zone) :
        b + zone.block[b].size = IF zone.block[b].next = BLOCKLIST
                                 THEN ZONE + 1 ELSE zone.block[b].next
  /\ UsedIsInUse

\* Z_TagMalloc ends the program only if no free block is big enough, wherever
\* the rover was left: the scan gives up at the block before the rover, which
\* it may have reached only as a candidate.
RefusedOnlyIfFull ==
  refused # 0 => \A b \in Blocks(zone) : IsFree(zone, b) => zone.block[b].size < refused

\* The zone implements an allocator: pieces in use never overlap or move, and
\* only Z_Free, Z_FreeTags and a new zone take one away, whole tags or all.
Pieces == {[at |-> b, size |-> zone.block[b].size, tag |-> zone.block[b].tag] : b \in InUse(zone)}
Memory == INSTANCE Allocator WITH allocated <- Pieces, Limit <- ZONE,
                                  Needs <- {size + HEADER : size \in Requests},
                                  Slack <- MINFRAGMENT
ImplementsAllocator == Memory!Spec
=============================================================================
