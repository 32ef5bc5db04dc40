----------------------------- MODULE VoipQueue -----------------------------
(***************************************************************************)
(* The voice packets that wait for one client: a ring of pointers in its   *)
(* client_t, filled by SV_UserVoip when somebody else talks, emptied by    *)
(* SV_WriteVoipToClient into the messages to the client, freed by          *)
(* SV_FreeClient (server/sv_client.c, sv_snapshot.c), and forgotten when   *)
(* the client_t is cleared (sv_client.c, sv_init.c).                       *)
(*                                                                         *)
(* A packet is the number under which it was queued.  The slot's           *)
(* occupants come and go, people and bots; the talkers are the other       *)
(* clients.  Left out: what is in a packet, the rate of messages, a        *)
(* message that overflows (its packets are freed all the same).            *)
(***************************************************************************)
EXTENDS Integers

CONSTANTS VOIP_QUEUE_LENGTH,    \* slots of the ring
          MaxPackets            \* bound: the packets queued in a behaviour

ASSUME LengthAssumption == VOIP_QUEUE_LENGTH \in Nat \ {0} /\ MaxPackets \in Nat

VARIABLES client,               \* the client_t
          allocated,            \* the packets in the zone that were not freed
          queued,               \* how many packets were ever queued
          heard,                \* the newest packet sent to this occupant, or
                                \* the newest there was when it came: history
          forgotten             \* the packets that were in a client_t when it was
                                \* given up, and were not freed: history
vars == <<client, allocated, queued, heard, forgotten>>

States == {"free", "zombie", "connected", "active"}
Slots == 0 .. VOIP_QUEUE_LENGTH - 1
NULL == 0

\* *newcl = temp, with the temporary structure cleared.
Cleared == [state |-> "free", bot |-> FALSE, hasVoip |-> FALSE, muteAllVoip |-> FALSE,
            ignoreVoipFromPlayer |-> FALSE, downloadName |-> FALSE,
            voipPacket |-> [s \in Slots |-> NULL],
            queuedVoipPackets |-> 0, queuedVoipIndex |-> 0]

Init == /\ client = Cleared
        /\ allocated = {} /\ queued = 0 /\ heard = 0
        /\ forgotten = {}

-----------------------------------------------------------------------------
\* The slot of the i-th packet that waits, from 0.
Slot(c, i) == (c.queuedVoipIndex + i) % VOIP_QUEUE_LENGTH

Waiting(c) == {c.voipPacket[Slot(c, i)] : i \in 0 .. c.queuedVoipPackets - 1}

Full(c) == c.queuedVoipPackets >= VOIP_QUEUE_LENGTH

\* Another client's packet that is addressed to this one.
SV_UserVoip ==
  /\ queued < MaxPackets
  /\ client.state = "active" /\ client.hasVoip
  /\ ~client.muteAllVoip /\ ~client.ignoreVoipFromPlayer
  /\ ~Full(client)
  /\ LET packet == queued + 1
     IN /\ queued' = packet
        /\ allocated' = allocated \cup {packet}
        /\ client' = [client EXCEPT !.voipPacket[Slot(client, client.queuedVoipPackets)] = packet,
                                    !.queuedVoipPackets = @ + 1]
  /\ UNCHANGED <<heard, forgotten>>

\* Mutant: the index runs on.
SV_WriteVoipToClient_NoWrap(c, n) ==
  [c EXCEPT !.queuedVoipPackets = @ - n, !.queuedVoipIndex = @ + n]

\* The first n packets that wait are freed, written or not.
SV_WriteVoipToClient(c, n) ==
  [c EXCEPT !.queuedVoipPackets = @ - n,
            !.queuedVoipIndex = (@ + n) % VOIP_QUEUE_LENGTH]

\* Mutant: the last packet that is written is not freed.
First_AllButLast(c, n) == {c.voipPacket[Slot(c, i)] : i \in 0 .. n - 2}

First(c, n) == {c.voipPacket[Slot(c, i)] : i \in 0 .. n - 1}

Newest(S, default) == IF S = {} THEN default ELSE CHOOSE x \in S : \A y \in S : y <= x

\* A message to the client with the n packets for which there is room.
SV_SendClientSnapshot(n) ==
  /\ client.state # "free" /\ ~client.bot /\ ~client.downloadName
  /\ client' = SV_WriteVoipToClient(client, n)
  /\ allocated' = allocated \ First(client, n)
  /\ heard' = Newest(First(client, n), heard)
  /\ UNCHANGED <<queued, forgotten>>

\* What SV_FreeClient frees: its loop begins at the index of the first packet and
\* ends at the number of packets.
Destroyed(c) == {c.voipPacket[i] : i \in c.queuedVoipIndex .. c.queuedVoipPackets - 1}

\* Mutant: the packets are still counted.
SV_FreeClient_CountKept(c) ==
  /\ client' = [c EXCEPT !.state = "free", !.downloadName = FALSE]
  /\ allocated' = allocated \ Destroyed(c)
  /\ forgotten' = forgotten \cup (Waiting(c) \ Destroyed(c))
  /\ UNCHANGED <<queued, heard>>

SV_FreeClient(c) ==
  /\ client' = [c EXCEPT !.state = "free", !.downloadName = FALSE, !.queuedVoipPackets = 0]
  /\ allocated' = allocated \ Destroyed(c)
  /\ forgotten' = forgotten \cup (Waiting(c) \ Destroyed(c))
  /\ UNCHANGED <<queued, heard>>

-----------------------------------------------------------------------------
\* The slot's occupants.

People == {"connected", "active"}

\* A slot that is free, or that the same address has already, in whatever state.
SV_DirectConnect(hasVoip) ==
  /\ ~client.bot \/ client.state = "free"
  /\ client' = [Cleared EXCEPT !.state = "connected", !.hasVoip = hasVoip]
  /\ forgotten' = forgotten \cup Waiting(client)
  /\ heard' = queued
  /\ UNCHANGED <<allocated, queued>>

\* Of the last occupant's fields only those are set that a bot needs.
SV_BotAllocateClient ==
  /\ client.state = "free"
  /\ client' = [client EXCEPT !.state = "active", !.bot = TRUE]
  /\ heard' = queued
  /\ UNCHANGED <<allocated, queued, forgotten>>

SV_ClientEnterWorld ==
  /\ client.state = "connected"
  /\ client' = [client EXCEPT !.state = "active"]
  /\ UNCHANGED <<allocated, queued, heard, forgotten>>

SV_SpawnServer ==
  /\ client.state = "active" /\ ~client.bot
  /\ client' = [client EXCEPT !.state = "connected"]
  /\ UNCHANGED <<allocated, queued, heard, forgotten>>

\* SV_SpawnServer when sv_maxclients was changed: the clients in use are copied to
\* new arrays, and the other client_t are zeros, which nobody frees the packets of.
SV_ChangeMaxClients ==
  /\ client.state \in {"free", "zombie"}
  /\ client' = Cleared
  /\ forgotten' = forgotten \cup Waiting(client)
  /\ UNCHANGED <<allocated, queued, heard>>

\* A client's commands: "voip", "userinfo", "download" and "stopdl".
ClientCommand ==
  /\ client.state \in People /\ ~client.bot
  /\ \E b \in BOOLEAN :
        client' \in {[client EXCEPT !.muteAllVoip = b],
                     [client EXCEPT !.ignoreVoipFromPlayer = b],
                     [client EXCEPT !.hasVoip = b],
                     [client EXCEPT !.downloadName = b]}
  /\ UNCHANGED <<allocated, queued, heard, forgotten>>

SV_DropPlayer ==
  /\ client.state \in People
  /\ IF client.bot
     THEN SV_FreeClient(client)
     ELSE /\ client' = [client EXCEPT !.state = "zombie"]
          /\ UNCHANGED <<allocated, queued, heard, forgotten>>

\* A zombie's time is over, or a client's was up before it became one.
SV_CheckTimeouts ==
  /\ client.state # "free"
  /\ SV_FreeClient(client)

\* The final messages take n packets, all of them if the client is downloading and
\* none if an error ends the server; then the client is freed, and svs cleared.
SV_Shutdown(n) ==
  LET sent == IF client.state \in People /\ ~client.bot THEN SV_WriteVoipToClient(client, n)
              ELSE client
      gone == IF sent = client THEN {} ELSE First(client, n)
  IN /\ client.downloadName => n \in {0, client.queuedVoipPackets}
     /\ client' = Cleared
     /\ allocated' = allocated \ (gone \cup Destroyed(sent))
     /\ forgotten' = forgotten \cup (Waiting(sent) \ Destroyed(sent))
     /\ heard' = Newest(gone, heard)
     /\ UNCHANGED queued

Next == \/ SV_UserVoip
        \/ \E n \in 0 .. client.queuedVoipPackets : SV_SendClientSnapshot(n)
        \/ \E hasVoip \in BOOLEAN : SV_DirectConnect(hasVoip)
        \/ SV_BotAllocateClient
        \/ SV_ClientEnterWorld
        \/ SV_SpawnServer
        \/ SV_ChangeMaxClients
        \/ ClientCommand
        \/ SV_DropPlayer
        \/ SV_CheckTimeouts
        \/ \E n \in 0 .. client.queuedVoipPackets : SV_Shutdown(n)

Spec == Init /\ [][Next]_vars

-----------------------------------------------------------------------------
\* Properties

\* The ring's counters stay within the ring whoever occupies the slot.
TypeOK ==
  /\ client \in [state : States, bot : BOOLEAN, hasVoip : BOOLEAN, muteAllVoip : BOOLEAN,
                 ignoreVoipFromPlayer : BOOLEAN, downloadName : BOOLEAN,
                 voipPacket : [Slots -> 0 .. MaxPackets],
                 queuedVoipPackets : 0 .. VOIP_QUEUE_LENGTH, queuedVoipIndex : Slots]
  /\ allocated \subseteq 1 .. MaxPackets
  /\ queued \in 0 .. MaxPackets /\ heard \in 0 .. queued
  /\ forgotten \subseteq 0 .. MaxPackets

\* What waits was queued for this occupant, is sent once and in the order in which it
\* was spoken, and is still in memory when SV_WriteVoipToClient reads it and frees it:
\* the slots between index and index + count hold live packets, newer than any that
\* was sent, in order, although the ring is never cleared and its index is kept when a
\* bot takes the slot.
HeardInOrder ==
  client.state # "free" =>
    \A i \in 0 .. client.queuedVoipPackets - 1 :
      LET packet == client.voipPacket[Slot(client, i)]
      IN /\ packet \in allocated
         /\ packet > heard
         /\ \A j \in 0 .. i - 1 : client.voipPacket[Slot(client, j)] < packet

\* Every packet in memory waits for the client: SV_FreeClient is, by its comment, the
\* destructor for the data allocated in a client structure.
NothingLeaks == allocated \subseteq Waiting(client)

\* The same, except for the packets that were in a client_t when it was given up in
\* one of the three ways that forget some: SV_FreeClient, when the ring has turned (it
\* forgets those outside its loop from index to count); SV_DirectConnect, for an
\* address that connects again; and SV_ChangeMaxClients, for a zombie.  Every other
\* packet that leaves the queue is freed, before and after any were forgotten.
NothingLeaksUnlessForgotten == allocated \subseteq Waiting(client) \cup forgotten
=============================================================================
