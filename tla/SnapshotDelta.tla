--------------------------- MODULE SnapshotDelta ---------------------------
(***************************************************************************)
(* Delta compressed snapshots from the server to one client               *)
(* (server/sv_snapshot.c, client/cl_parse.c).  The server writes a         *)
(* snapshot as the difference from an older one the client has said it     *)
(* holds, or, failing that, from the entities' baselines.  Both sides keep *)
(* the last PACKET_BACKUP snapshots and the entities of all of them in one *)
(* ring; the server's ring is shared by all its clients.                   *)
(*                                                                         *)
(* The state of an entity is one value.  A delta is the pair of states it  *)
(* was computed from and for: applied to any other state it yields         *)
(* Garbage.  The state of the players, which each snapshot carries as      *)
(* well, is left out.  Messages obey OrderedMessages.                      *)
(***************************************************************************)
EXTENDS Integers, Sequences, FiniteSets, SequencesExt

CONSTANTS Entities,                 \* entity numbers
          Views,                    \* what a snapshot may show: functions from
                                    \* some entities to their states
          Baseline,                 \* the baselines of this map
          PACKET_BACKUP,
          MAX_SNAPSHOT_ENTITIES,    \* the entities of one snapshot
          numSnapshotEntities,      \* size of the server's ring
          maxParseEntities,         \* size of the client's ring
          WRAP,                     \* 0x7FFFFFFE
          UsedBefore,               \* of the server's ring, by earlier snapshots
          MaxMessages, MaxInFlight, \* bounds; OthersAt are the places of the
          OthersAt                  \* ring where others' snapshots may begin

Garbage == -1
Gone == -2
Zero == 0            \* the state a cleared entityState_t holds

ASSUME SizeAssumption ==
  /\ {PACKET_BACKUP, MAX_SNAPSHOT_ENTITIES, numSnapshotEntities, maxParseEntities, WRAP}
        \subseteq Nat \ {0}
  /\ PACKET_BACKUP > 3
  /\ numSnapshotEntities >= MAX_SNAPSHOT_ENTITIES
  /\ maxParseEntities >= MAX_SNAPSHOT_ENTITIES
  /\ UsedBefore \in 0 .. WRAP - 1
  /\ WRAP > 3 * numSnapshotEntities + MAX_SNAPSHOT_ENTITIES
ASSUME ViewAssumption ==
  /\ Entities \subseteq Nat /\ IsFiniteSet(Entities) /\ Baseline \in [Entities -> Nat]
  /\ \A view \in Views : \E shown \in SUBSET Entities :
        view \in [shown -> Nat] /\ Cardinality(shown) <= MAX_SNAPSHOT_ENTITIES

VARIABLES
  active, needBaseline, deltaMessage,                 \* client_t
  outgoingSequence, backlog,                          \* its netchan
  frames,                                             \* client_t.frames
  snapshotEntities, nextSnapshotEntities,             \* svs
  toClient, toServer,                                 \* messages under way
  serverMessageSequence, snap, snapshots,             \* clientConnection_t, cl
  parseEntities, parseEntitiesNum, entityBaselines

client == <<active, needBaseline, deltaMessage>>
ring   == <<snapshotEntities, nextSnapshotEntities>>
cl     == <<serverMessageSequence, snap, snapshots, parseEntities, parseEntitiesNum,
            entityBaselines>>
vars   == <<client, outgoingSequence, backlog, frames, ring, toClient, toServer, cl>>

Packets == 0 .. PACKET_BACKUP - 1
Ring(size) == [0 .. size - 1 -> {[number |-> 0, state |-> Zero]}]
NoSnapshot == [valid |-> FALSE, messageNum |-> 0, parseEntitiesNum |-> 0, numEntities |-> 0,
               built |-> <<>>]

\* The client has loaded the map: its first move will make the server call it
\* active.
Init ==
  /\ active = FALSE /\ needBaseline = TRUE /\ deltaMessage = -1
  /\ outgoingSequence = 1 /\ backlog = <<>>
  /\ frames = [i \in Packets |-> [first_entity |-> 0, num_entities |-> 0]]
  /\ snapshotEntities \in Ring(numSnapshotEntities) /\ nextSnapshotEntities = UsedBefore
  /\ toClient = <<>> /\ toServer = <<>>
  /\ serverMessageSequence = 0 /\ snap = NoSnapshot
  /\ snapshots = [i \in Packets |-> NoSnapshot]
  /\ parseEntities \in Ring(maxParseEntities) /\ parseEntitiesNum = 0
  /\ entityBaselines = [e \in Entities |-> Zero]

\* The numbers of a set in ascending order (SetToSortSeq is defined by SortSeq, for
\* which the prover has no definition).
Ascending(S) ==
  CHOOSE q \in [1 .. Cardinality(S) -> S] : \A i, j \in DOMAIN q : i < j => q[i] < q[j]

Sorted(view) == LET numbers == Ascending(DOMAIN view)
                IN  [i \in DOMAIN numbers |-> [number |-> numbers[i], state |-> view[numbers[i]]]]

Entry(buffer, size, n) == buffer[n % size]

-----------------------------------------------------------------------------
\* Server

\* Mutant: the snapshot's own entities are forgotten.
MustLower_WithoutRoom(n) == nextSnapshotEntities >= WRAP

\* The shared ring after n more entities, and the frames that point into it.
\* Before the index would wrap, it is lowered by a multiple of the ring's size.
MustLower(n) == nextSnapshotEntities >= WRAP - n

Offset == (nextSnapshotEntities \div numSnapshotEntities - 2) * numSnapshotEntities

Lowered(first) == IF first <= nextSnapshotEntities - numSnapshotEntities
                  THEN first % numSnapshotEntities
                  ELSE first - Offset

FramesLowered(n) ==
  IF MustLower(n) THEN [i \in Packets |-> [frames[i] EXCEPT !.first_entity = Lowered(@)]]
                  ELSE frames

FirstEntity(n) == IF MustLower(n) THEN nextSnapshotEntities - Offset ELSE nextSnapshotEntities

CopyOut(entities) ==
  LET n == Len(entities)
      At(i) == (FirstEntity(n) + i - 1) % numSnapshotEntities
  IN  /\ nextSnapshotEntities' = FirstEntity(n) + n
      /\ snapshotEntities' =
           [s \in DOMAIN snapshotEntities |->
              IF \E i \in 1 .. n : At(i) = s
              THEN entities[CHOOSE i \in 1 .. n : At(i) = s] ELSE snapshotEntities[s]]

SV_BuildClientSnapshot(view) ==
  /\ CopyOut(Sorted(view))
  /\ frames' = [FramesLowered(Cardinality(DOMAIN view)) EXCEPT
                  ![outgoingSequence % PACKET_BACKUP] =
                     [first_entity |-> FirstEntity(Cardinality(DOMAIN view)),
                      num_entities |-> Cardinality(DOMAIN view)]]

\* The entities of a frame as the ring holds them after the build.
Shown(frame) ==
  LET entries == {snapshotEntities'[(frame.first_entity + i) % numSnapshotEntities] :
                    i \in 0 .. frame.num_entities - 1}
  IN  [e \in {x.number : x \in entries} |-> (CHOOSE x \in entries : x.number = e).state]

\* Mutant: the margin is missing.
OutOfDate_NoMargin == outgoingSequence - deltaMessage > PACKET_BACKUP

OutOfDate == outgoingSequence - deltaMessage >= PACKET_BACKUP - 3

RolledOff(frame) == frame.first_entity <= nextSnapshotEntities' - numSnapshotEntities

OldFrame == frames'[deltaMessage % PACKET_BACKUP]

CanDelta == /\ deltaMessage > 0
            /\ ~OutOfDate
            /\ ~RolledOff(OldFrame)

\* What is written: an entity that left, changed, or was not in the old frame
\* (then even if it is as in its baseline).
SV_EmitPacketEntities(from, to) ==
  [e \in {x \in DOMAIN from \cup DOMAIN to :
            ~(x \in DOMAIN from /\ x \in DOMAIN to /\ from[x] = to[x])} |->
     [from |-> IF e \in DOMAIN from THEN from[e] ELSE Baseline[e],
      to   |-> IF e \in DOMAIN to THEN to[e] ELSE Gone]]

\* A message, not numbered yet; built is not written, it says what the snapshot shows.
SV_WriteSnapshotToClient(view) ==
  [num       |-> 0,
   snapshot  |-> TRUE,
   baselines |-> needBaseline,
   lastframe |-> IF CanDelta THEN outgoingSequence - deltaMessage ELSE 0,
   entities  |-> SV_EmitPacketEntities(IF CanDelta THEN Shown(OldFrame) ELSE <<>>, view),
   built     |-> Sorted(view)]

NothingYet == [num |-> 0, snapshot |-> FALSE, baselines |-> FALSE, lastframe |-> 0,
               entities |-> <<>>, built |-> <<>>]

\* The net channel, see ServerNetchan: a message is numbered when the last of
\* its fragments is sent.
Transmit(message) ==
  \/ /\ backlog = <<>>
     /\ toClient' = Append(toClient, [message EXCEPT !.num = outgoingSequence])
     /\ outgoingSequence' = outgoingSequence + 1
     /\ UNCHANGED backlog
  \/ /\ backlog' = Append(backlog, message)
     /\ UNCHANGED <<toClient, outgoingSequence>>

SV_Netchan_TransmitNextFragment ==
  /\ backlog # <<>>
  /\ Len(toClient) < MaxInFlight
  /\ toClient' = Append(toClient, [Head(backlog) EXCEPT !.num = outgoingSequence])
  /\ outgoingSequence' = outgoingSequence + 1
  /\ backlog' = Tail(backlog)
  /\ UNCHANGED <<client, frames, ring, toServer, cl>>

\* SV_SendClientMessages: "drop this snapshot if the packet queue is still full
\* or delta compression will break".
Unsent == backlog # <<>>

SV_SendClientSnapshot ==
  /\ ~Unsent
  /\ outgoingSequence + Len(backlog) <= MaxMessages
  /\ Len(toClient) < MaxInFlight
  /\ \E view \in Views :
       /\ SV_BuildClientSnapshot(view)
       /\ \/ /\ active
             /\ Transmit(SV_WriteSnapshotToClient(view))
             /\ needBaseline' = FALSE
          \/ /\ ~active
             /\ Transmit(NothingYet)
             /\ needBaseline' = TRUE
  /\ UNCHANGED <<active, deltaMessage, toServer, cl>>

\* Another client's snapshot passes through the ring.
OtherClient ==
  /\ nextSnapshotEntities \in OthersAt
  /\ \E view \in Views : /\ view # <<>>
                         /\ CopyOut(Sorted(view))
                         /\ frames' = FramesLowered(Cardinality(DOMAIN view))
  /\ UNCHANGED <<client, outgoingSequence, backlog, toClient, toServer, cl>>

\* SV_UserMove sets deltaMessage, SV_PlayerEnterWorld resets it with the first
\* move.
SV_UserMove ==
  /\ toServer # <<>>
  /\ toServer' = Tail(toServer)
  /\ deltaMessage' = IF active /\ Head(toServer).delta
                     THEN Head(toServer).messageAcknowledge ELSE -1
  /\ active' = TRUE
  /\ UNCHANGED <<needBaseline, outgoingSequence, backlog, frames, ring, toClient, cl>>

-----------------------------------------------------------------------------
\* Client

MSG_ReadDeltaEntity(from, delta) == IF delta.to = Gone \/ from = delta.from THEN delta.to
                                                                          ELSE Garbage

OldNumbers(old) ==
  [i \in 1 .. old.numEntities |->
     Entry(parseEntities, maxParseEntities, old.parseEntitiesNum + i - 1).number]

\* One entity more: changed, new, removed, or copied from the old snapshot.
CL_DeltaEntity(st, old, entities, e) ==
  LET numbers == OldNumbers(old)
      place == SelectInSeq(numbers, LAMBDA n : n = e)
      from == IF place > 0
              THEN Entry(st.ring, maxParseEntities, old.parseEntitiesNum + place - 1).state
              ELSE st.baselines[e]
      state == IF e \in DOMAIN entities THEN MSG_ReadDeltaEntity(from, entities[e]) ELSE from
  IN  [st EXCEPT !.ring[st.next % maxParseEntities] = [number |-> e, state |-> state],
                 !.next = IF state = Gone THEN @ ELSE @ + 1]

CL_ParsePacketEntities(old, entities, baselines) ==
  FoldLeft(LAMBDA st, e : CL_DeltaEntity(st, old, entities, e),
           [ring |-> parseEntities, next |-> parseEntitiesNum, baselines |-> baselines],
           Ascending(Range(OldNumbers(old)) \cup DOMAIN entities))

\* A snapshot that is not valid is read as well: what it leaves in the ring is
\* anything.
Suck(old, entities) ==
  \E n \in 0 .. old.numEntities + Cardinality(DOMAIN entities) :
    /\ parseEntitiesNum' = parseEntitiesNum + n
    /\ parseEntities' = [s \in DOMAIN parseEntities |->
                           IF \E i \in 0 .. n : (parseEntitiesNum + i) % maxParseEntities = s
                           THEN [number |-> 0, state |-> Garbage] ELSE parseEntities[s]]

ParseEntitiesTooOld(old) ==
  parseEntitiesNum - old.parseEntitiesNum > maxParseEntities - MAX_SNAPSHOT_ENTITIES

ValidDelta(m) == LET old == snapshots[(m.num - m.lastframe) % PACKET_BACKUP]
                 IN  /\ old.valid
                     /\ old.messageNum = m.num - m.lastframe
                     /\ ~ParseEntitiesTooOld(old)

\* The slots of the messages that were skipped are no longer valid.
Skipped(m) == {n \in snap.messageNum + 1 .. m.num - 1 : n > m.num - PACKET_BACKUP}

CL_ParseSnapshot(m, baselines) ==
  LET full == m.num - m.lastframe <= 0 \/ m.lastframe = 0
      old == IF full THEN NoSnapshot ELSE snapshots[(m.num - m.lastframe) % PACKET_BACKUP]
      parsed == CL_ParsePacketEntities(old, m.entities, baselines)
      new == [valid |-> TRUE, messageNum |-> m.num, parseEntitiesNum |-> parseEntitiesNum,
              numEntities |-> parsed.next - parseEntitiesNum, built |-> m.built]
  IN  \/ /\ full \/ ValidDelta(m)
         /\ parseEntities' = parsed.ring
         /\ parseEntitiesNum' = parsed.next
         /\ snap' = new
         /\ snapshots' = [i \in Packets |->
                            IF i = m.num % PACKET_BACKUP THEN new
                            ELSE IF \E n \in Skipped(m) : n % PACKET_BACKUP = i
                            THEN [snapshots[i] EXCEPT !.valid = FALSE]
                            ELSE snapshots[i]]
      \/ /\ ~full /\ ~ValidDelta(m)
         /\ Suck(old, m.entities)
         /\ UNCHANGED <<snap, snapshots>>

CL_ParseBaselines(m) == IF m.baselines THEN Baseline ELSE entityBaselines

CL_ParseServerMessage ==
  /\ toClient # <<>>
  /\ toClient' = Tail(toClient)
  /\ serverMessageSequence' = Head(toClient).num
  /\ entityBaselines' = CL_ParseBaselines(Head(toClient))
  /\ \/ /\ Head(toClient).snapshot
        /\ CL_ParseSnapshot(Head(toClient), CL_ParseBaselines(Head(toClient)))
     \/ /\ ~Head(toClient).snapshot
        /\ UNCHANGED <<snap, snapshots, parseEntities, parseEntitiesNum>>
  /\ UNCHANGED <<client, outgoingSequence, backlog, frames, ring, toServer>>

\* Mutant: a message without a usable snapshot is acknowledged as a base.
MayDelta_Any == snap.valid

\* The newest message was a snapshot this client could use.
MayDelta == snap.valid /\ serverMessageSequence = snap.messageNum

\* cl_nodelta, and the wait for a full snapshot to start a demo with, ask for a
\* full snapshot at any time.
CL_WritePacket ==
  /\ Len(toServer) < MaxInFlight
  /\ \E delta \in {MayDelta, FALSE} :
       toServer' = Append(toServer, [messageAcknowledge |-> serverMessageSequence,
                                     delta |-> delta])
  /\ UNCHANGED <<client, outgoingSequence, backlog, frames, ring, toClient, cl>>

\* CL_GetSnapshot: the entities were overwritten, there is nothing to return.
Lost(s) == parseEntitiesNum - s.parseEntitiesNum >= maxParseEntities

Returned(s) == /\ s.valid
               /\ snap.messageNum - s.messageNum < PACKET_BACKUP
               /\ ~Lost(s)

CL_GetSnapshot(s) ==
  [i \in 1 .. s.numEntities |-> Entry(parseEntities, maxParseEntities, s.parseEntitiesNum + i - 1)]

-----------------------------------------------------------------------------
\* The network loses a message.
Lose ==
  /\ \/ toClient # <<>> /\ toClient' = Tail(toClient) /\ UNCHANGED toServer
     \/ toServer # <<>> /\ toServer' = Tail(toServer) /\ UNCHANGED toClient
  /\ UNCHANGED <<client, outgoingSequence, backlog, frames, ring, cl>>

Next == \/ Lose \/ SV_SendClientSnapshot \/ SV_Netchan_TransmitNextFragment \/ OtherClient
        \/ SV_UserMove \/ CL_ParseServerMessage \/ CL_WritePacket

Spec == Init /\ [][Next]_vars

-----------------------------------------------------------------------------
\* "This should never hit": the index into the server's ring does not wrap, and
\* no frame points beyond it.
TypeOK ==
  /\ active \in BOOLEAN /\ needBaseline \in BOOLEAN
  /\ deltaMessage \in -1 .. outgoingSequence - 1
  /\ nextSnapshotEntities \in 0 .. WRAP - 1
  /\ \A i \in Packets : frames[i].first_entity <= nextSnapshotEntities
  /\ serverMessageSequence \in snap.messageNum .. outgoingSequence - 1
  /\ \A i \in Packets : snapshots[i].parseEntitiesNum <= parseEntitiesNum
  /\ DOMAIN entityBaselines = Entities

\* What the client's game is given is what the server's world showed.
GameSeesWorld ==
  \A i \in Packets : Returned(snapshots[i]) => CL_GetSnapshot(snapshots[i]) = snapshots[i].built

\* As long as the client has the baselines.
GameSeesWorldWithBaselines == entityBaselines = Baseline => GameSeesWorld

\* "Delta from invalid frame (not supposed to happen!)" (CL_ParseSnapshot): no
\* snapshot under way is the difference from one the client does not hold.
DeltaBaseHeld ==
  \A k \in DOMAIN toClient :
    toClient[k].lastframe > 0 =>
      LET base == toClient[k].num - toClient[k].lastframe
      IN  /\ snapshots[base % PACKET_BACKUP].valid
          /\ snapshots[base % PACKET_BACKUP].messageNum = base
=============================================================================
