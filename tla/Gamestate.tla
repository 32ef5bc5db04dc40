------------------------------ MODULE Gamestate ------------------------------
(***************************************************************************)
(* How a client gets into the world and keeps up with the server's         *)
(* configstrings: the gamestate (SV_SendClientGameState,                   *)
(* CL_ParseGamestate), the serverId that tells one gamestate from another, *)
(* the configstring changes sent as reliable commands, a new map           *)
(* (SV_SpawnServer) and a map_restart (SV_MapRestart_f).                   *)
(*                                                                         *)
(* Messages obey OrderedMessages.  Reliable commands obey ServerCommands:  *)
(* a message brings every command added before it was built.  There are    *)
(* two configstrings, "cs", which the game changes, and "systeminfo",      *)
(* which holds the serverId.  The client has one player.  It may lack one  *)
(* file, which is downloaded (see Download) in one block.  Message numbers *)
(* are only compared with gamestateMessageNum: "newer" says that a number  *)
(* is greater.                                                             *)
(***************************************************************************)
EXTENDS Integers, Sequences, SequencesExt

CONSTANTS Lacks,            \* from which serverId on the client lacks a file, or None
          MaxServerId,      \* bounds: maps and restarts,
          Restarts,         \* how many of them may be map_restarts,
          MaxChanges,       \* values of "cs",
          MaxCommands,      \* reliable commands,
          MaxToClient,      \* messages under way to the client
          MaxToServer       \* and to the server

ASSUME BoundAssumption == /\ MaxServerId \in Nat \ {0} /\ Restarts \in Nat
                          /\ MaxChanges \in Nat /\ MaxCommands \in Nat
                          /\ {MaxToClient, MaxToServer} \subseteq Nat \ {0}
                          /\ Lacks \subseteq Nat

VARIABLES
  sv,           \* server_t
  client,       \* client_t
  toClient, toServer,
  cl            \* the client's clientActive_t and clientConnection_t

gamestateVars == <<sv, client, toClient, toServer, cl>>

None == 0       \* the serverId of a client without a gamestate

\* SV_DirectConnect has just accepted the client.  values are the configstrings,
\* restarts counts the map_restarts.  early: a map_restart put a client into the world
\* that had not acknowledged its gamestate; asserted: SV_UserMove's assertion failed;
\* replayed: a change older than the client's gamestate was applied to it.
GamestateInit ==
  /\ sv = [serverId |-> 1, restartedServerId |-> 1, restarts |-> 0,
           values |-> [cs |-> 0, systeminfo |-> 1]]
  /\ client = [state |-> "connected", inWorld |-> FALSE, csUpdated |-> {},
               commands |-> <<>>, downloadName |-> FALSE, lastClientCommand |-> 0,
               lastClientCommandString |-> "", early |-> FALSE, asserted |-> FALSE]
  /\ toClient = <<>> /\ toServer = <<>>
  /\ \E lacks \in Lacks :
       cl = [serverId |-> None, cs |-> 0, newer |-> TRUE, serverCommandSequence |-> 0,
             gamestateSequence |-> 0, snapshotSequence |-> 0, lastExecuted |-> 0,
             commands |-> <<>>, lacks |-> lacks, loaded |-> FALSE, downloading |-> FALSE,
             replayed |-> FALSE, gone |-> FALSE]

-----------------------------------------------------------------------------
\* Server

Command(c, index, value) ==
  [c EXCEPT !.commands = Append(@, [index |-> index, value |-> value])]

\* Mutant: a primed client is not told.
SV_SetConfigstring_NotPrimed(c, index, value) ==
  IF c.state = "active" THEN Command(c, index, value) ELSE c

\* A configstring has changed: an active client is told at once, a primed one
\* when it becomes active, a connected one by its gamestate.
SV_SetConfigstring(c, index, value) ==
  CASE c.state = "active" -> Command(c, index, value)
    [] c.state = "primed" -> [c EXCEPT !.csUpdated = @ \cup {index}]
    [] c.state = "connected" -> c

SV_UpdateConfigstrings(c, values) ==
  LET told == IF "systeminfo" \in c.csUpdated
              THEN Command(c, "systeminfo", values.systeminfo) ELSE c
      all  == IF "cs" \in c.csUpdated THEN Command(told, "cs", values.cs) ELSE told
  IN  [all EXCEPT !.csUpdated = {}]

\* Mutant: inWorld is not set.
SV_PlayerEnterWorld_InWorldForgotten(c, values) ==
  IF c.state = "primed" THEN SV_UpdateConfigstrings([c EXCEPT !.state = "active"], values)
                        ELSE c

SV_PlayerEnterWorld(c, values) ==
  LET entered == IF c.state = "primed"
                 THEN SV_UpdateConfigstrings([c EXCEPT !.state = "active"], values)
                 ELSE c
  IN  [entered EXCEPT !.inWorld = TRUE]

\* A new map: nothing is broadcast, the next packet of a connected client is
\* answered with the gamestate.
SV_SpawnServer ==
  /\ sv.serverId < MaxServerId
  /\ sv' = [sv EXCEPT !.serverId = @ + 1, !.restartedServerId = sv.serverId + 1,
                      !.values = [cs |-> 0, systeminfo |-> sv.serverId + 1]]
  /\ client' = [client EXCEPT !.state = "connected", !.inWorld = FALSE]
  /\ UNCHANGED <<toClient, toServer, cl>>

\* The same map again, without a gamestate.  The game sets its configstrings
\* anew; every client is put into the world.
SV_MapRestart_f ==
  /\ sv.serverId < MaxServerId
  /\ sv.restarts < Restarts
  /\ Len(client.commands) + 4 <= MaxCommands
  /\ sv' = [sv EXCEPT !.serverId = @ + 1, !.restarts = @ + 1, !.values.cs = 0]
  /\ LET reset == IF sv.values.cs # 0 THEN SV_SetConfigstring(client, "cs", 0) ELSE client
         told  == IF client.state = "connected" THEN reset ELSE Command(reset, "map_restart", 0)
     IN  client' = SV_PlayerEnterWorld([told EXCEPT !.inWorld = FALSE,
                                                   !.early = @ \/ client.state # "active"],
                                      sv'.values)
  /\ UNCHANGED <<toClient, toServer, cl>>

\* The game changes a configstring.
SetConfigstring ==
  /\ sv.values.cs < MaxChanges
  /\ Len(client.commands) < MaxCommands
  /\ sv' = [sv EXCEPT !.values.cs = @ + 1]
  /\ client' = SV_SetConfigstring(client, "cs", sv.values.cs + 1)
  /\ UNCHANGED <<toClient, toServer, cl>>

\* SV_Frame: after a map_restart the serverId in systeminfo is out of date.
UpdateInfostrings ==
  /\ sv.values.systeminfo # sv.serverId
  /\ Len(client.commands) < MaxCommands
  /\ sv' = [sv EXCEPT !.values.systeminfo = sv.serverId]
  /\ client' = SV_SetConfigstring(client, "systeminfo", sv.serverId)
  /\ UNCHANGED <<toClient, toServer, cl>>

Message(kind, values) == [kind |-> kind, newer |-> TRUE, values |-> values,
                          reliable |-> Len(client.commands)]

\* Mutant: a primed client is sent snapshots.
SV_SendClientSnapshot_Unprimed ==
  /\ ~client.downloadName
  /\ sv.values.systeminfo = sv.serverId
  /\ Len(toClient) < MaxToClient
  /\ toClient' = Append(toClient, Message(IF client.state # "connected" THEN "snapshot" ELSE "nothing",
                                          [cs |-> 0, systeminfo |-> None]))
  /\ UNCHANGED <<sv, client, toServer, cl>>

\* SV_Frame sends after it has updated the infostrings.  A client that is not
\* active is sent a message without a snapshot, one that downloads none.
SV_SendClientSnapshot ==
  /\ ~client.downloadName
  /\ sv.values.systeminfo = sv.serverId
  /\ Len(toClient) < MaxToClient
  /\ toClient' = Append(toClient, Message(IF client.state = "active" THEN "snapshot" ELSE "nothing",
                                          [cs |-> 0, systeminfo |-> None]))
  /\ UNCHANGED <<sv, client, toServer, cl>>

\* The block is sent again until the client says that it has it.  It comes without
\* the reliable commands.
SV_SendDownloadMessages ==
  /\ client.downloadName
  /\ Len(toClient) < MaxToClient
  /\ toClient' = Append(toClient, Message("block", [cs |-> 0, systeminfo |-> None]))
  /\ UNCHANGED <<sv, client, toServer, cl>>

\* The bound on the messages under way: one more makes the network lose the oldest.
Room == IF Len(toClient) < MaxToClient THEN toClient ELSE Tail(toClient)

\* The last n messages wait in the server's queue.  gamestateMessageNum is then
\* the number of the first of them and not the gamestate's own.  Packets that are
\* under way acknowledge none of these.
SV_SendClientGameState ==
  /\ \E n \in 0 .. Len(Room) :
       toClient' = [i \in DOMAIN Room |-> [Room[i] EXCEPT !.newer = i > Len(Room) - n + 1]]
                   \o <<[Message("gamestate", sv.values) EXCEPT !.newer = n > 0]>>
  /\ cl' = [cl EXCEPT !.newer = FALSE]
  /\ toServer' = [i \in DOMAIN Tail(toServer) |-> [Tail(toServer)[i] EXCEPT !.newer = FALSE]]

Primed(c) == [c EXCEPT !.state = "primed"]

\* The packet of a client that has not heard of a map_restart yet.
BeforeRestart(m) == m.serverId >= sv.restartedServerId /\ m.serverId < sv.serverId

\* Mutant: a gamestate is never sent again.
DroppedGamestate_OnlyFirst(m) == client.state = "connected" /\ m.newer

\* "The client has dropped the last gamestate we sent."
DroppedGamestate(m) == client.state # "active" /\ m.newer

\* SV_UserMove, as far as it concerns the client's state.
SV_UserMove(c) ==
  LET entered == IF ~c.inWorld THEN SV_PlayerEnterWorld(c, sv.values) ELSE c
  IN  [entered EXCEPT !.asserted = @ \/ entered.state # "active"]

\* SV_ClientCommand: a download begins, ends or is given up.
DownloadCommand(c, name) ==
  [c EXCEPT !.lastClientCommand = @ + 1,
            !.lastClientCommandString = name,
            !.downloadName = IF name = "donedl" THEN @ ELSE name = "download"]

\* SV_DoneDownload_f: the gamestate is sent again.
Asks(c, names) == c.state # "active" /\ \E i \in DOMAIN names : names[i] = "donedl"

\* A client that downloads keeps its gamestate until it is done.
Fetching == client.downloadName \/ client.lastClientCommandString = "nextdl"

\* The commands of a packet, then its move.
Execute(m) ==
  LET names == SubSeq(cl.commands, client.lastClientCommand + 1, m.commands)
      done == FoldLeft(DownloadCommand, client, names)
      asked == IF Asks(client, names) THEN Primed(done) ELSE done
  IN  /\ client' = IF m.move THEN SV_UserMove(asked) ELSE asked
      /\ IF Asks(client, names)
         THEN SV_SendClientGameState
         ELSE toServer' = Tail(toServer) /\ UNCHANGED <<toClient, cl>>

SV_ExecuteClientMessage ==
  /\ toServer # <<>>
  /\ LET m == Head(toServer)
         stale == m.serverId # sv.serverId /\ ~Fetching
     IN  \/ /\ stale /\ ~BeforeRestart(m) /\ DroppedGamestate(m)
            /\ client' = Primed(client)
            /\ SV_SendClientGameState
         \/ /\ stale /\ (BeforeRestart(m) \/ ~DroppedGamestate(m))
            /\ toServer' = Tail(toServer)
            /\ UNCHANGED <<client, toClient, cl>>
         \/ /\ ~stale
            /\ Len(client.commands) + 2 <= MaxCommands
            /\ Execute(m)
  /\ UNCHANGED sv

-----------------------------------------------------------------------------
\* Client

\* A snapshot is an error for a client whose cgame has not been loaded for the
\* gamestate: CL_ClearState cleared its net fields.
CL_ParseSnapshot(m) ==
  IF ~cl.loaded THEN [cl EXCEPT !.gone = TRUE]
  ELSE [cl EXCEPT !.newer = m.newer, !.serverCommandSequence = m.reliable,
                  !.snapshotSequence = m.reliable]

\* Everything is cleared but the connection.  With all files there the cgame is
\* loaded at once and goes on with the command after the last one it executed;
\* otherwise CL_InitDownloads asks for the missing one.
CL_ParseGamestate(m) ==
  LET missing == cl.lacks # None /\ m.values.systeminfo >= cl.lacks
  IN  [cl EXCEPT !.newer = m.newer, !.serverCommandSequence = m.reliable,
                 !.gamestateSequence = m.reliable, !.snapshotSequence = 0, !.replayed = FALSE,
                 !.serverId = m.values.systeminfo, !.cs = m.values.cs,
                 !.loaded = ~missing, !.downloading = missing,
                 !.commands = IF missing THEN Append(@, "download") ELSE @]

Packet(c) == [serverId |-> c.serverId, newer |-> c.newer, commands |-> Len(c.commands),
              move |-> c.loaded]

\* The file is complete: the server is told so, with a packet at once, and asked for
\* another gamestate.
CL_ParseDownload(m) ==
  LET got == [cl EXCEPT !.newer = m.newer, !.downloading = FALSE, !.lacks = None,
                        !.commands = Append(@, "nextdl")]
  IN  /\ cl' = [got EXCEPT !.commands = Append(@, "donedl")]
      /\ \/ Len(toServer) < MaxToServer /\ toServer' = Append(toServer, Packet(got))
         \/ UNCHANGED toServer

\* A block that was sent once too often.  (Bound: one answer at a time.)
UnexpectedBlock(m) ==
  /\ cl' = [cl EXCEPT !.newer = m.newer,
                      !.commands = IF cl.commands # <<>> /\ Last(@) = "stopdl" THEN @
                                                         ELSE Append(@, "stopdl")]
  /\ UNCHANGED toServer

CL_ParseServerMessage ==
  /\ ~cl.gone
  /\ toClient # <<>>
  /\ toClient' = Tail(toClient)
  /\ LET m == Head(toClient)
     IN  IF m.kind = "block"
         THEN IF cl.downloading THEN CL_ParseDownload(m) ELSE UnexpectedBlock(m)
         ELSE /\ cl' = CASE m.kind = "snapshot" -> CL_ParseSnapshot(m)
                         [] m.kind = "gamestate" -> CL_ParseGamestate(m)
                         [] m.kind = "nothing" -> [cl EXCEPT !.newer = m.newer,
                                                             !.serverCommandSequence = m.reliable]
              /\ UNCHANGED toServer
  /\ UNCHANGED <<sv, client>>

CL_ConfigstringModified(c, command) ==
  CASE command.index = "cs" -> [c EXCEPT !.cs = command.value]
    [] command.index = "systeminfo" -> [c EXCEPT !.serverId = command.value]
    [] command.index = "map_restart" -> c

\* The cgame executes the commands of the newest snapshot.
CL_GetServerCommand ==
  /\ ~cl.gone /\ cl.loaded
  /\ cl.lastExecuted < cl.snapshotSequence
  /\ LET n == cl.lastExecuted + 1
         command == client.commands[n]
     IN  cl' = [CL_ConfigstringModified(cl, command) EXCEPT
                  !.lastExecuted = n,
                  !.replayed = @ \/ (n <= cl.gamestateSequence /\ command.index # "map_restart")]
  /\ UNCHANGED <<sv, client, toClient, toServer>>

\* A packet has a move as soon as the cgame is loaded.
CL_WritePacket ==
  /\ ~cl.gone
  /\ Len(toServer) < MaxToServer
  /\ toServer' = Append(toServer, Packet(cl))
  /\ UNCHANGED <<sv, client, toClient, cl>>

\* The network loses a message.
Lose ==
  /\ \/ toClient # <<>> /\ toClient' = Tail(toClient) /\ UNCHANGED toServer
     \/ toServer # <<>> /\ toServer' = Tail(toServer) /\ UNCHANGED toClient
  /\ UNCHANGED <<sv, client, cl>>

-----------------------------------------------------------------------------
GamestateNext ==
  \/ SV_SpawnServer \/ SV_MapRestart_f \/ SetConfigstring \/ UpdateInfostrings
  \/ SV_SendClientSnapshot \/ SV_SendDownloadMessages \/ SV_ExecuteClientMessage
  \/ CL_ParseServerMessage \/ CL_GetServerCommand \/ CL_WritePacket \/ Lose

\* Both programs run frame after frame; of the messages of one kind that are sent
\* again and again one gets through in the end.
GamestateSpec ==
  /\ GamestateInit /\ [][GamestateNext]_gamestateVars
  /\ WF_gamestateVars(UpdateInfostrings) /\ WF_gamestateVars(SV_SendClientSnapshot)
  /\ WF_gamestateVars(SV_SendDownloadMessages)
  /\ WF_gamestateVars(CL_GetServerCommand) /\ WF_gamestateVars(CL_WritePacket)
  /\ SF_gamestateVars(SV_ExecuteClientMessage)
  /\ \A kind \in {"gamestate", "snapshot", "nothing", "block"} :
       SF_gamestateVars(CL_ParseServerMessage /\ Head(toClient).kind = kind)

-----------------------------------------------------------------------------
GamestateTypeOK ==
  /\ client.state \in {"connected", "primed", "active"}
  /\ client.state = "active" => client.inWorld
  /\ client.csUpdated \subseteq {"cs", "systeminfo"}
  /\ sv.restartedServerId <= sv.serverId /\ sv.values.systeminfo <= sv.serverId
  /\ cl.serverId \in None .. sv.serverId
  /\ cl.lastExecuted <= cl.serverCommandSequence
  /\ cl.gamestateSequence <= cl.serverCommandSequence
  /\ cl.serverCommandSequence <= Len(client.commands)
  /\ client.lastClientCommand <= Len(cl.commands)
  /\ cl.loaded => ~cl.downloading

\* The client is in the world and has executed all it was sent.
Settled == /\ client.state = "active" /\ ~cl.gone
           /\ sv.values.systeminfo = sv.serverId
           /\ cl.lastExecuted = Len(client.commands)
           /\ \A i \in DOMAIN toClient : toClient[i].kind # "gamestate"

\* "Any configstring changes should be reliably transmitted to all clients"
\* (SV_SpawnServer): in the end the client has the server's configstrings.
ConfigstringsAgree ==
  Settled => cl.cs = sv.values.cs /\ cl.serverId = sv.values.systeminfo

\* Whatever is lost, and whenever a configstring changes or the map restarts: as
\* long as no old change was applied to a new gamestate and no client was put into
\* the world without its gamestate.
ConfigstringsAgreeIfOrderly == cl.replayed \/ client.early \/ ConfigstringsAgree

\* "Hold off sending snapshot as it can't be loaded until after cgame is loaded"
\* (SV_SendClientSnapshot).
NoUnexpectedSnapshot == ~cl.gone

\* SV_UserMove: assert( cl->state == CS_ACTIVE ).
UserMoveAssertion == ~client.asserted

\* A client is only put into the world with its gamestate, and then for good: in
\* every interleaving of new maps, lost gamestates and old moves that has no
\* map_restart before the client is active.
EnteredInOrder == client.early \/ (NoUnexpectedSnapshot /\ UserMoveAssertion)

\* The client has its files, asks for the gamestate it is to load, and is where the
\* server takes it to have that gamestate.
Awaiting == cl.serverId = sv.serverId /\ ~cl.loaded /\ ~cl.downloading

\* "When we receive the first packet from the client, we will notice that it is
\* from a different serverid and that the gamestate message was not just sent,
\* forcing a retransmit" (SV_SendClientGameState).
GamestateArrives == []<>(~Awaiting \/ cl.gone)

\* A lost gamestate is sent again until the client is in the world, whatever it has
\* to download first and whenever the map changes: in the same cases, for the
\* serverId in an old change makes all its later moves stale, and unless the gamestate
\* after a download was lost.
EntersWorld ==
  <>[]\/ client.early \/ cl.replayed \/ Awaiting
      \/ client.state = "active" /\ cl.serverId = sv.serverId
=============================================================================
