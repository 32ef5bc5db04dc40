--------------------------- MODULE ServerCommands ---------------------------
(***************************************************************************)
(* The reliable commands a server sends to one client: SV_AddServerCommand *)
(* and what uses it (server/sv_main.c, sv_client.c, sv_snapshot.c), the    *)
(* client's CL_ParseCommandString and CL_GetServerCommand.  Every message  *)
(* repeats all the commands that are not acknowledged yet; every client    *)
(* message acknowledges the newest command received.  Messages obey        *)
(* OrderedMessages: some are lost, none is repeated or overtaken.          *)
(*                                                                         *)
(* The game's command number n has the text n, so that the contents of a   *)
(* slot of the ring tell which command was stored there last.              *)
(***************************************************************************)
EXTENDS Integers, Sequences, SequencesExt

CONSTANTS MAX_RELIABLE_COMMANDS,    \* size of both rings
          Loopback,                 \* the client is in the server's process
          NDEBUG,                   \* release build
          MaxCommands,              \* bound on the commands of a behaviour
          MaxInFlight               \* bound on the messages under way, each way

ASSUME ConstantAssumption == /\ MAX_RELIABLE_COMMANDS \in Nat \ {0}
                             /\ Loopback \in BOOLEAN /\ NDEBUG \in BOOLEAN
                             /\ MaxCommands \in Nat /\ MaxInFlight \in Nat

VARIABLES
  client,               \* the server's client_t
  toClient, toServer,   \* the messages under way
  serverCommandSequence, serverCommands, lastExecutedServerCommand,
  snapshot,             \* the newest snapshot the client parsed
  gone,                 \* the client has left: Com_Error or a disconnect command
  executed              \* history: texts the client's game was given

clientVars == <<serverCommandSequence, serverCommands, lastExecutedServerCommand,
                snapshot, gone, executed>>
vars == <<client, toClient, toServer, clientVars>>

DropPrint == -1           \* the texts of SV_DropPlayer
DropDisconnect == -2

Slot(n) == n % MAX_RELIABLE_COMMANDS
Slots == 0 .. MAX_RELIABLE_COMMANDS - 1

NoSnapshot == [serverCommandNum |-> 0, sequence |-> 0]

\* A client that has acknowledged its gamestate.  disconnects counts the calls
\* of GAME_PLAYER_DISCONNECT, issued is every text added, illegible whether the
\* server ever found an acknowledgement out of range.
Init ==
  /\ client = [state |-> "active", reliableSequence |-> 0, reliableAcknowledge |-> 0,
               reliableCommands |-> [s \in Slots |-> 0],
               issued |-> <<>>, disconnects |-> 0, illegible |-> FALSE]
  /\ toClient = <<>> /\ toServer = <<>>
  /\ serverCommandSequence = 0 /\ lastExecutedServerCommand = 0
  /\ serverCommands = [s \in Slots |-> 0]
  /\ snapshot = NoSnapshot /\ gone = FALSE /\ executed = <<>>

-----------------------------------------------------------------------------
\* Server

\* Mutant: the number is counted twice.
Numbered_Twice(cl, text) == [cl EXCEPT !.reliableSequence = @ + 2,
                                       !.issued = Append(@, text)]

Numbered(cl, text) == [cl EXCEPT !.reliableSequence = @ + 1,
                                 !.issued = Append(@, text)]

Stored(cl, text) ==
  [Numbered(cl, text) EXCEPT !.reliableCommands[Slot(cl.reliableSequence + 1)] = text]

\* The new command would take the slot of one that is not acknowledged.
Overflows(cl) ==
  cl.reliableSequence + 1 - cl.reliableAcknowledge = MAX_RELIABLE_COMMANDS + 1

Zombie(cl) == [cl EXCEPT !.state = "zombie"]

GameDisconnect(cl) == [cl EXCEPT !.disconnects = @ + 1]

\* Mutant: the client is not told.
DropAfterOverflow_Silent(cl) ==
  IF Loopback \/ cl.state = "zombie" THEN cl ELSE Zombie(Stored(GameDisconnect(cl), DropPrint))

\* SV_DropPlayer of the client's only player, when the commands it adds do not
\* overflow: they come after the one that did.
DropAfterOverflow(cl) ==
  IF Loopback \/ cl.state = "zombie" THEN cl
  ELSE Zombie(Stored(Stored(GameDisconnect(cl), DropPrint), DropDisconnect))

SV_AddServerCommand(cl, text) ==
  IF cl.state = "zombie" THEN cl
  ELSE IF Overflows(cl) THEN DropAfterOverflow(Numbered(cl, text))
  ELSE Stored(cl, text)

\* SV_DropPlayer: tell everyone, then the client, each of which may overflow.
SV_DropClient(cl) ==
  IF Loopback \/ cl.state = "zombie" THEN cl
  ELSE Zombie(SV_AddServerCommand(SV_AddServerCommand(GameDisconnect(cl), DropPrint),
                                  DropDisconnect))

\* The game sends its next command (SV_SendServerCommand).
SendServerCommand ==
  /\ client.reliableSequence < MaxCommands
  /\ client.state # "zombie"
  /\ client' = SV_AddServerCommand(client, client.reliableSequence + 1)
  /\ UNCHANGED <<toClient, toServer, clientVars>>

\* A kick, a timeout, a disconnect command from the client.
DropClient ==
  /\ client.state # "zombie" /\ ~Loopback
  /\ client' = SV_DropClient(client)
  /\ UNCHANGED <<toClient, toServer, clientVars>>

\* Mutant: the first pending command is skipped.
UpdateServerCommandsToClient_SkipsOne(cl) ==
  [i \in 1 .. cl.reliableSequence - cl.reliableAcknowledge - 1 |->
     LET n == cl.reliableAcknowledge + 1 + i
     IN  [seq |-> n, text |-> cl.reliableCommands[Slot(n)]]]

SV_UpdateServerCommandsToClient(cl) ==
  [i \in 1 .. cl.reliableSequence - cl.reliableAcknowledge |->
     LET n == cl.reliableAcknowledge + i
     IN  [seq |-> n, text |-> cl.reliableCommands[Slot(n)]]]

\* One message: what is not acknowledged and a snapshot.  sequence is not in the
\* message: it says which commands were added before the snapshot was built.
SV_SendClientSnapshot ==
  /\ Len(toClient) < MaxInFlight
  /\ toClient' = Append(toClient,
                        [commands |-> SV_UpdateServerCommandsToClient(client),
                         sequence |-> client.reliableSequence])
  /\ UNCHANGED <<client, toServer, clientVars>>

OutOfRange(cl, ack) ==
  \/ cl.reliableSequence - ack >= MAX_RELIABLE_COMMANDS
  \/ cl.reliableSequence - ack < 0

Acknowledge(cl, ack) ==
  IF OutOfRange(cl, ack)
  THEN LET dropped == IF NDEBUG THEN cl ELSE SV_DropClient([cl EXCEPT !.reliableAcknowledge = ack])
       IN  [dropped EXCEPT !.reliableAcknowledge = dropped.reliableSequence, !.illegible = TRUE]
  ELSE [cl EXCEPT !.reliableAcknowledge = ack]

\* The i-th message under way arrives, those before it are lost.  A zombie's
\* messages are not executed.
SV_ExecuteClientMessage ==
  /\ \E i \in DOMAIN toServer :
       /\ toServer' = SubSeq(toServer, i + 1, Len(toServer))
       /\ client' = IF client.state = "zombie" THEN client
                    ELSE Acknowledge(client, toServer[i])
  /\ UNCHANGED <<toClient, clientVars>>

-----------------------------------------------------------------------------
\* Client

\* serverCommandSequence and serverCommands after one command of a message.
CL_ParseCommandString(st, command) ==
  IF st.seq >= command.seq THEN st
  ELSE [seq |-> command.seq, ring |-> [st.ring EXCEPT ![Slot(command.seq)] = command.text]]

CL_ParseServerMessage ==
  /\ ~gone
  /\ \E i \in DOMAIN toClient :
       LET parsed == FoldLeft(CL_ParseCommandString,
                              [seq |-> serverCommandSequence, ring |-> serverCommands],
                              toClient[i].commands)
       IN  /\ toClient' = SubSeq(toClient, i + 1, Len(toClient))
           /\ serverCommandSequence' = parsed.seq
           /\ serverCommands' = parsed.ring
           /\ snapshot' = [serverCommandNum |-> parsed.seq, sequence |-> toClient[i].sequence]
  /\ UNCHANGED <<client, toServer, lastExecutedServerCommand, gone, executed>>

\* Before it uses a snapshot the game fetches the commands up to the snapshot's
\* serverCommandNum, one after the other.
NextCommand == lastExecutedServerCommand + 1

\* Mutant: one command too late.
CycledOut_OneLate == NextCommand <= serverCommandSequence - MAX_RELIABLE_COMMANDS - 1

CycledOut == NextCommand <= serverCommandSequence - MAX_RELIABLE_COMMANDS

CL_GetServerCommand ==
  /\ ~gone
  /\ NextCommand <= snapshot.serverCommandNum
  /\ \/ /\ CycledOut
        /\ gone' = TRUE
        /\ UNCHANGED <<lastExecutedServerCommand, executed>>
     \/ /\ ~CycledOut
        /\ lastExecutedServerCommand' = NextCommand
        /\ executed' = Append(executed, serverCommands[Slot(NextCommand)])
        /\ gone' = (serverCommands[Slot(NextCommand)] = DropDisconnect)
  /\ UNCHANGED <<client, toClient, toServer, serverCommandSequence, serverCommands, snapshot>>

CL_WritePacket ==
  /\ ~gone
  /\ Len(toServer) < MaxInFlight
  /\ toServer' = Append(toServer, serverCommandSequence)
  /\ UNCHANGED <<client, toClient, clientVars>>

-----------------------------------------------------------------------------
Next == \/ SendServerCommand \/ DropClient \/ SV_SendClientSnapshot
        \/ SV_ExecuteClientMessage
        \/ CL_ParseServerMessage \/ CL_GetServerCommand \/ CL_WritePacket

\* SV_Frame sends to every client, zombies included, and the client draws a
\* frame again and again; some message always gets through in the end.
Fairness == /\ WF_vars(SV_SendClientSnapshot)
            /\ WF_vars(CL_ParseServerMessage)
            /\ WF_vars(CL_GetServerCommand)

Spec == Init /\ [][Next]_vars /\ Fairness

-----------------------------------------------------------------------------
TypeOK ==
  /\ client.state \in {"active", "zombie"}
  /\ client.reliableSequence \in Nat /\ client.reliableAcknowledge \in Nat
  /\ client.reliableAcknowledge <= client.reliableSequence
  /\ client.reliableSequence = Len(client.issued)
  /\ DOMAIN client.reliableCommands = Slots
  /\ serverCommandSequence \in Nat /\ DOMAIN serverCommands = Slots
  /\ snapshot.serverCommandNum <= serverCommandSequence
  /\ lastExecutedServerCommand = Len(executed)

\* The case in which the code forgets commands (see Guarantee) and the case in
\* which it has given the client up.
Orderly == ~client.illegible /\ client.state = "active"

\* "Guaranteed to not have future snapshot_t executed before it is executed"
\* (SV_AddServerCommand): a client that parsed a snapshot has every command
\* that was added before the snapshot was built.
Guarantee == snapshot.serverCommandNum >= snapshot.sequence

GuaranteeUnlessForgotten == client.illegible \/ Guarantee

\* The game is given every command once, in the order of issue, never one that
\* was cycled out of the ring.
ExecutedAsIssued == Orderly => IsPrefix(executed, client.issued)

\* A dropped client that still listens is told so.
DropIsTold == (client.state = "zombie" /\ ~client.illegible) ~> gone

\* "We must drop the connection" if an old command would be lost
\* (SV_AddServerCommand): a connection that is kept has room for every command.
NeverOverfull ==
  client.state = "active" =>
    client.reliableSequence - client.reliableAcknowledge <= MAX_RELIABLE_COMMANDS

\* "A broadcast print added by SV_DropClient() doesn't cause a recursive drop"
\* (SV_AddServerCommand): the game sees its player leave once.
DroppedOnce == client.disconnects <= 1
=============================================================================
