--------------------------- MODULE ClientCommands ---------------------------
(***************************************************************************)
(* The reliable commands a client sends to its server:                     *)
(* CL_AddReliableCommand, CL_WritePacket and CL_Disconnect on the client,  *)
(* SV_ExecuteClientMessage and SV_ClientCommand on the server.  Every      *)
(* packet repeats the commands that are not acknowledged and ends with a   *)
(* move; every server message says which command was executed last.        *)
(* Messages obey OrderedMessages.  A packet for another gamestate is       *)
(* ignored, which is the same as losing it.  Whether the client is active  *)
(* on a server with sv_floodProtect is open at every command.              *)
(***************************************************************************)
EXTENDS Integers, Sequences, SequencesExt

CONSTANTS MAX_RELIABLE_COMMANDS,
          MaxCommands,              \* bound on the commands of a behaviour
          MaxInFlight               \* bound on the messages under way, each way

ASSUME ConstantAssumption == /\ MAX_RELIABLE_COMMANDS \in Nat \ {0}
                             /\ MaxCommands \in Nat /\ MaxInFlight \in Nat

VARIABLES
  reliableSequence, reliableAcknowledge, reliableCommands,      \* clientConnection_t
  left,                                                         \* CL_Disconnect was called
  lastClientCommand, zombie, lost,                              \* client_t
  flooding,                             \* svs.time < nextReliableTime
  toServer, toClient,                                           \* messages under way
  issued, executed,                                             \* histories
  ignored,                              \* commands the flood protection kept from the game
  early                                 \* a move came before a command it followed

clc == <<reliableSequence, reliableAcknowledge, reliableCommands, left, issued>>
sv  == <<lastClientCommand, zombie, lost, flooding, executed, ignored, early>>
vars == <<clc, sv, toServer, toClient>>

Disconnect == 0         \* a text; the user's n-th command has the text n

Slot(n) == n % MAX_RELIABLE_COMMANDS
Slots == 0 .. MAX_RELIABLE_COMMANDS - 1

Init == /\ reliableSequence = 0 /\ reliableAcknowledge = 0 /\ left = FALSE
        /\ reliableCommands = [s \in Slots |-> 0]
        /\ lastClientCommand = 0 /\ zombie = FALSE /\ lost = FALSE /\ flooding = FALSE
        /\ toServer = <<>> /\ toClient = <<>>
        /\ issued = <<>> /\ executed = <<>> /\ ignored = {} /\ early = FALSE

-----------------------------------------------------------------------------
\* Client

Unacknowledged == reliableSequence - reliableAcknowledge

\* Mutant: one command too many.
Full_OneLate(isDisconnect) == Unacknowledged > MAX_RELIABLE_COMMANDS

Full(isDisconnect) == IF isDisconnect THEN Unacknowledged > MAX_RELIABLE_COMMANDS
                                      ELSE Unacknowledged >= MAX_RELIABLE_COMMANDS

Add(text) == /\ reliableSequence' = reliableSequence + 1
             /\ reliableCommands' = [reliableCommands EXCEPT ![Slot(reliableSequence')] = text]
             /\ issued' = Append(issued, text)

\* The commands of a packet, from the first that is not acknowledged on.
Pending(ack, last, ring) ==
  [i \in 1 .. last - ack |-> [seq |-> ack + i, text |-> ring[Slot(ack + i)]]]

\* Mutant: the newest command waits for the next packet.
Packet_Late(ack, last, ring) == [commands |-> Pending(ack, last - 1, ring), newest |-> last - 1]

\* The move of a packet follows every command added so far.
Packet(ack, last, ring) == [commands |-> Pending(ack, last, ring), newest |-> last]

CL_WritePacket ==
  /\ ~left
  /\ Len(toServer) < MaxInFlight
  /\ toServer' = Append(toServer, Packet(reliableAcknowledge, reliableSequence, reliableCommands))
  /\ UNCHANGED <<clc, sv, toClient>>

\* The command (if there is room) in three packets, then the connection is
\* cleared.
CL_Disconnect ==
  /\ left' = TRUE
  /\ \/ Full(TRUE) /\ UNCHANGED <<reliableSequence, reliableCommands, issued>>
     \/ ~Full(TRUE) /\ Add(Disconnect)
  /\ LET packet == Packet(reliableAcknowledge, reliableSequence', reliableCommands')
     IN  toServer' = toServer \o <<packet, packet, packet>>
  /\ UNCHANGED <<reliableAcknowledge, sv, toClient>>

\* A command of the user or of the client's game.  One too many is an error,
\* which leaves the server.
CL_AddReliableCommand ==
  /\ ~left
  /\ reliableSequence < MaxCommands
  /\ \/ /\ ~Full(FALSE)
        /\ Add(reliableSequence + 1)
        /\ UNCHANGED <<reliableAcknowledge, left, sv, toServer, toClient>>
     \/ Full(FALSE) /\ CL_Disconnect

Leave == ~left /\ CL_Disconnect

Acknowledged(ack) ==
  IF ack < reliableSequence - MAX_RELIABLE_COMMANDS THEN reliableSequence ELSE ack

\* The i-th message under way arrives, those before it are lost.
CL_ParseServerMessage ==
  /\ ~left
  /\ \E i \in DOMAIN toClient :
       /\ toClient' = SubSeq(toClient, i + 1, Len(toClient))
       /\ reliableAcknowledge' = Acknowledged(toClient[i])
  /\ UNCHANGED <<reliableSequence, reliableCommands, left, issued, sv, toServer>>

-----------------------------------------------------------------------------
\* Server

\* Mutant: a command that was executed before is executed again.
SV_ClientCommand_Again(st, command) ==
  IF st.zombie THEN st
  ELSE IF command.seq > st.last + 1 THEN [st EXCEPT !.zombie = TRUE, !.lost = TRUE]
  ELSE [st EXCEPT !.last = command.seq, !.executed = Append(@, command.text),
                  !.flooding = TRUE, !.zombie = command.text = Disconnect]

\* Mutant: a stalled command waits to be repeated.
SV_ClientCommand_Stalled(st, command) ==
  IF st.zombie \/ st.last >= command.seq \/ (st.protect /\ st.flooding) THEN st
  ELSE IF command.seq > st.last + 1 THEN [st EXCEPT !.zombie = TRUE, !.lost = TRUE]
  ELSE [st EXCEPT !.last = command.seq, !.executed = Append(@, command.text),
                  !.flooding = TRUE, !.zombie = command.text = Disconnect]

\* One command of a packet: executed before, after a gap, or the next one.
\* While the flood protection is on, one that comes within a second of another
\* is numbered and done if it is for the server, and kept from the game.
SV_ClientCommand(st, command) ==
  IF st.zombie \/ st.last >= command.seq THEN st
  ELSE IF command.seq > st.last + 1 THEN [st EXCEPT !.zombie = TRUE, !.lost = TRUE]
  ELSE [st EXCEPT !.last = command.seq, !.executed = Append(@, command.text),
                  !.ignored = IF st.protect /\ st.flooding THEN @ \cup {command.seq} ELSE @,
                  !.flooding = TRUE, !.zombie = command.text = Disconnect]

\* The i-th packet under way arrives, those before it are lost.  Its move is
\* executed unless the client was dropped by one of its commands.
SV_ExecuteClientMessage ==
  /\ \E i \in DOMAIN toServer, protect \in BOOLEAN :
       LET st == FoldLeft(SV_ClientCommand,
                          [last |-> lastClientCommand, zombie |-> zombie, lost |-> lost,
                           flooding |-> flooding, protect |-> protect,
                           executed |-> executed, ignored |-> ignored],
                          toServer[i].commands)
       IN  /\ toServer' = SubSeq(toServer, i + 1, Len(toServer))
           /\ lastClientCommand' = st.last
           /\ zombie' = st.zombie
           /\ lost' = st.lost
           /\ flooding' = st.flooding
           /\ executed' = st.executed
           /\ ignored' = st.ignored
           /\ early' = (early \/ (~st.zombie /\ st.last < toServer[i].newest))
  /\ UNCHANGED <<clc, toClient>>

\* More than a second goes by on the server.
SecondPasses ==
  /\ flooding
  /\ flooding' = FALSE
  /\ UNCHANGED <<clc, lastClientCommand, zombie, lost, executed, ignored, early, toServer, toClient>>

SV_SendClientSnapshot ==
  /\ Len(toClient) < MaxInFlight
  /\ toClient' = Append(toClient, lastClientCommand)
  /\ UNCHANGED <<clc, sv, toServer>>

-----------------------------------------------------------------------------
Next == \/ CL_AddReliableCommand \/ Leave \/ CL_WritePacket \/ CL_ParseServerMessage
        \/ SV_ExecuteClientMessage \/ SecondPasses \/ SV_SendClientSnapshot

\* Both sides send again and again, and some message gets through in the end.
Spec == /\ Init /\ [][Next]_vars
        /\ WF_vars(CL_WritePacket) /\ WF_vars(CL_ParseServerMessage)
        /\ WF_vars(SV_ExecuteClientMessage) /\ WF_vars(SV_SendClientSnapshot)

-----------------------------------------------------------------------------
TypeOK ==
  /\ reliableSequence = Len(issued) /\ lastClientCommand = Len(executed)
  /\ reliableAcknowledge \in 0 .. reliableSequence
  /\ DOMAIN reliableCommands = Slots
  /\ left \in BOOLEAN /\ zombie \in BOOLEAN /\ lost \in BOOLEAN
  /\ flooding \in BOOLEAN /\ early \in BOOLEAN /\ ignored \subseteq DOMAIN executed

\* The server executes every command once and in the order in which the client
\* added them, and never drops the client for lost commands, whatever packets are
\* lost.  The exception is the disconnect command of a client whose ring is full:
\* see SlotLeftOpen.
ExecutedAsIssued ==
  /\ ~lost
  /\ \/ IsPrefix(executed, issued)
     \/ Unacknowledged > MAX_RELIABLE_COMMANDS /\ zombie

\* "guaranteed to not have future usercmd_t executed before it is executed"
\* (CL_AddReliableCommand): no move gets ahead of a command the client had
\* added before it, however many of the packets in between are lost.
NoMoveBeforeItsCommands == ~early

\* A command is executed in the end, or its client has left.
CommandsArrive ==
  \A n \in 1 .. MaxCommands : reliableSequence >= n ~> (lastClientCommand >= n \/ left)

\* "Also leave one slot open for the disconnect command" (CL_AddReliableCommand):
\* no command that is not acknowledged loses its slot.
SlotLeftOpen == Unacknowledged <= MAX_RELIABLE_COMMANDS

\* "If we decide that we want to stall the command, we will stop processing the
\* rest of the packet" (SV_ClientCommand): a stalled command is executed later,
\* not forgotten.
StalledNotForgotten == ignored = {}
=============================================================================
