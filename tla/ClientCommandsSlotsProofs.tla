--------------------- MODULE ClientCommandsSlotsProofs ---------------------
(***************************************************************************)
(* The client's reliable commands, for rings of every size and any number  *)
(* of commands and packets; and, in the second part, the slots of clients  *)
(* and players, for every sv_maxclients, every number of local players and *)
(* every set of addresses.  The parts share no variable and neither needs  *)
(* the other.                                                              *)
(***************************************************************************)
EXTENDS ClientCommands, PlayerSlots, ProofLemmas

Command == [seq : Nat, text : Nat]
PacketType == [commands : Seq(Command), newest : Nat]

Types ==
  /\ reliableSequence \in Nat /\ reliableAcknowledge \in Nat
  /\ reliableCommands \in [Slots -> Nat]
  /\ issued \in Seq(Nat) /\ Len(issued) = reliableSequence
  /\ executed \in Seq(Nat) /\ Len(executed) = lastClientCommand
  /\ toServer \in Seq(PacketType) /\ toClient \in Seq(Nat)
  /\ left \in BOOLEAN /\ zombie \in BOOLEAN /\ flooding \in BOOLEAN
  /\ ignored \subseteq 1 .. lastClientCommand

\* What the server executed is what it says it executed, and says it in order.
AcknowledgementsInOrder ==
  /\ reliableAcknowledge <= lastClientCommand /\ lastClientCommand <= reliableSequence
  /\ \A i \in 1 .. Len(toClient) :
       /\ reliableAcknowledge <= toClient[i] /\ toClient[i] <= lastClientCommand
       /\ \A j \in 1 .. Len(toClient) : i <= j => toClient[i] <= toClient[j]

\* The slots of the last turn hold the commands that were added under those numbers.
HoldsIssued(ring, newest, texts) ==
  \A k \in 1 .. newest : newest - MAX_RELIABLE_COMMANDS < k => ring[Slot(k)] = texts[k]

\* Only the disconnect command, the last there is, can be one too many.
RoomUntilDisconnect ==
  /\ HoldsIssued(reliableCommands, reliableSequence, issued)
  /\ ~left => Unacknowledged <= MAX_RELIABLE_COMMANDS
  /\ Unacknowledged <= MAX_RELIABLE_COMMANDS + 1

Overfull == Unacknowledged > MAX_RELIABLE_COMMANDS

\* The last command that was acknowledged when the packet was written.
Base(m) == m.newest - Len(m.commands)

\* A packet carries the commands from there to the newest without a gap, as they were
\* added; the exception is the one whose slot the disconnect command took.
PacketOK(m) ==
  /\ Base(m) \in Nat /\ Base(m) <= lastClientCommand /\ m.newest <= reliableSequence
  /\ \A j \in 1 .. Len(m.commands) :
       /\ m.commands[j].seq = Base(m) + j
       /\ \/ m.commands[j].text = issued[Base(m) + j]
          \/ Overfull /\ m.commands[j].text = Disconnect

PacketsOK == \A i \in 1 .. Len(toServer) : PacketOK(toServer[i])

\* The commands executed are the first that were added, or the last of them was the
\* disconnect command in the place of another.
Matches(done, texts) == \A n \in 1 .. Len(done) : done[n] = texts[n]

ExecutedMatches == Matches(executed, issued) \/ (Overfull /\ zombie)

IInv == /\ Types
        /\ AcknowledgementsInOrder /\ RoomUntilDisconnect
        /\ PacketsOK /\ ExecutedMatches
        /\ lost = FALSE /\ early = FALSE

-----------------------------------------------------------------------------
\* The ring.

LEMMA SlotInRing ==
  ASSUME NEW n \in Int
  PROVE  Slot(n) \in Slots
BY ModRange, ConstantAssumption DEF Slot, Slots

\* A command stored in the next slot leaves the ring whole.
LEMMA RingStep ==
  ASSUME NEW ring \in [Slots -> Nat], NEW n \in Nat, NEW text \in Nat,
         NEW texts, NEW more,
         HoldsIssued(ring, n, texts),
         \A k \in 1 .. n : more[k] = texts[k], more[n + 1] = text
  PROVE  HoldsIssued([ring EXCEPT ![Slot(n + 1)] = text], n + 1, more)
<1> DEFINE new == [ring EXCEPT ![Slot(n + 1)] = text]
<1>1. MAX_RELIABLE_COMMANDS \in Nat \ {0} /\ n + 1 \in Int
  BY ConstantAssumption
<1>2. HoldsLatest(ring, MAX_RELIABLE_COMMANDS, n, texts)
  BY Zenon DEF HoldsIssued, HoldsLatest, Slot
<1>3. ring \in [0 .. MAX_RELIABLE_COMMANDS - 1 -> Nat]
  BY Zenon DEF Slots
<1>4. HoldsLatest([ring EXCEPT ![(n + 1) % MAX_RELIABLE_COMMANDS] = text],
                  MAX_RELIABLE_COMMANDS, n + 1, more)
  BY <1>1, <1>2, <1>3, LatestStep
<1>5. HoldsLatest(new, MAX_RELIABLE_COMMANDS, n + 1, more)
  BY <1>4, Zenon DEF Slot
<1> HIDE DEF new
<1>6. HoldsIssued(new, n + 1, more)
  BY <1>5, Zenon DEF HoldsIssued, HoldsLatest, Slot
<1>7. QED
  BY <1>6 DEF new

-----------------------------------------------------------------------------
\* What a packet does on the server.

ExecState == [last : Nat, zombie : BOOLEAN, lost : BOOLEAN, flooding : BOOLEAN,
              protect : BOOLEAN, executed : Seq(Nat), ignored : SUBSET Nat]

LEMMA CommandResult ==
  ASSUME NEW st \in ExecState, NEW command \in Command,
         NEW r, r = SV_ClientCommand(st, command)
  PROVE  /\ r \in ExecState
         /\ st.zombie \/ st.last >= command.seq => r = st
         /\ ~st.zombie /\ command.seq = st.last + 1 =>
              /\ r.last = command.seq /\ r.lost = st.lost
              /\ r.executed = Append(st.executed, command.text)
              /\ r.zombie = (command.text = Disconnect)
              /\ r.ignored \subseteq st.ignored \cup {command.seq}
<1>1. /\ st.last \in Nat /\ command.seq \in Nat /\ command.text \in Nat
      /\ st.executed \in Seq(Nat) /\ st.ignored \in SUBSET Nat
  BY DEF ExecState, Command
<1>2. CASE st.zombie \/ st.last >= command.seq
  <2>1. r = st
    BY <1>2, Zenon DEF SV_ClientCommand
  <2>2. ~(~st.zombie /\ command.seq = st.last + 1)
    BY <1>1, <1>2
  <2>3. QED
    BY <2>1, <2>2
<1>3. CASE ~(st.zombie \/ st.last >= command.seq) /\ command.seq > st.last + 1
  <2>1. r = [st EXCEPT !.zombie = TRUE, !.lost = TRUE]
    BY <1>3, Zenon DEF SV_ClientCommand
  <2>2. r \in ExecState
    BY <2>1 DEF ExecState
  <2>3. QED
    BY <1>1, <1>3, <2>2
<1>4. CASE ~(st.zombie \/ st.last >= command.seq) /\ ~(command.seq > st.last + 1)
  <2>1. PICK more, ignoring, drop :
          /\ more = Append(st.executed, command.text)
          /\ ignoring = IF st.protect /\ st.flooding THEN st.ignored \cup {command.seq}
                        ELSE st.ignored
          /\ drop = (command.text = Disconnect)
    OBVIOUS
  <2>2. /\ more \in Seq(Nat) /\ ignoring \in SUBSET Nat /\ drop \in BOOLEAN
        /\ ignoring \subseteq st.ignored \cup {command.seq}
    <3>1. more \in Seq(Nat)
      BY <1>1, <2>1
    <3>2. drop \in BOOLEAN
      BY <2>1, Zenon
    <3>3. ignoring \in SUBSET Nat /\ ignoring \subseteq st.ignored \cup {command.seq}
      BY <1>1, <2>1
    <3>4. QED
      BY <3>1, <3>2, <3>3
  <2>3. r = [st EXCEPT !.last = command.seq, !.executed = more, !.ignored = ignoring,
                       !.flooding = TRUE, !.zombie = drop]
    BY <1>4, <2>1 DEF SV_ClientCommand
  <2>4. /\ r \in ExecState
        /\ r.last = command.seq /\ r.lost = st.lost /\ r.executed = more
        /\ r.zombie = drop /\ r.ignored = ignoring
    BY <1>1, <2>2, <2>3 DEF ExecState
  <2>5. QED
    BY <1>4, <2>1, <2>2, <2>4, Zenon
<1>5. QED
  BY <1>2, <1>3, <1>4

\* SV_ExecuteClientMessage goes through the commands one after the other.
LEMMA ExecuteRun ==
  ASSUME NEW commands \in Seq(Command), NEW st \in ExecState
  PROVE  \E run \in [0 .. Len(commands) -> ExecState] :
            /\ run[0] = st
            /\ \A k \in 1 .. Len(commands) :
                 run[k] = SV_ClientCommand(run[k - 1], commands[k])
            /\ run[Len(commands)] = FoldLeft(SV_ClientCommand, st, commands)
<1> DEFINE N == Len(commands)
           Solves(f) == f = [s \in SUBSET (1 .. N) |->
                               IF s = {} THEN st
                               ELSE SV_ClientCommand(f[s \ {Max(s)}], commands[Max(s)])]
           step == [p \in ExecState \X (1 .. N) |-> SV_ClientCommand(p[1], commands[p[2]])]
<1>1. N \in Nat /\ DOMAIN commands = 1 .. N /\ \A k \in 1 .. N : commands[k] \in Command
  OBVIOUS
<1>2. step \in [ExecState \X (1 .. N) -> ExecState]
  BY <1>1, CommandResult
<1>3. PICK f \in [SUBSET (1 .. N) -> ExecState] :
        \A s \in SUBSET (1 .. N) :
          f[s] = IF s = {} THEN st ELSE step[<<f[s \ {Max(s)}], Max(s)>>]
  <2> HIDE DEF step, N
  <2>1. \E f : IsFold(f, N, ExecState, st, step)
    BY <1>1, <1>2, FoldExists, Zenon
  <2>2. QED
    BY <2>1, Zenon DEF IsFold
<1>4. ASSUME NEW s \in SUBSET (1 .. N)
      PROVE  f[s] = IF s = {} THEN st
                    ELSE SV_ClientCommand(f[s \ {Max(s)}], commands[Max(s)])
  <2>1. CASE s = {}
    BY <1>3, <2>1
  <2>2. CASE s # {}
    <3>1. Max(s) \in 1 .. N
      BY <1>1, <2>2, MaxOfBounded
    <3>2. f[s \ {Max(s)}] \in ExecState
      BY <1>3
    <3>3. step[<<f[s \ {Max(s)}], Max(s)>>]
            = SV_ClientCommand(f[s \ {Max(s)}], commands[Max(s)])
      BY <3>1, <3>2
    <3>4. QED
      BY <1>3, <2>2, <3>3
  <2>3. QED
    BY <2>1, <2>2
<1>5. Solves(f)
  <2>1. f = [s \in SUBSET (1 .. N) |-> f[s]]
    BY <1>3
  <2>2. QED
    BY <1>4, <2>1, Zenon
<1> DEFINE it == CHOOSE g : Solves(g)
<1>6. Solves(it)
  BY <1>5, Zenon
<1>7. FoldLeft(SV_ClientCommand, st, commands) = it[1 .. N]
  BY <1>1 DEF FoldLeft, MapThenFoldSet
<1> HIDE DEF it, N
<1>8. it[{}] = st
  BY <1>6
<1>9. ASSUME NEW k \in 1 .. N
      PROVE  it[1 .. k] = SV_ClientCommand(it[1 .. k - 1], commands[k])
  <2>1. Max(1 .. k) = k /\ (1 .. k) \ {k} = 1 .. k - 1 /\ 1 .. k # {}
    BY LastOfInterval
  <2>2. 1 .. k \in SUBSET (1 .. N)
    BY <1>1
  <2>3. QED
    BY <1>6, <2>1, <2>2, Zenon
<1> DEFINE run == [k \in 0 .. N |-> it[1 .. k]]
<1>10. run[0] = st
  <2>1. 1 .. 0 = {} /\ 0 \in 0 .. N
    BY <1>1
  <2>2. QED
    BY <1>8, <2>1, Zenon
<1>11. \A k \in 1 .. N : run[k] = SV_ClientCommand(run[k - 1], commands[k])
  BY <1>1, <1>9
<1>12. run[N] = FoldLeft(SV_ClientCommand, st, commands)
  BY <1>1, <1>7
<1>13. \A k \in 0 .. N : run[k] \in ExecState
  <2> DEFINE T == {k \in 0 .. N : run[k] \in ExecState}
  <2>1. 0 \in T
    BY <1>1, <1>10
  <2>2. ASSUME NEW k \in 0 .. N, k \in T, k < N
        PROVE  k + 1 \in T
    <3>1. k + 1 \in 1 .. N /\ (k + 1) - 1 = k
      BY <1>1, <2>2
    <3>2. run[k + 1] = SV_ClientCommand(run[k], commands[k + 1])
      BY <1>11, <3>1
    <3> HIDE DEF run
    <3>3. QED
      BY <1>1, <2>2, <3>1, <3>2, CommandResult
  <2>3. \A k \in 0 .. N : k \in T
    <3> HIDE DEF T
    <3>1. QED
      BY <1>1, <2>1, <2>2, IntervalInduction
  <2>4. QED
    BY <2>3
<1>14. run \in [0 .. N -> ExecState]
  BY <1>13
<1>15. QED
  BY <1>10, <1>11, <1>12, <1>14 DEF N

\* r is what the commands up to n make of a client_t whose last command was first.
Reached(r, first, n) ==
  /\ Len(r.executed) = r.last /\ r.lost = FALSE /\ r.ignored \subseteq 1 .. r.last
  /\ first <= r.last /\ r.last <= reliableSequence
  /\ r.zombie \/ n <= r.last
  /\ Matches(r.executed, issued) \/ (Overfull /\ r.zombie)

\* The next command does not come after a gap, and is executed unless it was before.
LEMMA CommandStep ==
  ASSUME Types, NEW r \in ExecState, NEW command \in Command,
         NEW n \in Nat, NEW first \in Nat,
         Reached(r, first, n), command.seq = n + 1, n + 1 <= reliableSequence,
         command.text = issued[n + 1] \/ (Overfull /\ command.text = Disconnect)
  PROVE  Reached(SV_ClientCommand(r, command), first, n + 1)
<1>1. PICK new : new = SV_ClientCommand(r, command)
  OBVIOUS
<1>2. /\ new \in ExecState
      /\ r.zombie \/ r.last >= n + 1 => new = r
      /\ ~r.zombie /\ n + 1 = r.last + 1 =>
           /\ new.last = n + 1 /\ new.lost = r.lost
           /\ new.executed = Append(r.executed, command.text)
           /\ new.zombie = (command.text = Disconnect)
           /\ new.ignored \subseteq r.ignored \cup {n + 1}
  BY <1>1, CommandResult
<1>3. r.last \in Nat /\ r.executed \in Seq(Nat) /\ command.text \in Nat
  BY DEF ExecState, Command
<1>4. CASE r.zombie \/ r.last >= n + 1
  BY <1>1, <1>2, <1>3, <1>4 DEF Reached
<1>5. CASE ~(r.zombie \/ r.last >= n + 1)
  <2>1. r.last = n /\ Len(r.executed) = n /\ Matches(r.executed, issued)
    BY <1>3, <1>5 DEF Reached
  <2>2. /\ new.last = n + 1 /\ new.lost = r.lost
        /\ new.executed = Append(r.executed, command.text)
        /\ new.zombie = (command.text = Disconnect)
        /\ new.ignored \subseteq r.ignored \cup {n + 1}
    BY <1>2, <1>5, <2>1
  <2>3. Len(new.executed) = n + 1
    BY <1>3, <2>1, <2>2
  <2>4. new.ignored \subseteq 1 .. n + 1
    <3>1. r.ignored \subseteq 1 .. n /\ \A k \in 1 .. n : k \in 1 .. n + 1
      BY <2>1 DEF Reached
    <3>2. n + 1 \in 1 .. n + 1
      OBVIOUS
    <3>3. QED
      BY <2>2, <3>1, <3>2
  <2>5. Matches(new.executed, issued) \/ (Overfull /\ new.zombie)
    <3>1. CASE command.text = issued[n + 1]
      <4>1. /\ \A k \in 1 .. n : new.executed[k] = r.executed[k]
            /\ new.executed[n + 1] = command.text
        BY <1>3, <2>1, <2>2
      <4>2. \A k \in 1 .. n + 1 : k \in 1 .. n \/ k = n + 1
        OBVIOUS
      <4>3. QED
        BY <2>1, <2>3, <3>1, <4>1, <4>2 DEF Matches
    <3>2. CASE Overfull /\ command.text = Disconnect
      BY <2>2, <3>2, Zenon
    <3>3. QED
      BY <3>1, <3>2
  <2>6. first <= n + 1 /\ r.lost = FALSE
    BY <2>1 DEF Reached
  <2>7. QED
    BY <1>1, <2>2, <2>3, <2>4, <2>5, <2>6 DEF Reached
<1>6. QED
  BY <1>4, <1>5

\* The commands of a packet, from one that the server has or that is its next one.
LEMMA PacketExecuted ==
  ASSUME Types, NEW st \in ExecState, NEW m \in PacketType, PacketOK(m),
         Reached(st, st.last, Base(m)),
         NEW done, done = FoldLeft(SV_ClientCommand, st, m.commands)
  PROVE  done \in ExecState /\ Reached(done, st.last, m.newest)
<1> DEFINE N == Len(m.commands)
           b == Base(m)
<1>1. /\ N \in Nat /\ b \in Nat /\ m.newest = b + N /\ m.commands \in Seq(Command)
      /\ \A j \in 1 .. N : /\ m.commands[j] \in Command /\ m.commands[j].seq = b + j
                           /\ \/ m.commands[j].text = issued[b + j]
                              \/ Overfull /\ m.commands[j].text = Disconnect
      /\ b + N <= reliableSequence /\ reliableSequence \in Nat
  BY DEF PacketType, PacketOK, Base, Types
<1>2. PICK run \in [0 .. N -> ExecState] :
        /\ run[0] = st
        /\ \A k \in 1 .. N : run[k] = SV_ClientCommand(run[k - 1], m.commands[k])
        /\ run[N] = done
  BY <1>1, ExecuteRun
<1> DEFINE T == {k \in 0 .. N : Reached(run[k], st.last, b + k)}
<1> HIDE DEF N, b
<1>3. 0 \in T
  <2>1. 0 \in 0 .. N /\ b + 0 = b /\ run[0] = st
    BY <1>1, <1>2
  <2>2. Reached(run[0], st.last, b + 0)
    BY <2>1 DEF b
  <2>3. QED
    BY <2>1, <2>2
<1>4. ASSUME NEW k \in 0 .. N, k \in T, k < N
      PROVE  k + 1 \in T
  <2>1. /\ k + 1 \in 0 .. N /\ k + 1 \in 1 .. N /\ (k + 1) - 1 = k /\ b + k \in Nat
        /\ b + (k + 1) = (b + k) + 1 /\ (b + k) + 1 <= reliableSequence
    BY <1>1, <1>4
  <2> DEFINE command == m.commands[k + 1]
  <2>2. /\ command \in Command /\ command.seq = (b + k) + 1
        /\ \/ command.text = issued[(b + k) + 1]
           \/ Overfull /\ command.text = Disconnect
    BY <1>1, <2>1
  <2>3. run[k + 1] = SV_ClientCommand(run[k], command) /\ run[k] \in ExecState
    BY <1>2, <2>1
  <2>4. Reached(run[k], st.last, b + k) /\ st.last \in Nat
    BY <1>4 DEF ExecState
  <2> HIDE DEF command
  <2>5. Reached(run[k + 1], st.last, (b + k) + 1)
    BY <2>1, <2>2, <2>3, <2>4, CommandStep, Zenon
  <2>6. QED
    BY <2>1, <2>5
<1>5. \A k \in 0 .. N : k \in T
  <2> HIDE DEF T
  <2>1. QED
    BY <1>1, <1>3, <1>4, IntervalInduction
<1>6. N \in 0 .. N
  BY <1>1
<1>7. run[N] \in ExecState /\ Reached(run[N], st.last, b + N)
  BY <1>2, <1>5, <1>6
<1>8. QED
  BY <1>1, <1>2, <1>7, Zenon

-----------------------------------------------------------------------------
\* The client's operations.

LEMMA InitInvariant ==
  ASSUME Init
  PROVE  IInv
<1>1. MAX_RELIABLE_COMMANDS \in Nat \ {0}
  BY ConstantAssumption
<1>2. /\ reliableSequence = 0 /\ reliableAcknowledge = 0
      /\ reliableCommands = [s \in Slots |-> 0]
      /\ lastClientCommand = 0 /\ ignored = {}
      /\ toServer = <<>> /\ toClient = <<>> /\ issued = <<>> /\ executed = <<>>
  BY DEF Init
<1>3. left = FALSE /\ zombie = FALSE /\ lost = FALSE /\ flooding = FALSE /\ early = FALSE
  BY DEF Init
<1>4. Types
  <2>1. /\ reliableSequence \in Nat /\ reliableAcknowledge \in Nat
        /\ reliableCommands \in [Slots -> Nat]
        /\ issued \in Seq(Nat) /\ Len(issued) = reliableSequence
        /\ executed \in Seq(Nat) /\ Len(executed) = lastClientCommand
        /\ toServer \in Seq(PacketType) /\ toClient \in Seq(Nat)
        /\ ignored \subseteq 1 .. lastClientCommand
    BY <1>2
  <2>2. left \in BOOLEAN /\ zombie \in BOOLEAN /\ flooding \in BOOLEAN
    BY <1>3, Zenon
  <2>3. QED
    BY <2>1, <2>2 DEF Types
<1>5. Len(toServer) = 0 /\ Len(toClient) = 0 /\ Len(executed) = 0
  BY <1>2
<1>6. AcknowledgementsInOrder /\ RoomUntilDisconnect /\ PacketsOK /\ ExecutedMatches
  BY <1>1, <1>2, <1>5 DEF AcknowledgementsInOrder, RoomUntilDisconnect, HoldsIssued,
     Unacknowledged, PacketsOK, ExecutedMatches, Matches
<1>7. QED
  BY <1>3, <1>4, <1>6 DEF IInv

\* What follows from the invariant for a client that is still there.
LEMMA Counters ==
  ASSUME IInv
  PROVE  /\ reliableSequence \in Nat /\ reliableAcknowledge \in Nat /\ lastClientCommand \in Nat
         /\ MAX_RELIABLE_COMMANDS \in Nat \ {0}
         /\ reliableAcknowledge <= lastClientCommand /\ lastClientCommand <= reliableSequence
         /\ ~left => reliableSequence - reliableAcknowledge <= MAX_RELIABLE_COMMANDS /\ ~Overfull
         /\ Len(executed) = lastClientCommand
<1>1. /\ reliableSequence \in Nat /\ reliableAcknowledge \in Nat
      /\ executed \in Seq(Nat) /\ Len(executed) = lastClientCommand
  BY DEF IInv, Types
<1>2. lastClientCommand \in Nat
  BY <1>1
<1>3. MAX_RELIABLE_COMMANDS \in Nat \ {0}
  BY ConstantAssumption
<1>4. /\ reliableAcknowledge <= lastClientCommand /\ lastClientCommand <= reliableSequence
      /\ ~left => reliableSequence - reliableAcknowledge <= MAX_RELIABLE_COMMANDS
  BY DEF IInv, AcknowledgementsInOrder, RoomUntilDisconnect, Unacknowledged
<1>5. QED
  BY <1>1, <1>2, <1>3, <1>4 DEF Overfull, Unacknowledged

\* A packet stays what it is while commands are added and executed.
LEMMA PacketKept ==
  ASSUME NEW m \in PacketType, PacketOK(m),
         reliableSequence \in Nat, reliableSequence' \in Nat,
         lastClientCommand \in Nat, lastClientCommand' \in Nat,
         reliableSequence <= reliableSequence', lastClientCommand <= lastClientCommand',
         \A n \in 1 .. reliableSequence : issued'[n] = issued[n],
         Overfull => Overfull'
  PROVE  PacketOK(m)'
<1>1. /\ Base(m) \in Nat /\ m.newest \in Nat /\ Len(m.commands) \in Nat
      /\ Base(m) + Len(m.commands) = m.newest /\ m.newest <= reliableSequence
      /\ Base(m) <= lastClientCommand
      /\ \A j \in 1 .. Len(m.commands) :
           /\ m.commands[j].seq = Base(m) + j
           /\ \/ m.commands[j].text = issued[Base(m) + j]
              \/ Overfull /\ m.commands[j].text = Disconnect
  BY DEF PacketOK, PacketType, Base
<1>2. Base(m) <= lastClientCommand' /\ m.newest <= reliableSequence'
  BY <1>1
<1>3. \A j \in 1 .. Len(m.commands) : Base(m) + j \in 1 .. reliableSequence
  BY <1>1
<1>4. \A j \in 1 .. Len(m.commands) : issued'[Base(m) + j] = issued[Base(m) + j]
  BY <1>3
<1>5. Base(m)' = Base(m)
  BY DEF Base
<1>6. QED
  BY <1>1, <1>2, <1>4, <1>5, Zenon DEF PacketOK

LEMMA Added ==
  ASSUME IInv, NEW text \in Nat, Add(text)
  PROVE  /\ reliableSequence' = reliableSequence + 1
         /\ reliableCommands' \in [Slots -> Nat]
         /\ issued' \in Seq(Nat) /\ Len(issued') = reliableSequence + 1
         /\ \A n \in 1 .. reliableSequence : issued'[n] = issued[n]
         /\ issued'[reliableSequence + 1] = text
         /\ HoldsIssued(reliableCommands', reliableSequence + 1, issued')
         /\ reliableCommands'[Slot(reliableSequence + 1)] = text
<1> DEFINE R == reliableSequence
<1>1. /\ R \in Nat /\ reliableCommands \in [Slots -> Nat]
      /\ issued \in Seq(Nat) /\ Len(issued) = R /\ HoldsIssued(reliableCommands, R, issued)
  BY DEF IInv, Types, RoomUntilDisconnect
<1>2. /\ reliableSequence' = R + 1
      /\ reliableCommands' = [reliableCommands EXCEPT ![Slot(R + 1)] = text]
      /\ issued' = Append(issued, text)
  BY DEF Add
<1> HIDE DEF R
<1>3. Slot(R + 1) \in Slots
  BY <1>1, SlotInRing
<1>4. /\ issued' \in Seq(Nat) /\ Len(issued') = R + 1 /\ issued'[R + 1] = text
      /\ \A n \in 1 .. R : issued'[n] = issued[n]
  BY <1>1, <1>2
<1>5. HoldsIssued([reliableCommands EXCEPT ![Slot(R + 1)] = text], R + 1, issued')
  BY <1>1, <1>4, RingStep
<1>6. QED
  BY <1>1, <1>2, <1>3, <1>4, <1>5 DEF R

\* The texts of a packet are those of the ring, and right but for the one that shares
\* its slot with the newest.
Carries(m, A, R, texts) ==
  /\ m \in PacketType /\ Base(m) = A /\ m.newest = R /\ Len(m.commands) = R - A
  /\ \A j \in 1 .. R - A :
       /\ m.commands[j].seq = A + j
       /\ \/ m.commands[j].text = texts[A + j]
          \/ R - A > MAX_RELIABLE_COMMANDS /\ m.commands[j].text = texts[R]

LEMMA NewPacket ==
  ASSUME NEW A \in Nat, NEW R \in Nat, A <= R, R - A <= MAX_RELIABLE_COMMANDS + 1,
         NEW ring \in [Slots -> Nat], NEW texts, HoldsIssued(ring, R, texts),
         NEW m, m = Packet(A, R, ring)
  PROVE  Carries(m, A, R, texts)
<1>1. MAX_RELIABLE_COMMANDS \in Nat \ {0} /\ R - A \in Nat
  BY ConstantAssumption
<1>2. PICK commands : commands = Pending(A, R, ring)
  OBVIOUS
<1>3. m = [commands |-> commands, newest |-> R]
  BY <1>2 DEF Packet
<1>4. commands = [j \in 1 .. R - A |-> [seq |-> A + j, text |-> ring[Slot(A + j)]]]
  BY <1>2 DEF Pending
<1>5. \A j \in 1 .. R - A : [seq |-> A + j, text |-> ring[Slot(A + j)]] \in Command
  <2>1. \A j \in 1 .. R - A : A + j \in Nat /\ ring[Slot(A + j)] \in Nat
    BY SlotInRing
  <2>2. QED
    BY <2>1 DEF Command
<1>6. commands \in Seq(Command) /\ Len(commands) = R - A
  <2>1. PICK n \in Nat : n = R - A
    BY <1>1
  <2>2. /\ commands = [j \in 1 .. n |-> commands[j]]
        /\ \A j \in 1 .. n : commands[j] \in Command
    BY <1>4, <1>5, <2>1, Zenon
  <2>3. commands \in [1 .. n -> Command]
    BY <2>2, Zenon
  <2>4. commands \in Seq(Command) /\ Len(commands) = n
    BY <2>3
  <2>5. QED
    BY <2>1, <2>4
<1>7. \A j \in 1 .. R - A : /\ commands[j].seq = A + j
                            /\ commands[j].text = ring[Slot(A + j)]
  BY <1>4
<1>8. m \in PacketType /\ m.commands = commands /\ m.newest = R
  BY <1>3, <1>6 DEF PacketType
<1>9. Base(m) = A
  BY <1>6, <1>8 DEF Base
<1>10. ASSUME NEW j \in 1 .. R - A
       PROVE  \/ ring[Slot(A + j)] = texts[A + j]
              \/ R - A > MAX_RELIABLE_COMMANDS /\ ring[Slot(A + j)] = texts[R]
  <2>1. CASE R - MAX_RELIABLE_COMMANDS < A + j
    <3>1. A + j \in 1 .. R
      OBVIOUS
    <3>2. QED
      BY <2>1, <3>1 DEF HoldsIssued
  <2>2. CASE ~(R - MAX_RELIABLE_COMMANDS < A + j)
    <3>1. /\ R = (A + j) + (MAX_RELIABLE_COMMANDS * 1) /\ R - A > MAX_RELIABLE_COMMANDS
          /\ A + j \in Int /\ 1 \in Int /\ R \in 1 .. R /\ R - MAX_RELIABLE_COMMANDS < R
      BY <1>1, <2>2
    <3>2. Slot(R) = Slot(A + j)
      BY <1>1, <3>1, ModTurns DEF Slot
    <3>3. ring[Slot(R)] = texts[R]
      BY <3>1 DEF HoldsIssued
    <3>4. QED
      BY <3>1, <3>2, <3>3
  <2>3. QED
    BY <2>1, <2>2
<1>11. QED
  BY <1>6, <1>7, <1>8, <1>9, <1>10 DEF Carries

\* What the server did stays true of what the client added.
LEMMA AddedKeeps ==
  ASSUME IInv, NEW text \in Nat, Add(text), UNCHANGED <<executed, lastClientCommand, zombie>>,
         Overfull => Overfull'
  PROVE  /\ ExecutedMatches'
         /\ \A m \in PacketType : PacketOK(m) => PacketOK(m)'
<1>1. /\ reliableSequence' = reliableSequence + 1
      /\ \A n \in 1 .. reliableSequence : issued'[n] = issued[n]
  BY Added
<1>2. /\ reliableSequence \in Nat /\ reliableSequence' \in Nat
      /\ lastClientCommand \in Nat /\ lastClientCommand' \in Nat
      /\ reliableSequence <= reliableSequence' /\ lastClientCommand <= lastClientCommand'
      /\ Len(executed) <= reliableSequence /\ Len(executed) \in Nat
  BY <1>1, Counters
<1>3. ExecutedMatches'
  <2>1. Matches(executed, issued) => Matches(executed', issued')
    <3>1. \A n \in 1 .. Len(executed) : n \in 1 .. reliableSequence
      BY <1>2
    <3>2. QED
      BY <1>1, <3>1 DEF Matches
  <2>2. QED
    BY <2>1 DEF IInv, ExecutedMatches
<1>4. ASSUME NEW m \in PacketType, PacketOK(m)
      PROVE  PacketOK(m)'
  BY <1>1, <1>2, <1>4, PacketKept
<1>5. QED
  BY <1>3, <1>4

\* PacketsOK follows from what the packets are, whether they were under way or are new.
LEMMA PacketsOKAgain ==
  ASSUME IInv, NEW q, toServer' = q, NEW new \in PacketType,
         \A k \in 1 .. Len(q) : \/ \E i \in 1 .. Len(toServer) : q[k] = toServer[i]
                                \/ q[k] = new /\ PacketOK(new)',
         \A m \in PacketType : PacketOK(m) => PacketOK(m)'
  PROVE  PacketsOK'
<1>1. ASSUME NEW k \in 1 .. Len(q), NEW m, m = q[k]
      PROVE  PacketOK(m)'
  <2>1. CASE \E i \in 1 .. Len(toServer) : q[k] = toServer[i]
    <3>1. PICK i \in 1 .. Len(toServer) : m = toServer[i]
      BY <1>1, <2>1
    <3>2. m \in PacketType /\ PacketOK(m)
      BY <3>1 DEF IInv, Types, PacketsOK
    <3>3. QED
      BY <3>2
  <2>2. CASE q[k] = new /\ PacketOK(new)'
    <3>1. m = new
      BY <1>1, <2>2
    <3>2. QED
      BY <2>2, <3>1
  <2>3. QED
    BY <2>1, <2>2
<1>2. ASSUME NEW k \in 1 .. Len(toServer')
      PROVE  PacketOK(toServer[k])'
  <2>1. PICK m : m = toServer'[k]
    OBVIOUS
  <2>2. PacketOK(m)'
    BY <1>1, <1>2, <2>1
  <2>3. QED
    BY <2>1, <2>2
<1>3. QED
  BY <1>2 DEF PacketsOK

\* A command of the user, while there is room.
LEMMA AddStep ==
  ASSUME IInv, ~left, ~Full(FALSE), Add(reliableSequence + 1),
         UNCHANGED <<reliableAcknowledge, left, sv, toServer, toClient>>
  PROVE  IInv'
<1> DEFINE text == reliableSequence + 1
<1>1. /\ reliableSequence \in Nat /\ reliableAcknowledge \in Nat /\ lastClientCommand \in Nat
      /\ reliableAcknowledge <= lastClientCommand /\ lastClientCommand <= reliableSequence
      /\ ~Overfull /\ MAX_RELIABLE_COMMANDS \in Nat /\ text \in Nat
  BY Counters
<1>2. reliableSequence - reliableAcknowledge < MAX_RELIABLE_COMMANDS
  BY <1>1 DEF Full, Unacknowledged
<1>3. /\ reliableSequence' = reliableSequence + 1
      /\ reliableCommands' \in [Slots -> Nat]
      /\ issued' \in Seq(Nat) /\ Len(issued') = reliableSequence + 1
      /\ HoldsIssued(reliableCommands', reliableSequence + 1, issued')
  BY <1>1, Added
<1>4. Types'
  BY <1>1, <1>3 DEF IInv, Types, sv
<1>5. AcknowledgementsInOrder'
  BY <1>1, <1>3 DEF IInv, AcknowledgementsInOrder, sv
<1>6. RoomUntilDisconnect'
  <2>1. Unacknowledged' <= MAX_RELIABLE_COMMANDS
    BY <1>1, <1>2, <1>3 DEF Unacknowledged
  <2>2. Unacknowledged' \in Int
    BY <1>1, <1>3 DEF Unacknowledged
  <2>3. QED
    BY <1>1, <1>3, <2>1, <2>2 DEF RoomUntilDisconnect, HoldsIssued
<1>7. ExecutedMatches' /\ \A m \in PacketType : PacketOK(m) => PacketOK(m)'
  BY <1>1, AddedKeeps DEF sv
<1>8. PacketsOK'
  BY <1>7 DEF IInv, Types, PacketsOK
<1>9. lost' = FALSE /\ early' = FALSE
  BY DEF IInv, sv
<1>10. QED
  BY <1>4, <1>5, <1>6, <1>7, <1>8, <1>9 DEF IInv

LEMMA DisconnectStep ==
  ASSUME IInv, ~left, CL_Disconnect
  PROVE  IInv'
<1>1. /\ reliableSequence \in Nat /\ reliableAcknowledge \in Nat /\ lastClientCommand \in Nat
      /\ reliableAcknowledge <= lastClientCommand /\ lastClientCommand <= reliableSequence
      /\ reliableSequence - reliableAcknowledge <= MAX_RELIABLE_COMMANDS
      /\ ~Overfull /\ MAX_RELIABLE_COMMANDS \in Nat
  BY Counters
<1>2. Add(Disconnect) /\ Disconnect \in Nat
  BY <1>1 DEF CL_Disconnect, Full, Unacknowledged, Disconnect
<1>3. /\ reliableSequence' = reliableSequence + 1
      /\ reliableCommands' \in [Slots -> Nat]
      /\ issued' \in Seq(Nat) /\ Len(issued') = reliableSequence + 1
      /\ issued'[reliableSequence + 1] = Disconnect
      /\ HoldsIssued(reliableCommands', reliableSequence + 1, issued')
  BY <1>2, Added
<1>4. PICK new : /\ new = Packet(reliableAcknowledge, reliableSequence', reliableCommands')
                 /\ toServer' = toServer \o <<new, new, new>>
  BY DEF CL_Disconnect
<1>5. left' = TRUE /\ UNCHANGED <<reliableAcknowledge, sv, toClient>>
  BY DEF CL_Disconnect
<1>6. PICK A, R, texts : /\ A = reliableAcknowledge /\ R = reliableSequence + 1
                         /\ texts = issued'
  OBVIOUS
<1>7. A \in Nat /\ R \in Nat /\ A <= R /\ R - A <= MAX_RELIABLE_COMMANDS + 1
  BY <1>1, <1>6
<1>8. /\ new \in PacketType /\ Base(new) = A /\ new.newest = R /\ Len(new.commands) = R - A
      /\ \A j \in 1 .. R - A :
           /\ new.commands[j].seq = A + j
           /\ \/ new.commands[j].text = texts[A + j]
              \/ R - A > MAX_RELIABLE_COMMANDS /\ new.commands[j].text = texts[R]
  <2>1. PICK ring \in [Slots -> Nat] : /\ HoldsIssued(ring, R, texts)
                                       /\ new = Packet(A, R, ring)
    BY <1>3, <1>4, <1>6
  <2>2. Carries(new, A, R, texts)
    BY <1>7, <2>1, NewPacket
  <2>3. QED
    BY <2>2 DEF Carries
<1>9. Overfull' <=> R - A > MAX_RELIABLE_COMMANDS
  BY <1>3, <1>5, <1>6 DEF Overfull, Unacknowledged
<1>10. PacketOK(new)'
  <2>1. Base(new)' = A /\ texts[R] = Disconnect
    BY <1>3, <1>6, <1>8 DEF Base
  <2>2. A <= lastClientCommand' /\ R <= reliableSequence'
    BY <1>1, <1>3, <1>5, <1>6, <1>7 DEF sv
  <2>3. \A j \in 1 .. R - A : \/ new.commands[j].text = issued'[A + j]
                              \/ Overfull' /\ new.commands[j].text = Disconnect
    BY <1>6, <1>8, <1>9, <2>1, Zenon
  <2>4. QED
    BY <1>7, <1>8, <2>1, <2>2, <2>3, Zenon DEF PacketOK
<1>11. /\ toServer \in Seq(PacketType) /\ toServer' \in Seq(PacketType)
       /\ \A k \in 1 .. Len(toServer') :
            \/ k \in 1 .. Len(toServer) /\ toServer'[k] = toServer[k]
            \/ toServer'[k] = new
  BY <1>4, <1>8, ThreeMoreMessages DEF IInv, Types
<1>12. ExecutedMatches' /\ \A m \in PacketType : PacketOK(m) => PacketOK(m)'
  BY <1>1, <1>2, <1>5, AddedKeeps DEF sv
<1>13. PacketsOK'
  BY <1>8, <1>10, <1>11, <1>12, PacketsOKAgain
<1>14. Types'
  <2>1. left' \in BOOLEAN
    BY <1>5, Zenon
  <2>2. QED
    BY <1>1, <1>3, <1>5, <1>11, <2>1 DEF IInv, Types, sv
<1>15. AcknowledgementsInOrder'
  BY <1>1, <1>3, <1>5 DEF IInv, AcknowledgementsInOrder, sv
<1>16. RoomUntilDisconnect'
  <2>1. Unacknowledged' <= MAX_RELIABLE_COMMANDS + 1
    BY <1>3, <1>5, <1>6, <1>7 DEF Unacknowledged
  <2>2. QED
    BY <1>3, <1>5, <2>1 DEF RoomUntilDisconnect, HoldsIssued
<1>17. lost' = FALSE /\ early' = FALSE
  BY <1>5 DEF IInv, sv
<1>18. QED
  BY <1>12, <1>13, <1>14, <1>15, <1>16, <1>17 DEF IInv

LEMMA WritePacketStep ==
  ASSUME IInv, CL_WritePacket
  PROVE  IInv'
<1>1. /\ reliableSequence \in Nat /\ reliableAcknowledge \in Nat /\ lastClientCommand \in Nat
      /\ reliableAcknowledge <= lastClientCommand /\ lastClientCommand <= reliableSequence
      /\ reliableSequence - reliableAcknowledge <= MAX_RELIABLE_COMMANDS
      /\ MAX_RELIABLE_COMMANDS \in Nat
  BY Counters DEF CL_WritePacket
<1>2. PICK new : /\ new = Packet(reliableAcknowledge, reliableSequence, reliableCommands)
                 /\ toServer' = Append(toServer, new)
                 /\ UNCHANGED <<clc, sv, toClient>>
  BY DEF CL_WritePacket
<1>3. PICK A, R : A = reliableAcknowledge /\ R = reliableSequence
  OBVIOUS
<1>4. A \in Nat /\ R \in Nat /\ A <= R /\ R - A <= MAX_RELIABLE_COMMANDS
  BY <1>1, <1>3
<1>5. Carries(new, A, R, issued)
  <2>1. PICK ring \in [Slots -> Nat] : /\ HoldsIssued(ring, R, issued)
                                       /\ new = Packet(A, R, ring)
    BY <1>2, <1>3 DEF IInv, Types, RoomUntilDisconnect
  <2>2. A <= R /\ R - A <= MAX_RELIABLE_COMMANDS + 1
    BY <1>1, <1>4
  <2>3. QED
    BY <1>4, <2>1, <2>2, NewPacket
<1>6. new \in PacketType /\ PacketOK(new)
  <2>1. \A j \in 1 .. R - A : new.commands[j].text = issued[A + j]
    BY <1>1, <1>4, <1>5 DEF Carries
  <2>2. A <= lastClientCommand /\ R <= reliableSequence
    BY <1>1, <1>3
  <2>3. QED
    BY <1>4, <1>5, <2>1, <2>2 DEF Carries, PacketOK
<1>7. /\ toServer \in Seq(PacketType) /\ toServer' \in Seq(PacketType)
      /\ \A k \in 1 .. Len(toServer') :
           \/ k \in 1 .. Len(toServer) /\ toServer'[k] = toServer[k]
           \/ toServer'[k] = new
  BY <1>2, <1>6, OneMoreMessage DEF IInv, Types
<1>8. \A m : PacketOK(m) => PacketOK(m)'
  BY <1>2 DEF PacketOK, Base, Overfull, Unacknowledged, clc, sv
<1>9. PacketsOK'
  BY <1>6, <1>7, <1>8, PacketsOKAgain
<1>10. Types'
  BY <1>2, <1>7 DEF IInv, Types, clc, sv
<1>11. /\ AcknowledgementsInOrder' /\ RoomUntilDisconnect' /\ ExecutedMatches'
       /\ lost' = FALSE /\ early' = FALSE
  BY <1>2 DEF IInv, AcknowledgementsInOrder, RoomUntilDisconnect, HoldsIssued,
              Unacknowledged, ExecutedMatches, Matches, Overfull, clc, sv
<1>12. QED
  BY <1>9, <1>10, <1>11 DEF IInv

LEMMA ParseServerMessageStep ==
  ASSUME IInv, CL_ParseServerMessage
  PROVE  IInv'
<1>1. /\ reliableSequence \in Nat /\ reliableAcknowledge \in Nat /\ lastClientCommand \in Nat
      /\ reliableAcknowledge <= lastClientCommand /\ lastClientCommand <= reliableSequence
      /\ reliableSequence - reliableAcknowledge <= MAX_RELIABLE_COMMANDS
      /\ ~Overfull /\ MAX_RELIABLE_COMMANDS \in Nat
  BY Counters DEF CL_ParseServerMessage
<1>2. PICK i \in 1 .. Len(toClient) :
        /\ toClient' = SubSeq(toClient, i + 1, Len(toClient))
        /\ reliableAcknowledge' = Acknowledged(toClient[i])
  <2>1. DOMAIN toClient = 1 .. Len(toClient)
    BY DEF IInv, Types
  <2>2. QED
    BY <2>1, Zenon DEF CL_ParseServerMessage
<1>3. UNCHANGED <<reliableSequence, reliableCommands, left, issued, sv, toServer>>
  BY DEF CL_ParseServerMessage
<1>4. /\ toClient \in Seq(Nat) /\ toClient[i] \in Nat
      /\ reliableAcknowledge <= toClient[i] /\ toClient[i] <= lastClientCommand
  BY DEF IInv, Types, AcknowledgementsInOrder
<1>5. reliableAcknowledge' = toClient[i]
  BY <1>1, <1>2, <1>4 DEF Acknowledged
<1>6. /\ toClient' \in Seq(Nat)
      /\ \A k \in 1 .. Len(toClient') :
           i + k \in 1 .. Len(toClient) /\ toClient'[k] = toClient[i + k]
  BY <1>2, <1>4, LaterMessages
<1>7. Types'
  BY <1>3, <1>4, <1>5, <1>6 DEF IInv, Types, sv
<1>8. AcknowledgementsInOrder'
  <2> DEFINE len == Len(toClient')
  <2>1. reliableAcknowledge' <= lastClientCommand' /\ lastClientCommand' <= reliableSequence'
    BY <1>1, <1>3, <1>4, <1>5 DEF sv
  <2>2. ASSUME NEW j \in 1 .. len
        PROVE  /\ reliableAcknowledge' <= toClient'[j] /\ toClient'[j] <= lastClientCommand'
               /\ \A k \in 1 .. len : j <= k => toClient'[j] <= toClient'[k]
    <3>1. i + j \in 1 .. Len(toClient) /\ toClient'[j] = toClient[i + j] /\ i <= i + j
      BY <1>6
    <3>2. toClient[i] <= toClient[i + j] /\ toClient[i + j] <= lastClientCommand
      BY <3>1 DEF IInv, AcknowledgementsInOrder
    <3>3. ASSUME NEW k \in 1 .. len, j <= k
          PROVE  toClient'[j] <= toClient'[k]
      <4>1. /\ i + k \in 1 .. Len(toClient) /\ toClient'[k] = toClient[i + k]
            /\ i + j <= i + k
        BY <1>6, <3>3
      <4>2. toClient[i + j] <= toClient[i + k]
        BY <3>1, <4>1 DEF IInv, AcknowledgementsInOrder
      <4>3. QED
        BY <3>1, <4>1, <4>2
    <3>4. QED
      BY <1>3, <1>5, <3>1, <3>2, <3>3 DEF sv
  <2>3. QED
    BY <2>1, <2>2 DEF AcknowledgementsInOrder
<1>9. ~Overfull'
  BY <1>1, <1>3, <1>4, <1>5 DEF Overfull, Unacknowledged
<1>10. RoomUntilDisconnect'
  <2>1. Unacknowledged' <= MAX_RELIABLE_COMMANDS /\ Unacknowledged' \in Int
    BY <1>1, <1>3, <1>4, <1>5 DEF Unacknowledged
  <2>2. QED
    BY <1>1, <1>3, <2>1 DEF IInv, RoomUntilDisconnect, HoldsIssued
<1>11. \A m : PacketOK(m) => PacketOK(m)'
  BY <1>1, <1>3 DEF PacketOK, Base, sv
<1>12. PacketsOK'
  BY <1>3, <1>11 DEF IInv, PacketsOK
<1>13. ExecutedMatches' /\ lost' = FALSE /\ early' = FALSE
  BY <1>1, <1>3 DEF IInv, ExecutedMatches, Matches, sv
<1>14. QED
  BY <1>7, <1>8, <1>10, <1>12, <1>13 DEF IInv

-----------------------------------------------------------------------------
\* The server's operations.

LEMMA ExecuteClientMessageStep ==
  ASSUME IInv, SV_ExecuteClientMessage
  PROVE  IInv'
<1>1. PICK i, protect, m, st, done :
        /\ i \in 1 .. Len(toServer) /\ protect \in BOOLEAN
        /\ m = toServer[i]
        /\ st = [last |-> lastClientCommand, zombie |-> zombie, lost |-> lost,
                 flooding |-> flooding, protect |-> protect,
                 executed |-> executed, ignored |-> ignored]
        /\ done = FoldLeft(SV_ClientCommand, st, m.commands)
        /\ toServer' = SubSeq(toServer, i + 1, Len(toServer))
        /\ lastClientCommand' = done.last /\ zombie' = done.zombie /\ lost' = done.lost
        /\ flooding' = done.flooding /\ executed' = done.executed /\ ignored' = done.ignored
        /\ early' = (early \/ (~done.zombie /\ done.last < m.newest))
  <2>1. DOMAIN toServer = 1 .. Len(toServer)
    BY DEF IInv, Types
  <2>2. QED
    BY <2>1, Zenon DEF SV_ExecuteClientMessage
<1>2. UNCHANGED <<clc, toClient>>
  BY DEF SV_ExecuteClientMessage
<1>3. /\ toServer \in Seq(PacketType) /\ m \in PacketType /\ PacketOK(m) /\ m.newest \in Nat
  <2>1. m = toServer[i] /\ i \in 1 .. Len(toServer)
    BY <1>1, Zenon
  <2>2. toServer \in Seq(PacketType)
    BY Zenon DEF IInv, Types
  <2>3. m \in PacketType
    BY <2>1, <2>2
  <2>4. PacketOK(m)
    BY <2>1, Zenon DEF IInv, PacketsOK
  <2>5. m.newest \in Nat
    BY <2>3 DEF PacketType
  <2>6. QED
    BY <2>2, <2>3, <2>4, <2>5
<1>4. /\ st \in ExecState /\ st.last = lastClientCommand /\ st.zombie = zombie
      /\ st.lost = FALSE /\ st.executed = executed /\ st.ignored = ignored
  <2>1. st = [last |-> lastClientCommand, zombie |-> zombie, lost |-> lost,
              flooding |-> flooding, protect |-> protect,
              executed |-> executed, ignored |-> ignored]
    BY <1>1, Zenon
  <2>2. lost = FALSE /\ lost \in BOOLEAN
    BY Zenon DEF IInv
  <2>3. ignored \in SUBSET Nat /\ executed \in Seq(Nat)
    BY DEF IInv, Types
  <2>4. lastClientCommand \in Nat
    BY Counters
  <2>5. zombie \in BOOLEAN /\ flooding \in BOOLEAN
    BY DEF IInv, Types
  <2>6. protect \in BOOLEAN
    BY <1>1, Zenon
  <2>7. QED
    BY <2>1, <2>2, <2>3, <2>4, <2>5, <2>6 DEF ExecState
<1>5. Types /\ Reached(st, st.last, Base(m))
  <2>1. /\ lastClientCommand \in Nat /\ lastClientCommand <= reliableSequence
        /\ Len(executed) = lastClientCommand /\ ignored \subseteq 1 .. lastClientCommand
        /\ Matches(executed, issued) \/ (Overfull /\ zombie)
    BY Counters DEF IInv, Types, ExecutedMatches
  <2>2. Base(m) <= lastClientCommand
    BY <1>3 DEF PacketOK
  <2>3. QED
    BY <1>4, <2>1, <2>2 DEF Reached, IInv
<1>6. done \in ExecState /\ Reached(done, st.last, m.newest)
  <2>1. done = FoldLeft(SV_ClientCommand, st, m.commands)
    BY <1>1, Zenon
  <2>2. QED
    BY <1>3, <1>4, <1>5, <2>1, PacketExecuted, Zenon
<1>7. /\ lastClientCommand' = done.last /\ zombie' = done.zombie /\ lost' = done.lost
      /\ flooding' = done.flooding /\ executed' = done.executed /\ ignored' = done.ignored
      /\ early' = (early \/ (~done.zombie /\ done.last < m.newest))
      /\ toServer' = SubSeq(toServer, i + 1, Len(toServer))
      /\ i \in 1 .. Len(toServer)
  BY <1>1, Zenon
<1>8. /\ toServer' \in Seq(PacketType)
      /\ \A k \in 1 .. Len(toServer') :
           i + k \in 1 .. Len(toServer) /\ toServer'[k] = toServer[i + k]
  BY <1>3, <1>7, LaterMessages
<1>9. /\ lastClientCommand \in Nat /\ lastClientCommand' \in Nat /\ reliableSequence \in Nat
      /\ lastClientCommand <= lastClientCommand' /\ lastClientCommand' <= reliableSequence
      /\ done.last \in Nat
  BY <1>4, <1>6, <1>7, Counters DEF Reached, ExecState
<1>10. Types'
  BY <1>2, <1>6, <1>7, <1>8, <1>9 DEF IInv, Types, ExecState, Reached, clc
<1>11. AcknowledgementsInOrder'
  <2>1. /\ reliableAcknowledge <= lastClientCommand' /\ reliableAcknowledge \in Nat
        /\ \A k \in 1 .. Len(toClient) : toClient[k] \in Nat /\ toClient[k] <= lastClientCommand'
    BY <1>9 DEF IInv, AcknowledgementsInOrder, Types
  <2>2. QED
    BY <1>2, <1>9, <2>1 DEF IInv, AcknowledgementsInOrder, clc
<1>12. RoomUntilDisconnect'
  BY <1>2 DEF IInv, RoomUntilDisconnect, HoldsIssued, Unacknowledged, clc
<1>13. \A p \in PacketType : PacketOK(p) => PacketOK(p)'
  <2>1. Overfull' = Overfull /\ issued' = issued /\ reliableSequence' = reliableSequence
    BY <1>2 DEF Overfull, Unacknowledged, clc
  <2>2. QED
    BY <1>9, <2>1, PacketKept
<1>14. PacketsOK'
  BY <1>3, <1>8, <1>13, PacketsOKAgain
<1>15. ExecutedMatches'
  <2>1. Overfull' = Overfull /\ issued' = issued
    BY <1>2 DEF Overfull, Unacknowledged, clc
  <2>2. Matches(done.executed, issued) \/ (Overfull /\ done.zombie)
    BY <1>6 DEF Reached
  <2>3. QED
    BY <1>7, <2>1, <2>2, Zenon DEF ExecutedMatches, Matches
<1>16. lost' = FALSE
  BY <1>6, <1>7 DEF Reached
<1>17. early' = FALSE
  <2>1. done.zombie \/ ~(done.last < m.newest)
    BY <1>3, <1>6, <1>9 DEF Reached
  <2>2. early = FALSE
    BY DEF IInv
  <2>3. QED
    BY <1>7, <2>1, <2>2, Zenon
<1>18. QED
  BY <1>10, <1>11, <1>12, <1>14, <1>15, <1>16, <1>17 DEF IInv

LEMMA SecondPassesStep ==
  ASSUME IInv, SecondPasses
  PROVE  IInv'
<1>1. /\ flooding' = FALSE
      /\ UNCHANGED <<clc, lastClientCommand, zombie, lost, executed, ignored, early,
                     toServer, toClient>>
  BY DEF SecondPasses
<1>2. flooding' \in BOOLEAN
  BY <1>1, Zenon
<1>3. Types'
  BY <1>1, <1>2 DEF IInv, Types, clc
<1>4. /\ AcknowledgementsInOrder' /\ RoomUntilDisconnect' /\ PacketsOK' /\ ExecutedMatches'
      /\ lost' = FALSE /\ early' = FALSE
  BY <1>1 DEF IInv, AcknowledgementsInOrder, RoomUntilDisconnect, HoldsIssued,
     Unacknowledged, PacketsOK, PacketOK, Base, ExecutedMatches, Matches, Overfull, clc
<1>5. QED
  BY <1>3, <1>4 DEF IInv

LEMMA SendClientSnapshotStep ==
  ASSUME IInv, SV_SendClientSnapshot
  PROVE  IInv'
<1>1. /\ toClient' = Append(toClient, lastClientCommand)
      /\ UNCHANGED <<clc, sv, toServer>>
  BY DEF SV_SendClientSnapshot
<1>2. /\ toClient \in Seq(Nat) /\ lastClientCommand \in Nat
      /\ reliableAcknowledge <= lastClientCommand /\ reliableAcknowledge \in Nat
      /\ reliableSequence \in Nat
  BY Counters DEF IInv, Types
<1>3. /\ toClient' \in Seq(Nat) /\ Len(toClient') = Len(toClient) + 1
      /\ \A k \in 1 .. Len(toClient) : toClient'[k] = toClient[k]
      /\ toClient'[Len(toClient) + 1] = lastClientCommand
      /\ Len(toClient) \in Nat
  BY <1>1, <1>2
<1>4. Types'
  BY <1>1, <1>3 DEF IInv, Types, clc, sv
<1>5. AcknowledgementsInOrder'
  <2> DEFINE len == Len(toClient)
  <2>1. ASSUME NEW j \in 1 .. len + 1
        PROVE  /\ reliableAcknowledge <= toClient'[j] /\ toClient'[j] <= lastClientCommand
               /\ \A k \in 1 .. len + 1 : j <= k => toClient'[j] <= toClient'[k]
    <3>1. CASE j = len + 1
      BY <1>2, <1>3, <3>1
    <3>2. CASE j \in 1 .. len
      <4>1. /\ toClient'[j] = toClient[j] /\ toClient[j] \in Nat
            /\ reliableAcknowledge <= toClient[j] /\ toClient[j] <= lastClientCommand
            /\ \A k \in 1 .. len : j <= k => toClient[j] <= toClient[k]
        BY <1>2, <1>3, <3>2 DEF IInv, AcknowledgementsInOrder
      <4>2. ASSUME NEW k \in 1 .. len + 1, j <= k
            PROVE  toClient'[j] <= toClient'[k]
        <5>1. CASE k = len + 1
          BY <1>3, <4>1, <5>1
        <5>2. CASE k \in 1 .. len
          BY <1>3, <4>1, <4>2, <5>2
        <5>3. QED
          BY <1>3, <5>1, <5>2
      <4>3. QED
        BY <4>1, <4>2
    <3>3. QED
      BY <1>3, <3>1, <3>2
  <2>2. reliableAcknowledge <= lastClientCommand /\ lastClientCommand <= reliableSequence
    BY DEF IInv, AcknowledgementsInOrder
  <2>3. QED
    BY <1>1, <1>3, <2>1, <2>2 DEF AcknowledgementsInOrder, clc, sv
<1>6. /\ RoomUntilDisconnect' /\ PacketsOK' /\ ExecutedMatches'
      /\ lost' = FALSE /\ early' = FALSE
  BY <1>1 DEF IInv, RoomUntilDisconnect, HoldsIssued, Unacknowledged,
              PacketsOK, PacketOK, Base, ExecutedMatches, Matches, Overfull, clc, sv
<1>7. QED
  BY <1>4, <1>5, <1>6 DEF IInv

-----------------------------------------------------------------------------
\* Both ends agree on what was executed, and every packet under way is one that the
\* server can go on with, whatever is lost.
THEOREM Invariant ==
  Spec => []IInv
<1>1. Init => IInv
  BY InitInvariant
<1>2. IInv /\ [Next]_vars => IInv'
  <2> SUFFICES ASSUME IInv, [Next]_vars PROVE IInv'
    OBVIOUS
  <2>1. CASE CL_AddReliableCommand
    BY <2>1, AddStep, DisconnectStep DEF CL_AddReliableCommand
  <2>2. CASE Leave
    BY <2>2, DisconnectStep DEF Leave
  <2>3. CASE CL_WritePacket
    BY <2>3, WritePacketStep
  <2>4. CASE CL_ParseServerMessage
    BY <2>4, ParseServerMessageStep
  <2>5. CASE SV_ExecuteClientMessage
    BY <2>5, ExecuteClientMessageStep
  <2>6. CASE SecondPasses
    BY <2>6, SecondPassesStep
  <2>7. CASE SV_SendClientSnapshot
    BY <2>7, SendClientSnapshotStep
  <2>8. CASE UNCHANGED vars
    BY <2>8 DEF vars, clc, sv, IInv, Types, AcknowledgementsInOrder, RoomUntilDisconnect,
                HoldsIssued, Unacknowledged, PacketsOK, PacketOK, Base, ExecutedMatches,
                Matches, Overfull
  <2>9. QED
    BY <2>1, <2>2, <2>3, <2>4, <2>5, <2>6, <2>7, <2>8 DEF Next
<1>3. QED
  BY <1>1, <1>2, PTL DEF Spec

\* The client's and the server's counters are those of the commands that were issued
\* and executed, and no acknowledgement is ahead of either.
THEOREM TypeCorrect ==
  Spec => []TypeOK
<1>1. IInv => TypeOK
  <2> SUFFICES ASSUME IInv PROVE TypeOK
    OBVIOUS
  <2>1. /\ reliableSequence = Len(issued) /\ lastClientCommand = Len(executed)
        /\ DOMAIN reliableCommands = Slots /\ ignored \subseteq DOMAIN executed
    BY DEF IInv, Types
  <2>2. reliableAcknowledge \in 0 .. reliableSequence
    BY Counters
  <2>3. /\ left \in BOOLEAN /\ zombie \in BOOLEAN /\ flooding \in BOOLEAN
        /\ lost \in BOOLEAN /\ early \in BOOLEAN
    BY Zenon DEF IInv, Types
  <2>4. QED
    BY <2>1, <2>2, <2>3 DEF TypeOK
<1>2. QED
  BY <1>1, Invariant, PTL

\* SV_ClientCommand executes the commands in the order of CL_AddReliableCommand, each
\* once, and never finds one missing, unless the disconnect command took the slot of
\* one that it had not.
THEOREM CommandsInOrder ==
  Spec => []ExecutedAsIssued
<1>1. IInv => ExecutedAsIssued
  <2> SUFFICES ASSUME IInv, Matches(executed, issued)
               PROVE  IsPrefix(executed, issued)
    BY DEF IInv, ExecutedMatches, ExecutedAsIssued, Overfull
  <2>1. /\ executed \in Seq(Nat) /\ issued \in Seq(Nat)
        /\ Len(executed) <= Len(issued)
        /\ \A n \in 1 .. Len(executed) : executed[n] = issued[n]
    BY DEF IInv, Types, AcknowledgementsInOrder, Matches
  <2>2. SubSeq(executed, 1, Len(executed)) = SubSeq(issued, 1, Len(executed))
    BY <2>1
  <2>3. QED
    BY <2>1, <2>2 DEF IsPrefix
<1>2. QED
  BY <1>1, Invariant, PTL

\* No packet's move is executed before a command that was added before the move,
\* however many packets in between are lost.
THEOREM CommandsBeforeMoves ==
  Spec => []NoMoveBeforeItsCommands
<1>1. IInv => NoMoveBeforeItsCommands
  BY DEF IInv, NoMoveBeforeItsCommands
<1>2. QED
  BY <1>1, Invariant, PTL
-----------------------------------------------------------------------------
(***************************************************************************)
(* The slots of clients and players.                                       *)
(***************************************************************************)

(***************************************************************************)
(* The inductive invariant.                                                *)
(***************************************************************************)
ClientOf(n) == [state : {"free", "zombie", "connected"},
                remoteAddress : Addresses \cup {NA_BOT, None},
                localPlayers : [Locals -> None .. n - 1]]
PlayerOf(n) == [inUse : BOOLEAN, client : None .. n - 1]
Server(n) == [clients : [0 .. n - 1 -> ClientOf(n)], players : [0 .. n - 1 -> PlayerOf(n)],
              playing : SUBSET Nat, spurious : BOOLEAN, replaced : BOOLEAN,
              dangling : BOOLEAN, undefined : BOOLEAN]

Lp(st, c, j) == st.clients[c].localPlayers[j]

\* The players in use are those that the clients in live hold: each is held once, and
\* points to its client.
Held1(st, live) ==
  /\ live \subseteq Clients(st)
  /\ \A c \in live : \A j \in Held(st, c) :
       st.players[Lp(st, c, j)].inUse /\ st.players[Lp(st, c, j)].client = c
  /\ \A c \in live : \A i, j \in Held(st, c) : Lp(st, c, i) = Lp(st, c, j) => i = j
  /\ \A p \in InUse(st) :
       /\ st.players[p].client \in live
       /\ \E j \in Held(st, st.players[p].client) : Lp(st, st.players[p].client, j) = p

\* The game knows who plays.
Known(st) == ~st.spurious /\ ~st.undefined /\ st.playing = InUse(st)

\* An address has one slot.
OneSlot(st) ==
  \A c, d \in Clients(st) \ FreeSlots(st) :
    /\ st.clients[c].remoteAddress = st.clients[d].remoteAddress
    /\ st.clients[c].remoteAddress # NA_BOT
    => c = d

\* A bot has its first local player and no other.
BotsHold(st) == \A c \in Bots(st) : Held(st, c) = {0}

Owned(st, live) == Held1(st, live) /\ Known(st) /\ OneSlot(st) /\ BotsHold(st)

Ordered(st) == Owned(st, Connected(st)) /\ \A c \in Connected(st) : Held(st, c) # {}

InOrder(st) == ~st.replaced /\ ~st.dangling => Ordered(st)

SlotsInv == (\E n \in Nat \ {0} : svs \in Server(n)) /\ InOrder(svs)

(***************************************************************************)
(* The structures.                                                         *)
(***************************************************************************)
LEMMA SlotFields ==
  ASSUME NEW n \in Nat \ {0}, NEW st \in Server(n)
  PROVE  /\ Clients(st) = 0 .. n - 1 /\ Players(st) = 0 .. n - 1
         /\ \A c \in 0 .. n - 1 :
              /\ st.clients[c] \in ClientOf(n)
              /\ st.clients[c].state \in {"free", "zombie", "connected"}
              /\ st.clients[c].localPlayers \in [Locals -> None .. n - 1]
              /\ \A j \in Locals : Lp(st, c, j) \in None .. n - 1
         /\ \A p \in 0 .. n - 1 :
              /\ st.players[p] \in PlayerOf(n)
              /\ st.players[p].inUse \in BOOLEAN
              /\ st.players[p].client \in None .. n - 1
         /\ st.playing \subseteq Nat /\ st.spurious \in BOOLEAN /\ st.replaced \in BOOLEAN
         /\ st.dangling \in BOOLEAN /\ st.undefined \in BOOLEAN
         /\ None .. n - 1 = {None} \cup (0 .. n - 1)
<1>1. /\ Clients(st) = 0 .. n - 1 /\ Players(st) = 0 .. n - 1
      /\ \A c \in 0 .. n - 1 : st.clients[c] \in ClientOf(n)
      /\ \A p \in 0 .. n - 1 : st.players[p] \in PlayerOf(n)
      /\ st.playing \subseteq Nat /\ st.spurious \in BOOLEAN /\ st.replaced \in BOOLEAN
      /\ st.dangling \in BOOLEAN /\ st.undefined \in BOOLEAN
  BY DEF Server, Clients, Players
<1>2. ASSUME NEW c \in 0 .. n - 1
      PROVE  /\ st.clients[c].state \in {"free", "zombie", "connected"}
             /\ st.clients[c].localPlayers \in [Locals -> None .. n - 1]
             /\ \A j \in Locals : Lp(st, c, j) \in None .. n - 1
  BY <1>1 DEF ClientOf, Lp
<1>3. ASSUME NEW p \in 0 .. n - 1
      PROVE  st.players[p].inUse \in BOOLEAN /\ st.players[p].client \in None .. n - 1
  BY <1>1 DEF PlayerOf
<1>4. None .. n - 1 = {None} \cup (0 .. n - 1)
  BY DEF None
<1>5. QED
  BY <1>1, <1>2, <1>3, <1>4

\* The players that a client holds.
LEMMA HeldIs ==
  ASSUME NEW n \in Nat \ {0}, NEW st \in Server(n), NEW c \in 0 .. n - 1
  PROVE  /\ Held(st, c) = {j \in Locals : Lp(st, c, j) # None}
         /\ Held(st, c) \subseteq Locals /\ IsFiniteSet(Held(st, c))
         /\ \A j \in Held(st, c) : Lp(st, c, j) \in 0 .. n - 1
         /\ \A p : p \in PlayersOf(st, c) <=> \E j \in Held(st, c) : Lp(st, c, j) = p
         /\ MAX_SPLITVIEW \in Nat \ {0} /\ Locals = 0 .. MAX_SPLITVIEW - 1 /\ 0 \in Locals
<1>1. MAX_SPLITVIEW \in Nat \ {0} /\ Locals = 0 .. MAX_SPLITVIEW - 1 /\ 0 \in Locals
  BY SlotsAssumption DEF Locals
<1>2. Held(st, c) = {j \in Locals : Lp(st, c, j) # None}
  BY DEF Held, Lp
<1>3. IsFiniteSet(Held(st, c))
  <2>1. IsFiniteSet(0 .. MAX_SPLITVIEW - 1)
    BY <1>1, FS_Interval
  <2>2. QED
    BY <1>1, <1>2, <2>1, FS_Subset
<1>4. \A j \in Held(st, c) : Lp(st, c, j) \in 0 .. n - 1
  BY <1>2, SlotFields
<1>5. \A p : p \in PlayersOf(st, c) <=> \E j \in Held(st, c) : Lp(st, c, j) = p
  BY DEF PlayersOf, Lp
<1>6. QED
  BY <1>1, <1>2, <1>3, <1>4, <1>5

\* One client_t, one player_t and what else is in a state.
SetClient(st, c, x) == [st EXCEPT !.clients[c] = x]
SetPlayer(st, p, x) == [st EXCEPT !.players[p] = x]

\* d is st but for client c, which is x.
ClientSet(d, st, n, c, x) ==
  /\ d \in Server(n) /\ d.clients[c] = x
  /\ \A e \in (0 .. n - 1) \ {c} : d.clients[e] = st.clients[e]
  /\ d.players = st.players /\ d.playing = st.playing /\ d.spurious = st.spurious
  /\ d.replaced = st.replaced /\ d.dangling = st.dangling
  /\ d.undefined = st.undefined

LEMMA ClientIsSet ==
  ASSUME NEW n \in Nat \ {0}, NEW st \in Server(n), NEW c \in 0 .. n - 1, NEW x \in ClientOf(n),
         NEW d, d = SetClient(st, c, x)
  PROVE  ClientSet(d, st, n, c, x)
<1> DEFINE cs == [st.clients EXCEPT ![c] = x]
<1>1. cs \in [0 .. n - 1 -> ClientOf(n)] /\ cs[c] = x
      /\ \A e \in (0 .. n - 1) \ {c} : cs[e] = st.clients[e]
  BY DEF Server
<1>2. d = [st EXCEPT !.clients = cs]
  BY DEF Server, SetClient
<1> HIDE DEF cs
<1>3. QED
  BY <1>1, <1>2 DEF Server, ClientSet

LEMMA ChangedClient ==
  ASSUME NEW n \in Nat \ {0}, NEW st \in Server(n), NEW c \in 0 .. n - 1, NEW x \in ClientOf(n),
         NEW d, d = SetClient(st, c, x)
  PROVE  /\ d \in Server(n) /\ d.clients[c] = x
         /\ \A e \in (0 .. n - 1) \ {c} : d.clients[e] = st.clients[e]
         /\ d.players = st.players /\ d.playing = st.playing /\ d.spurious = st.spurious
         /\ d.replaced = st.replaced /\ d.dangling = st.dangling
         /\ d.undefined = st.undefined
<1>1. ClientSet(d, st, n, c, x)
  BY ClientIsSet
<1>2. QED
  BY <1>1 DEF ClientSet

LEMMA ChangedPlayer ==
  ASSUME NEW n \in Nat \ {0}, NEW st \in Server(n), NEW p \in 0 .. n - 1, NEW x \in PlayerOf(n),
         NEW d, d = SetPlayer(st, p, x)
  PROVE  /\ d \in Server(n) /\ d.players[p] = x
         /\ \A q \in (0 .. n - 1) \ {p} : d.players[q] = st.players[q]
         /\ d.clients = st.clients /\ d.playing = st.playing /\ d.spurious = st.spurious
         /\ d.replaced = st.replaced /\ d.dangling = st.dangling
         /\ d.undefined = st.undefined
<1> DEFINE ps == [st.players EXCEPT ![p] = x]
<1>1. ps \in [0 .. n - 1 -> PlayerOf(n)] /\ ps[p] = x
      /\ \A q \in (0 .. n - 1) \ {p} : ps[q] = st.players[q]
  BY DEF Server
<1>2. d = [st EXCEPT !.players = ps]
  BY DEF Server, SetPlayer
<1> HIDE DEF ps
<1>3. QED
  BY <1>1, <1>2 DEF Server

(***************************************************************************)
(* The numbers that are chosen.                                            *)
(***************************************************************************)
\* The largest element of a bounded set of numbers.
LEMMA MaxIs ==
  ASSUME NEW n \in Nat, NEW S \in SUBSET (0 .. n), S # {}
  PROVE  Max(S) \in S /\ \A x \in S : x <= Max(S)
<1> DEFINE T == {k \in Nat : n - k \in S}
<1>1. T \in SUBSET Nat /\ T # {}
  <2>1. PICK x \in S : TRUE
    OBVIOUS
  <2>2. n - x \in Nat /\ n - (n - x) = x
    BY <2>1
  <2>3. QED
    BY <2>1, <2>2
<1>2. PICK k \in T : \A m \in T : k <= m
  BY <1>1, LeastNatural
<1>3. ASSUME NEW x \in S PROVE x <= n - k
  <2>1. n - x \in Nat /\ n - (n - x) = x
    OBVIOUS
  <2>2. n - x \in T
    BY <2>1
  <2>3. k <= n - x /\ k \in Nat
    BY <1>2, <2>2
  <2>4. QED
    BY <2>1, <2>3
<1>4. \E y \in S : \A x \in S : y >= x
  BY <1>2, <1>3
<1>5. QED
  BY <1>4 DEF Max

LEMMA MinIs ==
  ASSUME NEW S \in SUBSET Nat, S # {}
  PROVE  Min(S) \in S /\ \A x \in S : Min(S) <= x
<1>1. \E y \in S : \A x \in S : y <= x
  BY LeastNatural
<1>2. QED
  BY <1>1 DEF Min

(***************************************************************************)
(* A player comes.                                                         *)
(***************************************************************************)
SameFlags(d, st) ==
  /\ d.spurious = st.spurious /\ d.replaced = st.replaced
  /\ d.dangling = st.dangling /\ d.undefined = st.undefined

\* Player p is client c's local player j now.
Linked(d, st, c, j, p) ==
  /\ d.players[p].inUse /\ d.players[p].client = c
  /\ \A q \in Players(st) \ {p} : d.players[q] = st.players[q]
  /\ Lp(d, c, j) = p
  /\ \A i \in Locals \ {j} : Lp(d, c, i) = Lp(st, c, i)
  /\ \A e \in Clients(st) \ {c} : d.clients[e] = st.clients[e]
  /\ d.playing = st.playing \cup {p}

LEMMA AddPlayerResult ==
  ASSUME NEW n \in Nat \ {0}, NEW st \in Server(n), NEW c \in 0 .. n - 1, NEW j \in Locals,
         NEW denied \in BOOLEAN, NEW d, d = SV_AddPlayer(st, c, j, denied)
  PROVE  /\ d \in Server(n) /\ SameFlags(d, st)
         /\ d.clients[c].state = st.clients[c].state
         /\ d.clients[c].remoteAddress = st.clients[c].remoteAddress
         /\ \/ d = st
            \/ /\ d.clients = st.clients /\ d.playing = st.playing
               /\ \E p \in Unused(st) : /\ ~d.players[p].inUse
                                        /\ \A q \in Players(st) \ {p} : d.players[q] = st.players[q]
            \/ j \notin Held(st, c) /\ \E p \in Unused(st) : Linked(d, st, c, j, p)
<1> DEFINE p == Min(Unused(st))
           x == [inUse |-> FALSE, client |-> c]
           y == [inUse |-> TRUE, client |-> c]
           l == [st.clients[c].localPlayers EXCEPT ![j] = p]
           z == [st.clients[c] EXCEPT !.localPlayers = l]
<1>1. /\ Clients(st) = 0 .. n - 1 /\ Players(st) = 0 .. n - 1 /\ st.clients[c] \in ClientOf(n)
      /\ st.clients[c].localPlayers \in [Locals -> None .. n - 1]
      /\ 0 .. n - 1 \subseteq None .. n - 1
  BY SlotFields
<1>2. CASE j \in Held(st, c) \/ Unused(st) = {}
  BY <1>2 DEF SV_AddPlayer, SameFlags
<1>3. CASE j \notin Held(st, c) /\ Unused(st) # {}
  <2>1. p \in Unused(st) /\ p \in 0 .. n - 1
    <3>1. Unused(st) \subseteq 0 .. n - 1 /\ 0 .. n - 1 \subseteq Nat
      BY <1>1 DEF Unused
    <3>2. QED
      BY <1>3, <3>1, MinIs
  <2>2. x \in PlayerOf(n) /\ y \in PlayerOf(n)
    BY <1>1 DEF PlayerOf
  <2>3. CASE denied
    <3>1. d = SetPlayer(st, p, x)
      BY <1>3, <2>3 DEF SV_AddPlayer, SetPlayer
    <3> HIDE DEF x, p
    <3>2. /\ d \in Server(n) /\ d.clients = st.clients /\ d.playing = st.playing
          /\ SameFlags(d, st) /\ d.players[p] = x
          /\ \A q \in (0 .. n - 1) \ {p} : d.players[q] = st.players[q]
      <4>1. /\ d \in Server(n) /\ d.players[p] = x
            /\ \A q \in (0 .. n - 1) \ {p} : d.players[q] = st.players[q]
            /\ d.clients = st.clients /\ d.playing = st.playing /\ d.spurious = st.spurious
            /\ d.replaced = st.replaced /\ d.dangling = st.dangling
            /\ d.undefined = st.undefined
        BY <2>1, <2>2, <3>1, ChangedPlayer
      <4>2. QED
        BY <4>1 DEF SameFlags
    <3>3. ~d.players[p].inUse
      BY <3>2 DEF x
    <3>4. QED
      BY <1>1, <2>1, <3>2, <3>3
  <2>4. CASE ~denied
    <3>1. l \in [Locals -> None .. n - 1] /\ l[j] = p /\ \A i \in Locals \ {j} :
            l[i] = st.clients[c].localPlayers[i]
      BY <1>1, <2>1
    <3> DEFINE a == SetPlayer(st, p, y)
               b == SetClient(a, c, z)
               q == st.playing \cup {p}
    <3>2. d = [b EXCEPT !.playing = q]
      <4>1. d = [st EXCEPT !.players[p] = y, !.clients[c].localPlayers[j] = p,
                           !.playing = st.playing \cup {p}]
        BY <1>3, <2>4 DEF SV_AddPlayer
      <4> HIDE DEF p, y
      <4>2. QED
        BY <1>1, <4>1 DEF Server, ClientOf, SetPlayer, SetClient
    <3> HIDE DEF p, y, l
    <3>3. /\ z \in ClientOf(n) /\ z.localPlayers = l /\ z.state = st.clients[c].state
          /\ z.remoteAddress = st.clients[c].remoteAddress
      BY <1>1, <3>1 DEF ClientOf
    <3> HIDE DEF z
    <3>4. /\ a \in Server(n) /\ SameFlags(a, st) /\ a.clients = st.clients
          /\ a.playing = st.playing
          /\ a.players[p] = y /\ \A r \in (0 .. n - 1) \ {p} : a.players[r] = st.players[r]
      <4>1. /\ a \in Server(n) /\ a.players[p] = y
            /\ \A r \in (0 .. n - 1) \ {p} : a.players[r] = st.players[r]
            /\ a.clients = st.clients /\ a.playing = st.playing /\ a.spurious = st.spurious
            /\ a.replaced = st.replaced /\ a.dangling = st.dangling
            /\ a.undefined = st.undefined
        BY <2>1, <2>2, ChangedPlayer
      <4> HIDE DEF a
      <4>2. QED
        BY <4>1 DEF SameFlags
    <3> HIDE DEF a
    <3>5. /\ b \in Server(n) /\ SameFlags(b, a) /\ b.players = a.players
          /\ b.clients[c] = z /\ \A e \in (0 .. n - 1) \ {c} : b.clients[e] = a.clients[e]
      <4>1. /\ b \in Server(n) /\ b.clients[c] = z
            /\ \A e \in (0 .. n - 1) \ {c} : b.clients[e] = a.clients[e]
            /\ b.players = a.players /\ b.playing = a.playing /\ b.spurious = a.spurious
            /\ b.replaced = a.replaced /\ b.dangling = a.dangling
            /\ b.undefined = a.undefined
        BY <3>3, <3>4, ChangedClient
      <4> HIDE DEF b
      <4>2. QED
        BY <4>1 DEF SameFlags
    <3> HIDE DEF b
    <3>6. q \subseteq Nat
      BY <2>1, SlotFields
    <3>7. /\ d \in Server(n) /\ SameFlags(d, b) /\ d.players = b.players
          /\ d.clients = b.clients /\ d.playing = q
      <4> HIDE DEF q
      <4>1. QED
        BY <3>2, <3>5, <3>6 DEF Server, SameFlags
    <3>8. SameFlags(d, st)
      BY <3>4, <3>5, <3>7 DEF SameFlags
    <3>9. Linked(d, st, c, j, p)
      <4>1. d.players[p].inUse /\ d.players[p].client = c
        BY <3>4, <3>5, <3>7 DEF y
      <4>2. Lp(d, c, j) = p /\ \A i \in Locals \ {j} : Lp(d, c, i) = Lp(st, c, i)
        BY <3>1, <3>3, <3>5, <3>7 DEF Lp
      <4>3. QED
        BY <1>1, <3>4, <3>5, <3>7, <4>1, <4>2 DEF Linked
    <3>10. QED
      BY <1>3, <2>1, <3>3, <3>5, <3>7, <3>8, <3>9
  <2>5. QED
    BY <2>3, <2>4
<1>4. QED
  BY <1>2, <1>3

\* Slots whose states and addresses have not changed.
LEMMA SameSlots ==
  ASSUME NEW st, NEW d, Clients(d) = Clients(st),
         \A e \in Clients(st) : /\ d.clients[e].state = st.clients[e].state
                                /\ d.clients[e].remoteAddress = st.clients[e].remoteAddress
  PROVE  /\ Connected(d) = Connected(st) /\ FreeSlots(d) = FreeSlots(st)
         /\ Bots(d) = Bots(st) /\ (OneSlot(st) => OneSlot(d))
<1>1. Connected(d) = Connected(st) /\ FreeSlots(d) = FreeSlots(st)
  BY DEF Connected, FreeSlots
<1>2. Bots(d) = Bots(st)
  BY <1>1 DEF Bots, Connected
<1>3. OneSlot(st) => OneSlot(d)
  BY <1>1 DEF OneSlot
<1>4. QED
  BY <1>1, <1>2, <1>3

LEMMA AddPlayerOwned ==
  ASSUME NEW n \in Nat \ {0}, NEW st \in Server(n), NEW c \in 0 .. n - 1, NEW j \in Locals,
         NEW denied \in BOOLEAN, NEW d, d = SV_AddPlayer(st, c, j, denied),
         NEW live, Owned(st, live), c \in live, c \notin Bots(st)
  PROVE  /\ Owned(d, live) /\ Connected(d) = Connected(st)
         /\ \A e \in Clients(st) \ {c} : d.clients[e] = st.clients[e]
         /\ \A p \in InUse(st) : d.players[p] = st.players[p]
         /\ Held(st, c) \subseteq Held(d, c)
<1>1. /\ Clients(st) = 0 .. n - 1 /\ Players(st) = 0 .. n - 1
      /\ \A e \in 0 .. n - 1 : Held(st, e) = {i \in Locals : Lp(st, e, i) # None}
      /\ live \subseteq 0 .. n - 1
  BY SlotFields, HeldIs DEF Owned, Held1
<1>2. /\ d \in Server(n) /\ SameFlags(d, st)
      /\ d.clients[c].state = st.clients[c].state
      /\ d.clients[c].remoteAddress = st.clients[c].remoteAddress
      /\ \/ d = st
         \/ /\ d.clients = st.clients /\ d.playing = st.playing
            /\ \E p \in Unused(st) : /\ ~d.players[p].inUse
                                     /\ \A q \in Players(st) \ {p} : d.players[q] = st.players[q]
         \/ j \notin Held(st, c) /\ \E p \in Unused(st) : Linked(d, st, c, j, p)
  BY AddPlayerResult
<1>3. /\ Clients(d) = 0 .. n - 1 /\ Players(d) = 0 .. n - 1
      /\ \A e \in 0 .. n - 1 : Held(d, e) = {i \in Locals : Lp(d, e, i) # None}
  <2>1. Clients(d) = 0 .. n - 1 /\ Players(d) = 0 .. n - 1
    BY <1>2, SlotFields
  <2>2. \A e : Held(d, e) = {i \in Locals : Lp(d, e, i) # None}
    BY DEF Held, Lp
  <2>3. QED
    BY <2>1, <2>2
<1>4. CASE d = st
  BY <1>4
<1>5. ASSUME d.clients = st.clients, d.playing = st.playing,
             NEW p \in Unused(st), ~d.players[p].inUse,
             \A q \in Players(st) \ {p} : d.players[q] = st.players[q]
      PROVE  /\ Owned(d, live) /\ Connected(d) = Connected(st)
             /\ \A e \in Clients(st) \ {c} : d.clients[e] = st.clients[e]
             /\ \A q \in InUse(st) : d.players[q] = st.players[q]
             /\ Held(st, c) \subseteq Held(d, c)
  <2>1. /\ \A e : Held(d, e) = Held(st, e)
        /\ \A e, i : Lp(d, e, i) = Lp(st, e, i)
    BY <1>5 DEF Held, Lp
  <2>2. InUse(d) = InUse(st) /\ p \notin InUse(st) /\ InUse(st) \subseteq Players(st)
    BY <1>1, <1>3, <1>5 DEF InUse, Unused
  <2>3. \A q \in InUse(st) : d.players[q] = st.players[q]
    BY <1>5, <2>2
  <2>4. Held1(d, live)
    <3>1. ASSUME NEW e \in live, NEW i \in Held(d, e)
          PROVE  d.players[Lp(d, e, i)].inUse /\ d.players[Lp(d, e, i)].client = e
      <4>1. st.players[Lp(st, e, i)].inUse /\ st.players[Lp(st, e, i)].client = e
        BY <2>1, <3>1 DEF Owned, Held1
      <4>2. Lp(st, e, i) \in InUse(st)
        BY <1>1, <2>1, <3>1, <4>1, HeldIs DEF InUse
      <4>3. QED
        BY <2>1, <2>3, <4>1, <4>2
    <3>2. ASSUME NEW q \in InUse(d)
          PROVE  /\ d.players[q].client \in live
                 /\ \E i \in Held(d, d.players[q].client) : Lp(d, d.players[q].client, i) = q
      BY <2>1, <2>2, <2>3 DEF Owned, Held1
    <3>3. \A e \in live : \A i, k \in Held(d, e) : Lp(d, e, i) = Lp(d, e, k) => i = k
      BY <2>1 DEF Owned, Held1
    <3>4. QED
      BY <1>1, <1>3, <3>1, <3>2, <3>3 DEF Held1
  <2>5. /\ Connected(d) = Connected(st) /\ Bots(d) = Bots(st) /\ OneSlot(d)
    BY <1>1, <1>3, <1>5, SameSlots DEF Owned
  <2>6. Known(d) /\ BotsHold(d)
    BY <1>2, <1>5, <2>1, <2>2, <2>5 DEF Owned, Known, BotsHold, SameFlags
  <2>7. QED
    BY <1>5, <2>1, <2>3, <2>4, <2>5, <2>6 DEF Owned
<1>6. ASSUME j \notin Held(st, c), NEW p \in Unused(st), Linked(d, st, c, j, p)
      PROVE  /\ Owned(d, live) /\ Connected(d) = Connected(st)
             /\ \A e \in Clients(st) \ {c} : d.clients[e] = st.clients[e]
             /\ \A q \in InUse(st) : d.players[q] = st.players[q]
             /\ Held(st, c) \subseteq Held(d, c)
  <2>1. /\ d.players[p].inUse /\ d.players[p].client = c
        /\ \A q \in 0 .. n - 1 \ {p} : d.players[q] = st.players[q]
        /\ Lp(d, c, j) = p
        /\ \A i \in Locals \ {j} : Lp(d, c, i) = Lp(st, c, i)
        /\ \A e \in 0 .. n - 1 \ {c} : d.clients[e] = st.clients[e]
        /\ d.playing = st.playing \cup {p}
    BY <1>1, <1>6 DEF Linked
  <2>2. /\ p \in 0 .. n - 1 /\ p # None /\ p \notin InUse(st)
        /\ InUse(st) \subseteq 0 .. n - 1 /\ InUse(d) \subseteq 0 .. n - 1
        /\ InUse(d) = InUse(st) \cup {p}
    <3>1. p \in 0 .. n - 1 /\ p # None
      BY <1>1, <1>6 DEF Unused, None
    <3>2. QED
      BY <1>1, <1>3, <1>6, <2>1, <3>1 DEF InUse, Unused
  <2>3. /\ \A e \in 0 .. n - 1 \ {c} : Held(d, e) = Held(st, e) /\ \A i : Lp(d, e, i) = Lp(st, e, i)
        /\ Held(d, c) = Held(st, c) \cup {j}
    <3>1. Held(d, c) = Held(st, c) \cup {j}
      BY <1>1, <1>3, <2>1, <2>2
    <3>2. QED
      BY <2>1, <3>1 DEF Held, Lp
  <2>4. \A q \in InUse(st) : d.players[q] = st.players[q]
    BY <2>1, <2>2
  <2>5. Held1(d, live)
    <3>1. ASSUME NEW e \in live, NEW i \in Held(d, e)
          PROVE  d.players[Lp(d, e, i)].inUse /\ d.players[Lp(d, e, i)].client = e
      <4>1. CASE e = c /\ i = j
        BY <2>1, <4>1
      <4>2. CASE i \in Held(st, e) /\ Lp(d, e, i) = Lp(st, e, i)
        <5>1. st.players[Lp(st, e, i)].inUse /\ st.players[Lp(st, e, i)].client = e
          BY <3>1, <4>2 DEF Owned, Held1
        <5>2. Lp(st, e, i) \in InUse(st)
          BY <1>1, <3>1, <4>2, <5>1, HeldIs DEF InUse
        <5>3. QED
          BY <2>4, <4>2, <5>1, <5>2
      <4>3. QED
        BY <1>1, <1>3, <2>1, <2>3, <3>1, <4>1, <4>2
    <3>2. ASSUME NEW e \in live, NEW i \in Held(d, e), NEW k \in Held(d, e),
                 Lp(d, e, i) = Lp(d, e, k)
          PROVE  i = k
      <4>1. \A m \in Held(st, e) : Lp(st, e, m) # p
        <5>1. ASSUME NEW m \in Held(st, e), Lp(st, e, m) = p PROVE FALSE
          <6>1. st.players[p].inUse
            BY <3>2, <5>1 DEF Owned, Held1
          <6>2. QED
            BY <1>1, <2>2, <6>1 DEF InUse
        <5>2. QED
          BY <5>1
      <4>2. \A l, m \in Held(st, e) : Lp(st, e, l) = Lp(st, e, m) => l = m
        BY <3>2 DEF Owned, Held1
      <4>3. CASE e = c
        BY <1>1, <1>6, <2>1, <2>3, <3>2, <4>1, <4>2, <4>3
      <4>4. CASE e # c
        BY <1>1, <2>3, <3>2, <4>2, <4>4
      <4>5. QED
        BY <4>3, <4>4
    <3>3. ASSUME NEW q \in InUse(d)
          PROVE  /\ d.players[q].client \in live
                 /\ \E i \in Held(d, d.players[q].client) : Lp(d, d.players[q].client, i) = q
      <4>1. CASE q = p
        BY <2>1, <2>3, <4>1
      <4>2. CASE q \in InUse(st)
        <5>1. PICK e \in live : e = st.players[q].client
          BY <4>2 DEF Owned, Held1
        <5>2. PICK i \in Held(st, e) : Lp(st, e, i) = q
          BY <4>2, <5>1 DEF Owned, Held1
        <5>3. i \in Held(d, e) /\ Lp(d, e, i) = q
          BY <1>1, <1>6, <2>1, <2>3, <5>1, <5>2
        <5>4. QED
          BY <2>4, <4>2, <5>1, <5>3
      <4>3. QED
        BY <2>2, <4>1, <4>2
    <3>4. QED
      BY <1>1, <1>3, <3>1, <3>2, <3>3 DEF Held1
  <2>6. /\ Connected(d) = Connected(st) /\ Bots(d) = Bots(st) /\ OneSlot(d)
    <3>1. \A e \in 0 .. n - 1 : /\ d.clients[e].state = st.clients[e].state
                                /\ d.clients[e].remoteAddress = st.clients[e].remoteAddress
      BY <1>2, <2>1
    <3>2. QED
      BY <1>1, <1>3, <3>1, SameSlots DEF Owned
  <2>7. Known(d)
    BY <1>2, <2>1, <2>2 DEF Owned, Known, SameFlags
  <2>8. BotsHold(d)
    <3>1. \A e \in Bots(st) : e \in 0 .. n - 1 \ {c}
      BY <1>1 DEF Bots, Connected
    <3>2. QED
      BY <2>3, <2>6, <3>1 DEF Owned, BotsHold
  <2>9. QED
    BY <1>1, <2>1, <2>3, <2>4, <2>5, <2>6, <2>7, <2>8 DEF Owned
<1>7. QED
  BY <1>2, <1>4, <1>5, <1>6

(***************************************************************************)
(* A player leaves.                                                        *)
(***************************************************************************)
ToldOf(st, p) == [st EXCEPT !.playing = @ \ {p}, !.spurious = @ \/ p \notin st.playing]
LeftOf(st, c, p) == [Unlink(ToldOf(st, p), c, p) EXCEPT !.players[p].inUse = FALSE]

\* Player p is no longer in use, and nothing but its client's slot has changed with it.
Gone(d, st, c, p) ==
  /\ d.playing = st.playing \ {p} /\ d.spurious = (st.spurious \/ p \notin st.playing)
  /\ d.undefined = st.undefined
  /\ ~d.players[p].inUse
  /\ \A q \in Players(st) \ {p} : d.players[q] = st.players[q]
  /\ \A e \in Clients(st) \ {c} : d.clients[e] = st.clients[e]
  /\ d.clients[c].remoteAddress = st.clients[c].remoteAddress

Unlinked(d, st, c, p) ==
  \A i \in Locals : Lp(d, c, i) = IF Lp(st, c, i) = p THEN None ELSE Lp(st, c, i)

LEMMA ToldResult ==
  ASSUME NEW n \in Nat \ {0}, NEW st \in Server(n), NEW p, NEW d, d = ToldOf(st, p)
  PROVE  /\ d \in Server(n) /\ d.clients = st.clients /\ d.players = st.players
         /\ d.playing = st.playing \ {p} /\ d.spurious = (st.spurious \/ p \notin st.playing)
         /\ d.replaced = st.replaced /\ d.dangling = st.dangling
         /\ d.undefined = st.undefined
<1> DEFINE q == st.playing \ {p}
           s == st.spurious \/ p \notin st.playing
<1>1. q \subseteq Nat /\ s \in BOOLEAN
  BY SlotFields
<1>2. d = [st EXCEPT !.playing = q, !.spurious = s]
  BY DEF ToldOf, Server
<1> HIDE DEF q, s
<1>3. /\ d \in Server(n) /\ d.clients = st.clients /\ d.players = st.players
      /\ d.playing = q /\ d.spurious = s
      /\ d.replaced = st.replaced /\ d.dangling = st.dangling
      /\ d.undefined = st.undefined
  BY <1>1, <1>2 DEF Server
<1>4. QED
  BY <1>3 DEF q, s

LEMMA UnlinkResult ==
  ASSUME NEW n \in Nat \ {0}, NEW st \in Server(n), NEW c \in 0 .. n - 1, NEW p,
         NEW d, d = Unlink(st, c, p)
  PROVE  /\ d \in Server(n)
         /\ \A e \in 0 .. n - 1 \ {c} : d.clients[e] = st.clients[e]
         /\ d.clients[c].state = st.clients[c].state
         /\ d.clients[c].remoteAddress = st.clients[c].remoteAddress
         /\ Cardinality(Held(st, c)) <= 1 => d = st
         /\ ~(Cardinality(Held(st, c)) <= 1) => Unlinked(d, st, c, p)
         /\ d.players = st.players /\ d.playing = st.playing
         /\ d.spurious = st.spurious
         /\ d.replaced = st.replaced /\ d.dangling = st.dangling
         /\ d.undefined = st.undefined
<1>1. CASE Cardinality(Held(st, c)) <= 1
  BY <1>1 DEF Unlink
<1>2. CASE ~(Cardinality(Held(st, c)) <= 1)
  <2> DEFINE l == [i \in Locals |-> IF st.clients[c].localPlayers[i] = p THEN None
                                    ELSE st.clients[c].localPlayers[i]]
             z == [st.clients[c] EXCEPT !.localPlayers = l]
  <2>1. st.clients[c] \in ClientOf(n) /\ st.clients[c].localPlayers \in [Locals -> None .. n - 1]
        /\ None \in None .. n - 1
    BY SlotFields
  <2>2. l \in [Locals -> None .. n - 1]
    BY <2>1
  <2>3. d = SetClient(st, c, z)
    <3>1. d = [st EXCEPT !.clients[c].localPlayers = l]
      BY <1>2, <2>1 DEF Unlink, Server, ClientOf
    <3> HIDE DEF l
    <3>2. QED
      BY <3>1 DEF SetClient, Server
  <2>4. \A i \in Locals : l[i] = IF Lp(st, c, i) = p THEN None ELSE Lp(st, c, i)
    BY DEF Lp
  <2> HIDE DEF l
  <2>5. /\ z \in ClientOf(n) /\ z.localPlayers = l /\ z.state = st.clients[c].state
        /\ z.remoteAddress = st.clients[c].remoteAddress
    BY <2>1, <2>2 DEF ClientOf
  <2> HIDE DEF z
  <2>6. /\ d \in Server(n) /\ d.clients[c] = z
        /\ \A e \in (0 .. n - 1) \ {c} : d.clients[e] = st.clients[e]
        /\ d.players = st.players /\ d.playing = st.playing /\ d.spurious = st.spurious
        /\ d.replaced = st.replaced /\ d.dangling = st.dangling
        /\ d.undefined = st.undefined
    BY <2>3, <2>5, ChangedClient
  <2>7. \A i \in Locals : Lp(d, c, i) = l[i]
    BY <2>5, <2>6 DEF Lp
  <2>8. QED
    BY <1>2, <2>4, <2>5, <2>6, <2>7 DEF Unlinked
<1>3. QED
  BY <1>1, <1>2

\* What becomes of a server that player p of client c leaves.
PlayerGone(d, st, n, c, p) ==
  /\ d \in Server(n) /\ Gone(d, st, c, p) /\ d.clients[c].state = st.clients[c].state
  /\ Cardinality(Held(st, c)) <= 1 => d.clients = st.clients
  /\ ~(Cardinality(Held(st, c)) <= 1) => Unlinked(d, st, c, p)
  /\ d.players[p].client = st.players[p].client
  /\ d.replaced = st.replaced /\ d.dangling = st.dangling

LEMMA LeftResult ==
  ASSUME NEW n \in Nat \ {0}, NEW st \in Server(n), NEW c \in 0 .. n - 1, NEW p \in 0 .. n - 1,
         NEW d, d = LeftOf(st, c, p)
  PROVE  PlayerGone(d, st, n, c, p)
<1>1. PICK t : t = ToldOf(st, p)
  OBVIOUS
<1>2. PICK u : u = Unlink(t, c, p)
  OBVIOUS
<1>3. /\ t \in Server(n) /\ t.clients = st.clients /\ t.players = st.players
      /\ t.playing = st.playing \ {p} /\ t.spurious = (st.spurious \/ p \notin st.playing)
      /\ t.replaced = st.replaced /\ t.dangling = st.dangling
      /\ t.undefined = st.undefined
  BY <1>1, ToldResult
<1>4. /\ u \in Server(n)
      /\ \A e \in 0 .. n - 1 \ {c} : u.clients[e] = t.clients[e]
      /\ u.clients[c].state = t.clients[c].state
      /\ u.clients[c].remoteAddress = t.clients[c].remoteAddress
      /\ Cardinality(Held(t, c)) <= 1 => u = t
      /\ ~(Cardinality(Held(t, c)) <= 1) => Unlinked(u, t, c, p)
      /\ u.players = t.players /\ u.playing = t.playing
      /\ u.spurious = t.spurious
      /\ u.replaced = t.replaced /\ u.dangling = t.dangling
      /\ u.undefined = t.undefined
  BY <1>2, <1>3, UnlinkResult
<1> DEFINE x == [u.players[p] EXCEPT !.inUse = FALSE]
<1>5. x \in PlayerOf(n) /\ ~x.inUse /\ x.client = u.players[p].client
  <2>1. u.players[p] \in PlayerOf(n)
    BY <1>4, SlotFields
  <2>2. QED
    BY <2>1 DEF PlayerOf
<1>6. d = SetPlayer(u, p, x)
  BY <1>1, <1>2, <1>4 DEF LeftOf, SetPlayer, Server
<1> HIDE DEF x
<1>7. /\ d \in Server(n) /\ d.players[p] = x
      /\ \A q \in (0 .. n - 1) \ {p} : d.players[q] = u.players[q]
      /\ d.clients = u.clients /\ d.playing = u.playing /\ d.spurious = u.spurious
      /\ d.replaced = u.replaced /\ d.dangling = u.dangling
      /\ d.undefined = u.undefined
  BY <1>4, <1>5, <1>6, ChangedPlayer
<1>8. Clients(st) = 0 .. n - 1 /\ Players(st) = 0 .. n - 1
  BY SlotFields
<1>9. Gone(d, st, c, p)
  BY <1>3, <1>4, <1>5, <1>7, <1>8 DEF Gone
<1>10. Held(t, c) = Held(st, c)
  BY <1>3 DEF Held
<1>11. ~(Cardinality(Held(st, c)) <= 1) => Unlinked(d, st, c, p)
  BY <1>3, <1>4, <1>7, <1>10 DEF Unlinked, Lp
<1>12. Cardinality(Held(st, c)) <= 1 => d.clients = st.clients
  BY <1>3, <1>4, <1>7, <1>10
<1>13. /\ d.clients[c].state = st.clients[c].state
       /\ d.players[p].client = st.players[p].client
       /\ d.replaced = st.replaced /\ d.dangling = st.dangling
  BY <1>3, <1>4, <1>5, <1>7
<1>14. QED
  BY <1>7, <1>9, <1>11, <1>12, <1>13 DEF PlayerGone

LEMMA BotFreed ==
  ASSUME NEW n \in Nat \ {0}, NEW st \in Server(n), NEW p \in 0 .. n - 1,
         NEW c \in 0 .. n - 1, st.players[p].client = c,
         NEW d, d = SV_BotFreeClient(st, p)
  PROVE  /\ d \in Server(n) /\ d.clients[c].state = "free"
         /\ d.clients[c].remoteAddress = st.clients[c].remoteAddress
         /\ Lp(d, c, 0) = None /\ \A i \in Locals \ {0} : Lp(d, c, i) = Lp(st, c, i)
         /\ \A e \in (0 .. n - 1) \ {c} : d.clients[e] = st.clients[e]
         /\ d.players[p].inUse = st.players[p].inUse
         /\ \A q \in (0 .. n - 1) \ {p} : d.players[q] = st.players[q]
         /\ d.playing = st.playing /\ d.spurious = st.spurious
         /\ d.replaced = st.replaced /\ d.dangling = st.dangling
         /\ d.undefined = st.undefined
<1> DEFINE l == [st.clients[c].localPlayers EXCEPT ![0] = None]
           z == [st.clients[c] EXCEPT !.localPlayers = l, !.state = "free"]
           x == [st.players[p] EXCEPT !.client = None]
           b == SetClient(st, c, z)
<1>1. /\ st.clients[c] \in ClientOf(n) /\ st.clients[c].localPlayers \in [Locals -> None .. n - 1]
      /\ None \in None .. n - 1 /\ st.players[p] \in PlayerOf(n) /\ 0 \in Locals
  BY SlotFields, HeldIs
<1>2. /\ l \in [Locals -> None .. n - 1] /\ l[0] = None
      /\ \A i \in Locals \ {0} : l[i] = st.clients[c].localPlayers[i]
  BY <1>1
<1>3. x \in PlayerOf(n) /\ x.inUse = st.players[p].inUse
  BY <1>1 DEF PlayerOf
<1>4. d = SetPlayer(b, p, x)
  <2>1. d = [[[st EXCEPT !.clients[c].localPlayers[0] = None] EXCEPT !.clients[c].state = "free"]
               EXCEPT !.players[p].client = None]
    BY DEF SV_BotFreeClient, SV_FreeClient
  <2>2. [[st EXCEPT !.clients[c].localPlayers[0] = None] EXCEPT !.clients[c].state = "free"] = b
    BY <1>1 DEF SetClient, Server, ClientOf
  <2>3. b.players = st.players /\ p \in DOMAIN b.players
    BY DEF SetClient, Server
  <2> HIDE DEF b
  <2>4. QED
    BY <2>1, <2>2, <2>3 DEF SetPlayer
<1> HIDE DEF l, x
<1>5. /\ z \in ClientOf(n) /\ z.localPlayers = l /\ z.state = "free"
      /\ z.remoteAddress = st.clients[c].remoteAddress
  BY <1>1, <1>2 DEF ClientOf
<1> HIDE DEF z
<1>6. /\ b \in Server(n) /\ b.clients[c] = z
      /\ \A e \in (0 .. n - 1) \ {c} : b.clients[e] = st.clients[e]
      /\ b.players = st.players /\ b.playing = st.playing /\ b.spurious = st.spurious
      /\ b.replaced = st.replaced /\ b.dangling = st.dangling
      /\ b.undefined = st.undefined
  BY <1>5, ChangedClient
<1> HIDE DEF b
<1>7. /\ d \in Server(n) /\ d.players[p] = x
      /\ \A q \in (0 .. n - 1) \ {p} : d.players[q] = b.players[q]
      /\ d.clients = b.clients /\ d.playing = b.playing /\ d.spurious = b.spurious
      /\ d.replaced = b.replaced /\ d.dangling = b.dangling
      /\ d.undefined = b.undefined
  BY <1>3, <1>4, <1>6, ChangedPlayer
<1>8. Lp(d, c, 0) = None /\ \A i \in Locals \ {0} : Lp(d, c, i) = Lp(st, c, i)
  BY <1>2, <1>5, <1>6, <1>7 DEF Lp
<1>9. QED
  BY <1>3, <1>5, <1>6, <1>7, <1>8

LEMMA DropPlayerResult ==
  ASSUME NEW n \in Nat \ {0}, NEW st \in Server(n), NEW p \in 0 .. n - 1, NEW agreed \in BOOLEAN,
         NEW d, d = SV_DropPlayer(st, p, agreed), NEW c, c = st.players[p].client
  PROVE  /\ d \in Server(n) /\ d.replaced = st.replaced /\ d.dangling = st.dangling
         /\ c # None =>
              /\ c \in 0 .. n - 1
              /\ \/ /\ d = st
                    /\ \/ st.clients[c].state = "zombie"
                       \/ ~agreed /\ Cardinality(Held(st, c)) # 1
                 \/ /\ Gone(d, st, c, p) /\ st.clients[c].state # "zombie"
                    /\ \/ /\ st.clients[c].remoteAddress = NA_BOT /\ d.clients[c].state = "free"
                          /\ Lp(d, c, 0) = None
                          /\ Cardinality(Held(st, c)) <= 1 =>
                               \A i \in Locals \ {0} : Lp(d, c, i) = Lp(st, c, i)
                       \/ /\ Cardinality(Held(st, c)) = 1 /\ d.clients[c].state = "zombie"
                          /\ \A i \in Locals : Lp(d, c, i) = Lp(st, c, i)
                       \/ /\ Cardinality(Held(st, c)) # 1
                          /\ st.clients[c].remoteAddress # NA_BOT
                          /\ d.clients[c].state = st.clients[c].state
                          /\ ~(Cardinality(Held(st, c)) <= 1) => Unlinked(d, st, c, p)
<1>1. /\ st.players[p].client \in None .. n - 1 /\ None .. n - 1 = {None} \cup (0 .. n - 1)
      /\ Clients(st) = 0 .. n - 1 /\ Players(st) = 0 .. n - 1
  BY SlotFields
<1>2. CASE c = None
  <2>1. d = [st EXCEPT !.undefined = TRUE]
    BY <1>2 DEF SV_DropPlayer
  <2>2. QED
    BY <1>2, <2>1 DEF Server
<1>3. CASE c # None
  <2>1. c \in 0 .. n - 1
    BY <1>1, <1>3
  <2> DEFINE last == Cardinality(Held(st, c)) = 1
  <2>1a. PICK gone : gone = LeftOf(st, c, p)
    OBVIOUS
  <2>2. d = IF st.clients[c].state = "zombie" \/ (~agreed /\ ~last) THEN st
            ELSE IF st.clients[c].remoteAddress = NA_BOT THEN SV_BotFreeClient(gone, p)
            ELSE IF last THEN [gone EXCEPT !.clients[c].state = "zombie"]
            ELSE gone
    BY <1>3, <2>1a DEF SV_DropPlayer, AlreadyDropped, LeftOf, ToldOf
  <2>3. /\ gone \in Server(n) /\ Gone(gone, st, c, p)
        /\ gone.clients[c].state = st.clients[c].state
        /\ Cardinality(Held(st, c)) <= 1 => gone.clients = st.clients
        /\ ~(Cardinality(Held(st, c)) <= 1) => Unlinked(gone, st, c, p)
        /\ gone.players[p].client = st.players[p].client
        /\ gone.replaced = st.replaced /\ gone.dangling = st.dangling
    <3>1. n \in Nat \ {0} /\ st \in Server(n) /\ c \in 0 .. n - 1 /\ p \in 0 .. n - 1
      BY <2>1
    <3>2. PlayerGone(gone, st, n, c, p)
      BY ONLY <3>1, <2>1a, LeftResult
    <3>3. QED
      BY <3>2 DEF PlayerGone
  <2>4. CASE st.clients[c].state = "zombie" \/ (~agreed /\ ~last)
    BY <1>3, <2>1, <2>2, <2>4
  <2>5. CASE /\ ~(st.clients[c].state = "zombie" \/ (~agreed /\ ~last))
             /\ st.clients[c].remoteAddress = NA_BOT
    <3>1. d = SV_BotFreeClient(gone, p) /\ gone.players[p].client = c
      BY <2>2, <2>3, <2>5
    <3>2. /\ d \in Server(n) /\ d.clients[c].state = "free"
          /\ d.clients[c].remoteAddress = gone.clients[c].remoteAddress
          /\ Lp(d, c, 0) = None /\ \A i \in Locals \ {0} : Lp(d, c, i) = Lp(gone, c, i)
          /\ \A e \in (0 .. n - 1) \ {c} : d.clients[e] = gone.clients[e]
          /\ d.players[p].inUse = gone.players[p].inUse
          /\ \A q \in (0 .. n - 1) \ {p} : d.players[q] = gone.players[q]
          /\ d.playing = gone.playing /\ d.spurious = gone.spurious
          /\ d.replaced = gone.replaced /\ d.dangling = gone.dangling
          /\ d.undefined = gone.undefined
      BY <2>1, <2>3, <3>1, BotFreed
    <3>3. Gone(d, st, c, p)
      BY <1>1, <2>3, <3>2 DEF Gone
    <3>4. Cardinality(Held(st, c)) <= 1 => \A i \in Locals \ {0} : Lp(d, c, i) = Lp(st, c, i)
      BY <2>3, <3>2 DEF Lp
    <3>5. QED
      BY <1>3, <2>1, <2>3, <2>5, <3>2, <3>3, <3>4
  <2>6. CASE /\ ~(st.clients[c].state = "zombie" \/ (~agreed /\ ~last))
             /\ st.clients[c].remoteAddress # NA_BOT /\ last
    <3> DEFINE z == [gone.clients[c] EXCEPT !.state = "zombie"]
    <3>1. d = [gone EXCEPT !.clients[c].state = "zombie"]
      BY <2>2, <2>6
    <3>2. gone.clients[c] \in ClientOf(n)
      BY <2>1, <2>3, SlotFields
    <3>3. /\ z \in ClientOf(n) /\ z.state = "zombie"
          /\ z.remoteAddress = gone.clients[c].remoteAddress
          /\ z.localPlayers = gone.clients[c].localPlayers
      BY <3>2 DEF ClientOf
    <3>4. d = SetClient(gone, c, z)
      BY <2>1, <2>3, <3>1 DEF SetClient, Server
    <3> HIDE DEF z
    <3>5. /\ d \in Server(n) /\ d.clients[c] = z
          /\ \A e \in (0 .. n - 1) \ {c} : d.clients[e] = gone.clients[e]
          /\ d.players = gone.players /\ d.playing = gone.playing
          /\ d.spurious = gone.spurious
          /\ d.replaced = gone.replaced /\ d.dangling = gone.dangling
          /\ d.undefined = gone.undefined
      <4>1. n \in Nat \ {0} /\ gone \in Server(n) /\ c \in 0 .. n - 1 /\ z \in ClientOf(n)
        BY <2>1, <2>3, <3>3
      <4>2. ClientSet(d, gone, n, c, z)
        BY ONLY <4>1, <3>4, ClientIsSet
      <4>3. QED
        BY <4>2 DEF ClientSet
    <3>6. Gone(d, st, c, p)
      BY <1>1, <2>3, <3>3, <3>5 DEF Gone
    <3>7. \A i \in Locals : Lp(d, c, i) = Lp(st, c, i)
      <4>1. gone.clients = st.clients
        BY <2>3, <2>6
      <4>2. QED
        BY <3>3, <3>5, <4>1 DEF Lp
    <3>8. QED
      BY <1>3, <2>1, <2>3, <2>6, <3>3, <3>5, <3>6, <3>7
  <2>7. CASE /\ ~(st.clients[c].state = "zombie" \/ (~agreed /\ ~last))
             /\ st.clients[c].remoteAddress # NA_BOT /\ ~last
    <3>1. d = gone
      BY <2>2, <2>7
    <3>2. QED
      BY <1>3, <2>1, <2>3, <2>7, <3>1
  <2>8. QED
    BY <2>4, <2>5, <2>6, <2>7
<1>4. QED
  BY <1>2, <1>3

\* How many players a client has that has one.
LEMMA HeldCount ==
  ASSUME NEW n \in Nat \ {0}, NEW st \in Server(n), NEW c \in 0 .. n - 1, NEW j \in Held(st, c)
  PROVE  /\ Cardinality(Held(st, c)) = 1 <=> Held(st, c) = {j}
         /\ Cardinality(Held(st, c)) <= 1 <=> Held(st, c) = {j}
<1>1. IsFiniteSet(Held(st, c))
  BY HeldIs
<1>2. Cardinality(Held(st, c)) \in Nat /\ Cardinality(Held(st, c)) # 0
  BY <1>1, FS_CardinalityType, FS_EmptySet
<1>3. Cardinality(Held(st, c)) = 1 <=> Held(st, c) = {j}
  BY <1>1, FS_Singleton
<1>4. QED
  BY <1>2, <1>3

\* Player p of client c leaves, if it agrees: the client keeps its others or is gone.
PlayerLeft(d, st, n, p, c, agreed) ==
  /\ d \in Server(n) /\ Ordered(d) /\ c \in Connected(st)
  /\ Connected(d) \subseteq Connected(st)
  /\ \A e \in Clients(st) \ {c} : d.clients[e] = st.clients[e]
  /\ \A q \in Players(st) \ {p} : d.players[q] = st.players[q]
  /\ \/ d = st /\ ~agreed
     \/ \E j \in Held(st, c) :
          /\ Lp(st, c, j) = p
          /\ \/ /\ c \in Connected(d) /\ Held(d, c) = Held(st, c) \ {j}
                /\ \A i \in Held(d, c) : Lp(d, c, i) = Lp(st, c, i)
             \/ c \notin Connected(d) /\ Held(st, c) = {j} /\ Held(d, c) \subseteq {j}

LEMMA DropPlayerOwned ==
  ASSUME NEW n \in Nat \ {0}, NEW st \in Server(n), Ordered(st), NEW p \in InUse(st),
         NEW agreed \in BOOLEAN, NEW d, d = SV_DropPlayer(st, p, agreed),
         NEW c, c = st.players[p].client
  PROVE  PlayerLeft(d, st, n, p, c, agreed)
<1>1. /\ Clients(st) = 0 .. n - 1 /\ Players(st) = 0 .. n - 1
      /\ \A e : Held(st, e) = {i \in Locals : Lp(st, e, i) # None}
  BY SlotFields DEF Held, Lp
<1>2. /\ Held1(st, Connected(st)) /\ Known(st) /\ OneSlot(st) /\ BotsHold(st)
      /\ \A e \in Connected(st) : Held(st, e) # {}
  BY DEF Ordered, Owned
<1>3. p \in 0 .. n - 1 /\ st.players[p].inUse
  BY <1>1 DEF InUse
<1>4. c \in Connected(st) /\ c \in 0 .. n - 1 /\ c # None /\ st.clients[c].state = "connected"
  BY <1>1, <1>2 DEF Held1, Connected, None
<1>5. PICK j \in Held(st, c) : Lp(st, c, j) = p
  BY <1>2 DEF Held1
<1>6. \A i \in Held(st, c) : Lp(st, c, i) = p => i = j
  BY <1>2, <1>4, <1>5 DEF Held1
<1>7. /\ Cardinality(Held(st, c)) = 1 <=> Held(st, c) = {j}
      /\ Cardinality(Held(st, c)) <= 1 <=> Held(st, c) = {j}
  BY <1>4, <1>5, HeldCount
<1>8. /\ d \in Server(n)
      /\ \/ d = st /\ ~agreed
         \/ /\ Gone(d, st, c, p)
            /\ \/ /\ st.clients[c].remoteAddress = NA_BOT /\ d.clients[c].state = "free"
                  /\ Lp(d, c, 0) = None
                  /\ Cardinality(Held(st, c)) <= 1 =>
                       \A i \in Locals \ {0} : Lp(d, c, i) = Lp(st, c, i)
               \/ /\ Cardinality(Held(st, c)) = 1 /\ d.clients[c].state = "zombie"
                  /\ \A i \in Locals : Lp(d, c, i) = Lp(st, c, i)
               \/ /\ Cardinality(Held(st, c)) # 1
                  /\ st.clients[c].remoteAddress # NA_BOT
                  /\ d.clients[c].state = st.clients[c].state
                  /\ ~(Cardinality(Held(st, c)) <= 1) => Unlinked(d, st, c, p)
  BY <1>3, <1>4, DropPlayerResult
<1>9. CASE d = st /\ ~agreed
  BY <1>1, <1>4, <1>9 DEF PlayerLeft
<1>10. CASE /\ Gone(d, st, c, p)
            /\ \/ Held(st, c) = {j} /\ d.clients[c].state \in {"free", "zombie"}
                  /\ Held(d, c) \subseteq {j}
               \/ /\ d.clients[c].state = "connected" /\ Held(d, c) = Held(st, c) \ {j}
                  /\ Held(d, c) # {} /\ \A i \in Held(d, c) : Lp(d, c, i) = Lp(st, c, i)
                  /\ st.clients[c].remoteAddress # NA_BOT
  <2>1. Clients(d) = 0 .. n - 1 /\ Players(d) = 0 .. n - 1
    BY <1>8, SlotFields
  <2>2. /\ d.playing = st.playing \ {p} /\ d.spurious = (st.spurious \/ p \notin st.playing)
        /\ d.undefined = st.undefined
        /\ ~d.players[p].inUse
        /\ \A q \in 0 .. n - 1 \ {p} : d.players[q] = st.players[q]
        /\ \A e \in 0 .. n - 1 \ {c} : d.clients[e] = st.clients[e]
        /\ d.clients[c].remoteAddress = st.clients[c].remoteAddress
    BY <1>1, <1>10 DEF Gone
  <2>3. InUse(d) = InUse(st) \ {p} /\ \A q \in InUse(d) : d.players[q] = st.players[q]
    BY <1>1, <1>3, <2>1, <2>2 DEF InUse
  <2>4. /\ Connected(st) \ {c} \subseteq Connected(d) /\ Connected(d) \subseteq Connected(st)
        /\ c \in Connected(d) <=> d.clients[c].state = "connected"
        /\ Connected(st) \subseteq 0 .. n - 1
    BY <1>1, <1>4, <2>1, <2>2 DEF Connected
  <2>5. \A e \in 0 .. n - 1 \ {c} : Held(d, e) = Held(st, e) /\ \A i : Lp(d, e, i) = Lp(st, e, i)
    BY <2>2 DEF Held, Lp
  <2>6. \A i \in Held(d, c) : c \in Connected(d) =>
          i \in Held(st, c) /\ i # j /\ Lp(d, c, i) = Lp(st, c, i)
    BY <1>10, <2>4
  <2>7. ASSUME NEW e \in Connected(d), NEW i \in Held(d, e)
        PROVE  /\ i \in Held(st, e) /\ Lp(d, e, i) = Lp(st, e, i) /\ Lp(st, e, i) # p
               /\ Lp(st, e, i) \in InUse(st) /\ st.players[Lp(st, e, i)].client = e
    <3>1. i \in Held(st, e) /\ Lp(d, e, i) = Lp(st, e, i)
      BY <2>4, <2>5, <2>6, <2>7
    <3>2. /\ st.players[Lp(st, e, i)].inUse /\ st.players[Lp(st, e, i)].client = e
          /\ Lp(st, e, i) \in 0 .. n - 1
      BY <1>2, <2>4, <3>1, HeldIs DEF Held1
    <3>3. Lp(st, e, i) # p
      BY <1>6, <2>6, <2>7, <3>1, <3>2
    <3>4. QED
      BY <1>1, <3>1, <3>2, <3>3 DEF InUse
  <2>8. Held1(d, Connected(d))
    <3>1. \A e \in Connected(d) : \A i \in Held(d, e) :
            d.players[Lp(d, e, i)].inUse /\ d.players[Lp(d, e, i)].client = e
      BY <2>3, <2>7 DEF InUse
    <3>2. ASSUME NEW e \in Connected(d), NEW i \in Held(d, e), NEW k \in Held(d, e),
                 Lp(d, e, i) = Lp(d, e, k)
          PROVE  i = k
      BY <1>2, <2>4, <2>7, <3>2 DEF Held1
    <3>3. ASSUME NEW q \in InUse(d)
          PROVE  /\ d.players[q].client \in Connected(d)
                 /\ \E i \in Held(d, d.players[q].client) : Lp(d, d.players[q].client, i) = q
      <4>1. PICK e \in Connected(st) : e = st.players[q].client
        BY <1>2, <2>3 DEF Held1
      <4>2. PICK i \in Held(st, e) : Lp(st, e, i) = q
        BY <1>2, <2>3, <4>1 DEF Held1
      <4>3. q # p /\ d.players[q] = st.players[q]
        BY <2>3
      <4>4. CASE e = c
        <5>1. i # j
          BY <1>5, <4>2, <4>3, <4>4
        <5>2. c \in Connected(d) /\ i \in Held(d, c) /\ Lp(d, c, i) = q
          BY <1>10, <2>4, <4>2, <4>4, <5>1
        <5>3. QED
          BY <4>1, <4>3, <4>4, <5>2
      <4>5. CASE e # c
        BY <2>4, <2>5, <4>1, <4>2, <4>3, <4>5
      <4>6. QED
        BY <4>4, <4>5
    <3>4. Connected(d) \subseteq Clients(d)
      BY DEF Connected
    <3>5. QED
      BY <3>1, <3>2, <3>3, <3>4 DEF Held1
  <2>9. Known(d)
    BY <1>2, <2>2, <2>3 DEF Known
  <2>10. OneSlot(d)
    <3>1. \A e \in 0 .. n - 1 : d.clients[e].remoteAddress = st.clients[e].remoteAddress
      BY <2>2
    <3>2. 0 .. n - 1 \ FreeSlots(d) \subseteq 0 .. n - 1 \ FreeSlots(st)
      BY <1>1, <1>4, <2>1, <2>2 DEF FreeSlots
    <3>3. QED
      BY <1>1, <1>2, <2>1, <3>1, <3>2 DEF OneSlot
  <2>11. BotsHold(d)
    <3>1. ASSUME NEW e \in Bots(d) PROVE Held(d, e) = {0}
      <4>1. e \in Connected(d) /\ d.clients[e].remoteAddress = NA_BOT
        BY DEF Bots
      <4>2. e # c
        BY <1>10, <2>2, <2>4, <4>1
      <4>3. e \in Bots(st)
        BY <2>2, <2>4, <4>1, <4>2 DEF Bots
      <4>4. QED
        BY <1>2, <2>4, <2>5, <4>1, <4>2, <4>3 DEF BotsHold
    <3>2. QED
      BY <3>1 DEF BotsHold
  <2>12. \A e \in Connected(d) : Held(d, e) # {}
    BY <1>2, <1>10, <2>4, <2>5
  <2>13. Ordered(d)
    BY <2>8, <2>9, <2>10, <2>11, <2>12 DEF Ordered, Owned
  <2>14. \E k \in Held(st, c) :
                 /\ Lp(st, c, k) = p
                 /\ \/ /\ c \in Connected(d) /\ Held(d, c) = Held(st, c) \ {k}
                       /\ \A i \in Held(d, c) : Lp(d, c, i) = Lp(st, c, i)
                    \/ c \notin Connected(d) /\ Held(st, c) = {k} /\ Held(d, c) \subseteq {k}
    BY <1>5, <1>10, <2>4
  <2>15. QED
    BY <1>1, <1>4, <1>8, <2>2, <2>4, <2>13, <2>14 DEF PlayerLeft
<1>11. ASSUME Gone(d, st, c, p), st.clients[c].remoteAddress = NA_BOT,
              d.clients[c].state = "free", Lp(d, c, 0) = None,
              Cardinality(Held(st, c)) <= 1 =>
                \A i \in Locals \ {0} : Lp(d, c, i) = Lp(st, c, i)
       PROVE  Held(st, c) = {j} /\ Held(d, c) \subseteq {j}
  <2>1. Held(st, c) = {0}
    BY <1>2, <1>4, <1>11 DEF BotsHold, Bots
  <2>2. QED
    BY <1>1, <1>5, <1>7, <1>11, <2>1 DEF Held, Lp
<1>12. ASSUME Cardinality(Held(st, c)) = 1, \A i \in Locals : Lp(d, c, i) = Lp(st, c, i)
       PROVE  Held(st, c) = {j} /\ Held(d, c) \subseteq {j}
  BY <1>1, <1>7, <1>12 DEF Held, Lp
<1>13. ASSUME Cardinality(Held(st, c)) # 1, ~(Cardinality(Held(st, c)) <= 1) => Unlinked(d, st, c, p)
       PROVE  /\ Held(d, c) = Held(st, c) \ {j} /\ Held(d, c) # {}
              /\ \A i \in Held(d, c) : Lp(d, c, i) = Lp(st, c, i)
  <2>1. Unlinked(d, st, c, p)
    BY <1>7, <1>13
  <2>2. Held(d, c) = {i \in Locals : Lp(d, c, i) # None}
    BY DEF Held, Lp
  <2>3. Held(d, c) = Held(st, c) \ {j}
    BY <1>1, <1>5, <1>6, <2>1, <2>2 DEF Unlinked
  <2>4. Held(d, c) # {}
    BY <1>5, <1>7, <1>13, <2>3
  <2>5. \A i \in Held(d, c) : Lp(d, c, i) = Lp(st, c, i)
    BY <2>1, <2>2 DEF Unlinked
  <2>6. QED
    BY <2>3, <2>4, <2>5
<1>14. QED
  BY <1>4, <1>8, <1>9, <1>10, <1>11, <1>12, <1>13

(***************************************************************************)
(* A client leaves: its players do, one after another.                     *)
(***************************************************************************)
DropLocal(s, c, j) ==
  IF j \notin Held(s, c) THEN s ELSE SV_DropPlayer(s, s.clients[c].localPlayers[j], TRUE)

LEMMA DropLocalTyped ==
  ASSUME NEW n \in Nat \ {0}, NEW st \in Server(n), NEW c \in 0 .. n - 1, NEW j \in Locals,
         NEW d, d = DropLocal(st, c, j)
  PROVE  d \in Server(n) /\ d.replaced = st.replaced /\ d.dangling = st.dangling
<1>1. CASE j \notin Held(st, c)
  BY <1>1 DEF DropLocal
<1>2. CASE j \in Held(st, c)
  <2>1. PICK p : p = st.clients[c].localPlayers[j]
    OBVIOUS
  <2>2. p \in 0 .. n - 1
    <3>1. Lp(st, c, j) \in 0 .. n - 1
      BY <1>2, HeldIs
    <3>2. QED
      BY <2>1, <3>1 DEF Lp
  <2>3. d = SV_DropPlayer(st, p, TRUE)
    BY <1>2, <2>1 DEF DropLocal
  <2>4. PICK e : e = st.players[p].client
    OBVIOUS
  <2>5. PICK agreed \in BOOLEAN : agreed = TRUE
    OBVIOUS
  <2>6. n \in Nat \ {0} /\ st \in Server(n) /\ d = SV_DropPlayer(st, p, agreed)
    BY <2>3, <2>5
  <2>7. QED
    BY ONLY <2>2, <2>4, <2>6, DropPlayerResult
<1>3. QED
  BY <1>1, <1>2

LEMMA DropClientRun ==
  ASSUME NEW n \in Nat \ {0}, NEW st \in Server(n), NEW c \in 0 .. n - 1
  PROVE  \E run \in [0 .. MAX_SPLITVIEW -> Server(n)] :
            /\ run[0] = st
            /\ \A i \in 0 .. MAX_SPLITVIEW - 1 : run[i + 1] = DropLocal(run[i], c, i)
            /\ run[MAX_SPLITVIEW] = SV_DropClient(st, c)
<1> DEFINE M == MAX_SPLITVIEW
           S == Server(n)
           step == [x \in S \X (0 .. M - 1) |-> DropLocal(x[1], c, x[2])]
           Solves(f) == f = [i \in 0 .. M |->
                               IF i = 0 THEN st ELSE DropLocal(f[i - 1], c, i - 1)]
           it == CHOOSE f : Solves(f)
<1>1. M \in Nat /\ Locals = 0 .. M - 1
  BY SlotsAssumption DEF Locals
<1>2. step \in [S \X (0 .. M - 1) -> S]
  BY <1>1, DropLocalTyped
<1>3. PICK f \in [0 .. M -> S] :
        \A i \in 0 .. M : f[i] = IF i = 0 THEN st ELSE step[<<f[i - 1], i - 1>>]
  <2> HIDE DEF step, M, S
  <2>1. st \in S
    BY DEF S
  <2>2. \E f : IsLoop(f, M, S, st, step)
    BY <1>1, <1>2, <2>1, LoopExists, Zenon
  <2>3. QED
    BY <2>2, Zenon DEF IsLoop
<1>4. \A i \in 0 .. M : f[i] = IF i = 0 THEN st ELSE DropLocal(f[i - 1], c, i - 1)
  <2>1. ASSUME NEW i \in 0 .. M, i # 0
        PROVE  step[<<f[i - 1], i - 1>>] = DropLocal(f[i - 1], c, i - 1)
    <3>1. i - 1 \in 0 .. M - 1 /\ i - 1 \in 0 .. M
      BY <1>1, <2>1
    <3>2. f[i - 1] \in S
      BY <3>1
    <3>3. QED
      BY <3>1, <3>2
  <2> HIDE DEF step
  <2>2. QED
    BY <1>3, <2>1
<1>5. Solves(f)
  <2>1. f = [i \in 0 .. M |-> f[i]]
    BY <1>3
  <2>2. QED
    BY <1>4, <2>1, Zenon
<1>6. Solves(it)
  BY <1>5, Zenon
<1>7. \A i \in 0 .. M : it[i] = f[i]
  <2> DEFINE T == {i \in 0 .. M : it[i] = f[i]}
  <2>1. \A i \in 0 .. M : it[i] = IF i = 0 THEN st ELSE DropLocal(it[i - 1], c, i - 1)
    BY <1>6
  <2> HIDE DEF it, M
  <2>2. 0 \in T
    BY <1>1, <1>4, <2>1
  <2>3. ASSUME NEW i \in 0 .. M, i \in T, i < M PROVE i + 1 \in T
    <3>1. i + 1 \in 0 .. M /\ i + 1 # 0 /\ (i + 1) - 1 = i
      BY <1>1, <2>3
    <3>2. it[i + 1] = DropLocal(it[i], c, i) /\ f[i + 1] = DropLocal(f[i], c, i)
      BY <1>4, <2>1, <3>1
    <3>3. QED
      BY <2>3, <3>1, <3>2
  <2> HIDE DEF T
  <2>4. \A i \in 0 .. M : i \in T
    BY <1>1, <2>2, <2>3, IntervalInduction
  <2>5. QED
    BY <2>4 DEF T
<1>8. SV_DropClient(st, c) = it[M]
  BY Zenon DEF SV_DropClient, Loop, DropLocal
<1>9. M \in 0 .. M /\ 0 \in 0 .. M
  BY <1>1
<1>10. f[M] = SV_DropClient(st, c) /\ f[0] = st
  BY <1>4, <1>7, <1>8, <1>9
<1>11. ASSUME NEW i \in 0 .. M - 1
       PROVE  f[i + 1] = DropLocal(f[i], c, i)
  <2>1. i + 1 \in 0 .. M /\ i + 1 # 0 /\ (i + 1) - 1 = i
    BY <1>1
  <2>2. QED
    BY <1>4, <2>1
<1>12. QED
  BY <1>10, <1>11

LEMMA DropClientTyped ==
  ASSUME NEW n \in Nat \ {0}, NEW st \in Server(n), NEW c \in 0 .. n - 1,
         NEW d, d = SV_DropClient(st, c)
  PROVE  d \in Server(n) /\ d.replaced = st.replaced /\ d.dangling = st.dangling
<1>1. PICK run \in [0 .. MAX_SPLITVIEW -> Server(n)] :
            /\ run[0] = st
            /\ \A i \in 0 .. MAX_SPLITVIEW - 1 : run[i + 1] = DropLocal(run[i], c, i)
            /\ run[MAX_SPLITVIEW] = SV_DropClient(st, c)
  BY DropClientRun
<1>2. MAX_SPLITVIEW \in Nat /\ Locals = 0 .. MAX_SPLITVIEW - 1
  BY SlotsAssumption DEF Locals
<1> DEFINE T == {i \in 0 .. MAX_SPLITVIEW :
                   run[i].replaced = st.replaced /\ run[i].dangling = st.dangling}
<1>3. 0 \in T
  BY <1>1, <1>2
<1>4. ASSUME NEW i \in 0 .. MAX_SPLITVIEW, i \in T, i < MAX_SPLITVIEW PROVE i + 1 \in T
  <2>1. i \in 0 .. MAX_SPLITVIEW - 1 /\ i \in Locals /\ i + 1 \in 0 .. MAX_SPLITVIEW
    BY <1>2, <1>4
  <2>2. run[i] \in Server(n) /\ run[i + 1] = DropLocal(run[i], c, i)
    BY <1>1, <2>1
  <2>3. run[i + 1].replaced = run[i].replaced /\ run[i + 1].dangling = run[i].dangling
    BY <2>1, <2>2, DropLocalTyped
  <2>4. QED
    BY <1>4, <2>1, <2>3
<1>5. \A i \in 0 .. MAX_SPLITVIEW : i \in T
  <2> HIDE DEF T
  <2>1. QED
    BY <1>2, <1>3, <1>4, IntervalInduction
<1>6. MAX_SPLITVIEW \in 0 .. MAX_SPLITVIEW
  BY <1>2
<1>7. QED
  BY <1>1, <1>5, <1>6

\* Who is not client c, and has to do with it, is as before.
Others(s, st, c) ==
  /\ Clients(s) = Clients(st) /\ Players(s) = Players(st)
  /\ \A e \in Clients(st) \ {c} : s.clients[e] = st.clients[e]
  /\ \A q \in Players(st) : st.players[q].client # c => s.players[q] = st.players[q]

\* Client c is being dropped: the first i of its players have left.
Dropping(s, st, c, i) ==
  /\ Ordered(s) /\ Others(s, st, c) /\ Connected(s) \subseteq Connected(st)
  /\ c \in Connected(s) => \A j \in Held(s, c) : j >= i
  /\ c \notin Connected(s) => \A j \in Held(s, c) : j < i

LEMMA DropLocalOwned ==
  ASSUME NEW n \in Nat \ {0}, NEW st \in Server(n), NEW s \in Server(n), NEW c \in 0 .. n - 1,
         NEW i \in Locals, Dropping(s, st, c, i), NEW d, d = DropLocal(s, c, i)
  PROVE  Dropping(d, st, c, i + 1)
<1>1. /\ Clients(s) = 0 .. n - 1 /\ Players(s) = 0 .. n - 1
      /\ Clients(st) = 0 .. n - 1 /\ Players(st) = 0 .. n - 1
  BY SlotFields
<1>2. /\ Ordered(s) /\ Others(s, st, c) /\ Connected(s) \subseteq Connected(st)
      /\ c \in Connected(s) => \A j \in Held(s, c) : j >= i
      /\ c \notin Connected(s) => \A j \in Held(s, c) : j < i
  BY DEF Dropping
<1>3. Held(s, c) \subseteq Locals /\ Locals = 0 .. MAX_SPLITVIEW - 1 /\ MAX_SPLITVIEW \in Nat
      /\ Locals \subseteq Nat
  BY HeldIs
<1>4. CASE i \notin Held(s, c)
  <2>1. d = s
    BY <1>4 DEF DropLocal
  <2>2. \A j \in Held(s, c) : j \in Nat /\ i \in Nat /\ j # i
    BY <1>3, <1>4
  <2>3. ASSUME c \in Connected(s), NEW j \in Held(s, c) PROVE j >= i + 1
    <3>1. j >= i
      BY <1>2, <2>3
    <3>2. QED
      BY <2>2, <3>1
  <2>4. ASSUME c \notin Connected(s), NEW j \in Held(s, c) PROVE j < i + 1
    <3>1. j < i
      BY <1>2, <2>4
    <3>2. QED
      BY <2>2, <3>1
  <2>5. QED
    BY <1>2, <2>1, <2>3, <2>4 DEF Dropping
<1>5. CASE i \in Held(s, c)
  <2>1. c \in Connected(s)
    <3>1. ~(i < i)
      BY <1>3
    <3>2. QED
      BY <1>2, <1>5, <3>1
  <2>2. PICK p : p = Lp(s, c, i)
    OBVIOUS
  <2>3. p \in InUse(s) /\ p \in 0 .. n - 1 /\ c = s.players[p].client
    <3>1. p \in 0 .. n - 1
      BY <1>5, <2>2, HeldIs
    <3>2. s.players[p].inUse /\ s.players[p].client = c
      BY <1>2, <1>5, <2>1, <2>2 DEF Ordered, Owned, Held1
    <3>3. QED
      BY <1>1, <3>1, <3>2 DEF InUse
  <2>4. PICK agreed \in BOOLEAN : agreed = TRUE
    OBVIOUS
  <2>5. d = SV_DropPlayer(s, p, agreed)
    BY <1>5, <2>2, <2>4 DEF DropLocal, Lp
  <2>6. n \in Nat \ {0} /\ s \in Server(n) /\ Ordered(s)
    BY <1>2
  <2>7. /\ d \in Server(n) /\ Ordered(d) /\ c \in Connected(s)
        /\ Connected(d) \subseteq Connected(s)
        /\ \A e \in Clients(s) \ {c} : d.clients[e] = s.clients[e]
        /\ \A q \in Players(s) \ {p} : d.players[q] = s.players[q]
        /\ \E j \in Held(s, c) :
             /\ Lp(s, c, j) = p
             /\ \/ c \in Connected(d) /\ Held(d, c) = Held(s, c) \ {j}
                \/ c \notin Connected(d) /\ Held(d, c) \subseteq {j}
    <3>1. PlayerLeft(d, s, n, p, c, agreed)
      BY ONLY <2>3, <2>5, <2>6, DropPlayerOwned
    <3>2. QED
      BY ONLY <3>1, <2>4 DEF PlayerLeft
  <2>8. PICK j \in Held(s, c) :
          /\ Lp(s, c, j) = p
          /\ \/ c \in Connected(d) /\ Held(d, c) = Held(s, c) \ {j}
             \/ c \notin Connected(d) /\ Held(d, c) \subseteq {j}
    BY <2>4, <2>7
  <2>9. j = i
    BY <1>2, <1>5, <2>1, <2>2, <2>8 DEF Ordered, Owned, Held1
  <2>10. Others(d, st, c)
    <3>1. Clients(d) = 0 .. n - 1 /\ Players(d) = 0 .. n - 1
      BY <2>7, SlotFields
    <3>2. \A q \in 0 .. n - 1 : st.players[q].client # c => q # p
      BY <1>1, <1>2, <2>3 DEF Others
    <3>3. QED
      BY <1>1, <1>2, <2>7, <3>1, <3>2 DEF Others
  <2>11. c \in Connected(d) => \A k \in Held(d, c) : k >= i + 1
    <3>1. ASSUME c \in Connected(d), NEW k \in Held(d, c) PROVE k >= i + 1
      <4>1. k \in Held(s, c) /\ k # i
        BY <2>8, <2>9, <3>1
      <4>2. k >= i /\ k \in Nat /\ i \in Nat
        BY <1>2, <1>3, <2>1, <4>1
      <4>3. QED
        BY <4>1, <4>2
    <3>2. QED
      BY <3>1
  <2>12. c \notin Connected(d) => \A k \in Held(d, c) : k < i + 1
    <3>1. i < i + 1
      BY <1>3
    <3>2. QED
      BY <2>8, <2>9, <3>1
  <2>13. QED
    BY <1>2, <2>7, <2>10, <2>11, <2>12 DEF Dropping
<1>6. QED
  BY <1>4, <1>5

LEMMA DropClientOwned ==
  ASSUME NEW n \in Nat \ {0}, NEW st \in Server(n), Ordered(st), NEW c \in Connected(st),
         NEW d, d = SV_DropClient(st, c)
  PROVE  /\ d \in Server(n) /\ Ordered(d) /\ Others(d, st, c)
         /\ Connected(d) = Connected(st) \ {c}
<1>1. /\ Clients(st) = 0 .. n - 1 /\ Players(st) = 0 .. n - 1 /\ c \in 0 .. n - 1
      /\ MAX_SPLITVIEW \in Nat /\ Locals = 0 .. MAX_SPLITVIEW - 1
  BY SlotFields, SlotsAssumption DEF Connected, Locals
<1>2. PICK run \in [0 .. MAX_SPLITVIEW -> Server(n)] :
            /\ run[0] = st
            /\ \A i \in 0 .. MAX_SPLITVIEW - 1 : run[i + 1] = DropLocal(run[i], c, i)
            /\ run[MAX_SPLITVIEW] = SV_DropClient(st, c)
  BY <1>1, DropClientRun
<1> DEFINE T == {i \in 0 .. MAX_SPLITVIEW : Dropping(run[i], st, c, i)}
<1>3. 0 \in T
  <2>1. \A j \in Held(st, c) : j >= 0
    BY <1>1 DEF Held
  <2>2. Dropping(st, st, c, 0)
    BY <2>1 DEF Dropping, Others
  <2>3. QED
    BY <1>1, <1>2, <2>2
<1>4. ASSUME NEW i \in 0 .. MAX_SPLITVIEW, i \in T, i < MAX_SPLITVIEW PROVE i + 1 \in T
  <2>1. i \in 0 .. MAX_SPLITVIEW - 1 /\ i \in Locals /\ i + 1 \in 0 .. MAX_SPLITVIEW
    BY <1>1, <1>4
  <2>2. run[i] \in Server(n) /\ run[i + 1] = DropLocal(run[i], c, i) /\ Dropping(run[i], st, c, i)
    BY <1>2, <1>4, <2>1
  <2>3. PICK s \in Server(n) : s = run[i]
    BY <2>2
  <2>4. PICK e : e = DropLocal(s, c, i)
    OBVIOUS
  <2>5. n \in Nat \ {0} /\ st \in Server(n) /\ c \in 0 .. n - 1 /\ Dropping(s, st, c, i)
    BY <1>1, <2>2, <2>3
  <2>6. Dropping(e, st, c, i + 1)
    BY ONLY <2>1, <2>3, <2>4, <2>5, DropLocalOwned
  <2>7. QED
    BY <2>1, <2>2, <2>3, <2>4, <2>6
<1>5. \A i \in 0 .. MAX_SPLITVIEW : i \in T
  <2> HIDE DEF T
  <2>1. QED
    BY <1>1, <1>3, <1>4, IntervalInduction
<1>6. MAX_SPLITVIEW \in 0 .. MAX_SPLITVIEW
  BY <1>1
<1>7. d \in Server(n) /\ Dropping(d, st, c, MAX_SPLITVIEW)
  BY <1>2, <1>5, <1>6
<1>8. c \notin Connected(d)
  <2>1. SUFFICES ASSUME c \in Connected(d) PROVE FALSE
    OBVIOUS
  <2>2. PICK j \in Held(d, c) : j >= MAX_SPLITVIEW
    BY <1>7, <2>1 DEF Dropping, Ordered
  <2>3. j \in 0 .. MAX_SPLITVIEW - 1
    BY <1>1, <2>2 DEF Held
  <2>4. QED
    BY <1>1, <2>2, <2>3
<1>9. Connected(st) \ {c} \subseteq Connected(d)
  BY <1>7 DEF Dropping, Others, Connected
<1>10. QED
  BY <1>7, <1>8, <1>9 DEF Dropping

(***************************************************************************)
(* A client connects: its players come, one after another.                 *)
(***************************************************************************)

AddLocal(s, c, j, wanted, denied) ==
  IF j \notin wanted THEN s ELSE SV_AddPlayer(s, c, j, j \in denied)

LEMMA AddLocalTyped ==
  ASSUME NEW n \in Nat \ {0}, NEW st \in Server(n), NEW c \in 0 .. n - 1, NEW j \in Locals,
         NEW wanted, NEW denied, NEW d, d = AddLocal(st, c, j, wanted, denied)
  PROVE  /\ d \in Server(n) /\ SameFlags(d, st)
         /\ d.clients[c].state = st.clients[c].state
         /\ d.clients[c].remoteAddress = st.clients[c].remoteAddress
<1>1. CASE j \notin wanted
  BY <1>1 DEF AddLocal, SameFlags
<1>2. CASE j \in wanted
  <2>1. PICK no \in BOOLEAN : no = (j \in denied)
    <3>1. CASE j \in denied
      <4>1. TRUE = (j \in denied)
        BY <3>1
      <4>2. QED
        BY <4>1, Zenon
    <3>2. CASE j \notin denied
      <4>1. FALSE = (j \in denied)
        BY <3>2
      <4>2. QED
        BY <4>1, Zenon
    <3>3. QED
      BY <3>1, <3>2
  <2>2. d = SV_AddPlayer(st, c, j, no)
    BY <1>2, <2>1 DEF AddLocal
  <2>3. n \in Nat \ {0} /\ st \in Server(n)
    OBVIOUS
  <2>4. QED
    BY ONLY <2>2, <2>3, AddPlayerResult
<1>3. QED
  BY <1>1, <1>2

LEMMA AddPlayersRun ==
  ASSUME NEW n \in Nat \ {0}, NEW st \in Server(n), NEW c \in 0 .. n - 1, NEW wanted, NEW denied
  PROVE  \E run \in [0 .. MAX_SPLITVIEW -> Server(n)] :
            /\ run[0] = st
            /\ \A i \in 0 .. MAX_SPLITVIEW - 1 : run[i + 1] = AddLocal(run[i], c, i, wanted, denied)
            /\ run[MAX_SPLITVIEW] = AddPlayers(st, c, wanted, denied)
<1> DEFINE M == MAX_SPLITVIEW
           S == Server(n)
           step == [x \in S \X (0 .. M - 1) |-> AddLocal(x[1], c, x[2], wanted, denied)]
           Solves(f) == f = [i \in 0 .. M |->
                               IF i = 0 THEN st ELSE AddLocal(f[i - 1], c, i - 1, wanted, denied)]
           it == CHOOSE f : Solves(f)
<1>1. M \in Nat /\ Locals = 0 .. M - 1
  BY SlotsAssumption DEF Locals
<1>2. step \in [S \X (0 .. M - 1) -> S]
  BY <1>1, AddLocalTyped
<1>3. PICK f \in [0 .. M -> S] :
        \A i \in 0 .. M : f[i] = IF i = 0 THEN st ELSE step[<<f[i - 1], i - 1>>]
  <2> HIDE DEF step, M, S
  <2>1. st \in S
    BY DEF S
  <2>2. \E f : IsLoop(f, M, S, st, step)
    BY <1>1, <1>2, <2>1, LoopExists, Zenon
  <2>3. QED
    BY <2>2, Zenon DEF IsLoop
<1>4. \A i \in 0 .. M : f[i] = IF i = 0 THEN st ELSE AddLocal(f[i - 1], c, i - 1, wanted, denied)
  <2>1. ASSUME NEW i \in 0 .. M, i # 0
        PROVE  step[<<f[i - 1], i - 1>>] = AddLocal(f[i - 1], c, i - 1, wanted, denied)
    <3>1. i - 1 \in 0 .. M - 1 /\ i - 1 \in 0 .. M
      BY <1>1, <2>1
    <3>2. f[i - 1] \in S
      BY <3>1
    <3>3. QED
      BY <3>1, <3>2
  <2> HIDE DEF step
  <2>2. QED
    BY <1>3, <2>1
<1>5. Solves(f)
  <2>1. f = [i \in 0 .. M |-> f[i]]
    BY <1>3
  <2>2. QED
    BY <1>4, <2>1, Zenon
<1>6. Solves(it)
  BY <1>5, Zenon
<1>7. \A i \in 0 .. M : it[i] = f[i]
  <2> DEFINE T == {i \in 0 .. M : it[i] = f[i]}
  <2>1. \A i \in 0 .. M : it[i] = IF i = 0 THEN st ELSE AddLocal(it[i - 1], c, i - 1, wanted, denied)
    BY <1>6
  <2> HIDE DEF it, M
  <2>2. 0 \in T
    BY <1>1, <1>4, <2>1
  <2>3. ASSUME NEW i \in 0 .. M, i \in T, i < M PROVE i + 1 \in T
    <3>1. i + 1 \in 0 .. M /\ i + 1 # 0 /\ (i + 1) - 1 = i
      BY <1>1, <2>3
    <3>2. it[i + 1] = AddLocal(it[i], c, i, wanted, denied) /\ f[i + 1] = AddLocal(f[i], c, i, wanted, denied)
      BY <1>4, <2>1, <3>1
    <3>3. QED
      BY <2>3, <3>1, <3>2
  <2> HIDE DEF T
  <2>4. \A i \in 0 .. M : i \in T
    BY <1>1, <2>2, <2>3, IntervalInduction
  <2>5. QED
    BY <2>4 DEF T
<1>8. AddPlayers(st, c, wanted, denied) = it[M]
  BY Zenon DEF AddPlayers, Loop, AddLocal
<1>9. M \in 0 .. M /\ 0 \in 0 .. M
  BY <1>1
<1>10. f[M] = AddPlayers(st, c, wanted, denied) /\ f[0] = st
  BY <1>4, <1>7, <1>8, <1>9
<1>11. ASSUME NEW i \in 0 .. M - 1
       PROVE  f[i + 1] = AddLocal(f[i], c, i, wanted, denied)
  <2>1. i + 1 \in 0 .. M /\ i + 1 # 0 /\ (i + 1) - 1 = i
    BY <1>1
  <2>2. QED
    BY <1>4, <2>1
<1>12. QED
  BY <1>10, <1>11


\* Client c, whose players come, is not connected yet; to the others nothing happens.
Arriving(s, st, c) ==
  /\ Clients(s) = Clients(st) /\ Connected(s) = Connected(st)
  /\ s.clients[c].state = st.clients[c].state
  /\ s.clients[c].remoteAddress = st.clients[c].remoteAddress
  /\ \A e \in Clients(st) \ {c} : s.clients[e] = st.clients[e]
  /\ InUse(st) \subseteq InUse(s)
  /\ \A p \in InUse(st) : s.players[p] = st.players[p]

LEMMA AddPlayersResult ==
  ASSUME NEW n \in Nat \ {0}, NEW st \in Server(n), NEW c \in 0 .. n - 1,
         NEW wanted, NEW denied, NEW d, d = AddPlayers(st, c, wanted, denied)
  PROVE  /\ d \in Server(n) /\ SameFlags(d, st)
         /\ d.clients[c].state = st.clients[c].state
         /\ d.clients[c].remoteAddress = st.clients[c].remoteAddress
<1>1. PICK run \in [0 .. MAX_SPLITVIEW -> Server(n)] :
            /\ run[0] = st
            /\ \A i \in 0 .. MAX_SPLITVIEW - 1 : run[i + 1] = AddLocal(run[i], c, i, wanted, denied)
            /\ run[MAX_SPLITVIEW] = AddPlayers(st, c, wanted, denied)
  BY AddPlayersRun
<1>2. MAX_SPLITVIEW \in Nat /\ Locals = 0 .. MAX_SPLITVIEW - 1
  BY SlotsAssumption DEF Locals
<1> DEFINE T == {i \in 0 .. MAX_SPLITVIEW :
                   /\ SameFlags(run[i], st)
                   /\ run[i].clients[c].state = st.clients[c].state
                   /\ run[i].clients[c].remoteAddress = st.clients[c].remoteAddress}
<1>3. 0 \in T
  BY <1>1, <1>2 DEF SameFlags
<1>4. ASSUME NEW i \in 0 .. MAX_SPLITVIEW, i \in T, i < MAX_SPLITVIEW PROVE i + 1 \in T
  <2>1. i \in 0 .. MAX_SPLITVIEW - 1 /\ i \in Locals /\ i + 1 \in 0 .. MAX_SPLITVIEW
    BY <1>2, <1>4
  <2>2. run[i] \in Server(n) /\ run[i + 1] = AddLocal(run[i], c, i, wanted, denied)
    BY <1>1, <2>1
  <2>3. /\ SameFlags(run[i + 1], run[i])
        /\ run[i + 1].clients[c].state = run[i].clients[c].state
        /\ run[i + 1].clients[c].remoteAddress = run[i].clients[c].remoteAddress
    BY <2>1, <2>2, AddLocalTyped
  <2>4. QED
    BY <1>4, <2>1, <2>3 DEF SameFlags
<1>5. \A i \in 0 .. MAX_SPLITVIEW : i \in T
  <2> HIDE DEF T
  <2>1. QED
    BY <1>2, <1>3, <1>4, IntervalInduction
<1>6. MAX_SPLITVIEW \in 0 .. MAX_SPLITVIEW
  BY <1>2
<1>7. QED
  BY <1>1, <1>5, <1>6

LEMMA AddLocalOwned ==
  ASSUME NEW n \in Nat \ {0}, NEW st \in Server(n), NEW s \in Server(n), NEW c \in 0 .. n - 1,
         c \notin Bots(st), NEW i \in Locals, NEW wanted, NEW denied,
         NEW live, c \in live, Owned(s, live), Arriving(s, st, c),
         NEW d, d = AddLocal(s, c, i, wanted, denied)
  PROVE  Owned(d, live) /\ Arriving(d, st, c)
<1>1. CASE i \notin wanted
  BY <1>1 DEF AddLocal
<1>2. CASE i \in wanted
  <2>1. PICK no \in BOOLEAN : no = (i \in denied)
    <3>1. CASE i \in denied
      <4>1. TRUE = (i \in denied)
        BY <3>1
      <4>2. QED
        BY <4>1, Zenon
    <3>2. CASE i \notin denied
      <4>1. FALSE = (i \in denied)
        BY <3>2
      <4>2. QED
        BY <4>1, Zenon
    <3>3. QED
      BY <3>1, <3>2
  <2>2. d = SV_AddPlayer(s, c, i, no)
    BY <1>2, <2>1 DEF AddLocal
  <2>3. n \in Nat \ {0} /\ s \in Server(n) /\ Owned(s, live) /\ c \in live
    OBVIOUS
  <2>4. c \notin Bots(s)
    BY DEF Arriving, Bots
  <2>5. /\ d \in Server(n) /\ SameFlags(d, s)
        /\ d.clients[c].state = s.clients[c].state
        /\ d.clients[c].remoteAddress = s.clients[c].remoteAddress
    BY AddLocalTyped
  <2>6. /\ Owned(d, live) /\ Connected(d) = Connected(s)
        /\ \A e \in Clients(s) \ {c} : d.clients[e] = s.clients[e]
        /\ \A p \in InUse(s) : d.players[p] = s.players[p]
    BY ONLY <2>2, <2>3, <2>4, AddPlayerOwned
  <2>7. Clients(d) = Clients(s) /\ Players(d) = Players(s)
    BY <2>5, SlotFields
  <2>8. InUse(s) \subseteq InUse(d)
    BY <2>6, <2>7 DEF InUse
  <2>9. QED
    BY <2>5, <2>6, <2>7, <2>8 DEF Arriving
<1>3. QED
  BY <1>1, <1>2

LEMMA AddPlayersOwned ==
  ASSUME NEW n \in Nat \ {0}, NEW st \in Server(n), NEW c \in 0 .. n - 1,
         c \notin Bots(st), NEW wanted, NEW denied, NEW live, c \in live, Owned(st, live),
         NEW d, d = AddPlayers(st, c, wanted, denied)
  PROVE  Owned(d, live) /\ Arriving(d, st, c)
<1>1. PICK run \in [0 .. MAX_SPLITVIEW -> Server(n)] :
            /\ run[0] = st
            /\ \A i \in 0 .. MAX_SPLITVIEW - 1 : run[i + 1] = AddLocal(run[i], c, i, wanted, denied)
            /\ run[MAX_SPLITVIEW] = AddPlayers(st, c, wanted, denied)
  BY AddPlayersRun
<1>2. MAX_SPLITVIEW \in Nat /\ Locals = 0 .. MAX_SPLITVIEW - 1
  BY SlotsAssumption DEF Locals
<1> DEFINE T == {i \in 0 .. MAX_SPLITVIEW : Owned(run[i], live) /\ Arriving(run[i], st, c)}
<1>3. 0 \in T
  <2>1. Arriving(st, st, c)
    BY DEF Arriving
  <2>2. QED
    BY <1>1, <1>2, <2>1
<1>4. ASSUME NEW i \in 0 .. MAX_SPLITVIEW, i \in T, i < MAX_SPLITVIEW PROVE i + 1 \in T
  <2>1. i \in 0 .. MAX_SPLITVIEW - 1 /\ i \in Locals /\ i + 1 \in 0 .. MAX_SPLITVIEW
    BY <1>2, <1>4
  <2>2. PICK s \in Server(n) : s = run[i]
    BY <1>1
  <2>3. PICK e : e = AddLocal(s, c, i, wanted, denied)
    OBVIOUS
  <2>4. /\ n \in Nat \ {0} /\ st \in Server(n) /\ c \in 0 .. n - 1 /\ c \notin Bots(st)
        /\ c \in live /\ Owned(s, live) /\ Arriving(s, st, c)
    BY <1>4, <2>2
  <2>5. Owned(e, live) /\ Arriving(e, st, c)
    BY ONLY <2>1, <2>2, <2>3, <2>4, AddLocalOwned
  <2>6. e = run[i + 1]
    BY <1>1, <2>1, <2>2, <2>3
  <2>7. QED
    BY <2>1, <2>5, <2>6
<1>5. \A i \in 0 .. MAX_SPLITVIEW : i \in T
  <2> HIDE DEF T
  <2>1. QED
    BY <1>2, <1>3, <1>4, IntervalInduction
<1>6. MAX_SPLITVIEW \in 0 .. MAX_SPLITVIEW
  BY <1>2
<1>7. QED
  BY <1>1, <1>5, <1>6


\* A cleared client_t that is no connected client's.
LEMMA ClearedOwned ==
  ASSUME NEW n \in Nat \ {0}, NEW st \in Server(n), Ordered(st), NEW c \in 0 .. n - 1,
         c \notin Connected(st), NEW f \in Server(n), f.clients[c].state = "free",
         \A j \in Locals : Lp(f, c, j) = None,
         \A e \in (0 .. n - 1) \ {c} : f.clients[e] = st.clients[e],
         f.players = st.players, f.playing = st.playing, f.spurious = st.spurious,
         f.undefined = st.undefined
  PROVE  /\ Owned(f, Connected(st) \cup {c}) /\ Connected(f) = Connected(st)
         /\ InUse(f) = InUse(st)
<1>1. /\ Clients(st) = 0 .. n - 1 /\ Players(st) = 0 .. n - 1
      /\ Clients(f) = 0 .. n - 1 /\ Players(f) = 0 .. n - 1
      /\ Connected(st) \subseteq 0 .. n - 1
  BY SlotFields DEF Connected
<1>2. /\ Held1(st, Connected(st)) /\ Known(st) /\ OneSlot(st) /\ BotsHold(st)
  BY DEF Ordered, Owned
<1>3. Held(f, c) = {} /\ \A e \in Connected(st) : Held(f, e) = Held(st, e) /\ e # c
                      /\ \A i : Lp(f, e, i) = Lp(st, e, i)
  BY <1>1 DEF Held, Lp
<1>4. Connected(f) = Connected(st) /\ InUse(f) = InUse(st)
  BY <1>1 DEF Connected, InUse
<1>5. Held1(f, Connected(st) \cup {c})
  <2>1. \A e \in Connected(st) \cup {c} : \A j \in Held(f, e) :
          f.players[Lp(f, e, j)].inUse /\ f.players[Lp(f, e, j)].client = e
    BY <1>2, <1>3 DEF Held1
  <2>2. \A e \in Connected(st) \cup {c} : \A i, j \in Held(f, e) :
          Lp(f, e, i) = Lp(f, e, j) => i = j
    BY <1>2, <1>3 DEF Held1
  <2>3. \A p \in InUse(f) :
          /\ f.players[p].client \in Connected(st) \cup {c}
          /\ \E j \in Held(f, f.players[p].client) : Lp(f, f.players[p].client, j) = p
    BY <1>2, <1>3, <1>4 DEF Held1
  <2>4. QED
    BY <1>1, <2>1, <2>2, <2>3 DEF Held1
<1>6. Known(f)
  BY <1>2, <1>4 DEF Known
<1>7. OneSlot(f)
  <2>1. Clients(f) \ FreeSlots(f) \subseteq Clients(st) \ FreeSlots(st)
        /\ c \notin Clients(f) \ FreeSlots(f)
    BY <1>1 DEF FreeSlots
  <2>2. \A e \in Clients(f) \ FreeSlots(f) : f.clients[e] = st.clients[e]
    BY <1>1, <2>1
  <2>3. QED
    BY <1>2, <2>1, <2>2 DEF OneSlot
<1>8. BotsHold(f)
  <2>1. ASSUME NEW e \in Bots(f) PROVE Held(f, e) = {0}
    <3>1. e \in Bots(st) /\ e \in Connected(st)
      BY <1>1, <1>3, <1>4 DEF Bots
    <3>2. QED
      BY <1>2, <1>3, <3>1 DEF BotsHold
  <2>2. QED
    BY <2>1 DEF BotsHold
<1>9. QED
  BY <1>4, <1>5, <1>6, <1>7, <1>8 DEF Owned

\* The new client is connected if it has a player.
LEMMA ConnectedOwned ==
  ASSUME NEW n \in Nat \ {0}, NEW a \in Server(n), NEW c \in 0 .. n - 1,
         c \notin Connected(a), Owned(a, Connected(a) \cup {c}),
         \A e \in Connected(a) : Held(a, e) # {},
         a.clients[c].remoteAddress # NA_BOT,
         \A e \in Clients(a) \ FreeSlots(a) :
           a.clients[e].remoteAddress = a.clients[c].remoteAddress => e = c,
         NEW d \in Server(n), d.players = a.players, d.playing = a.playing,
         d.spurious = a.spurious, d.undefined = a.undefined,
         d.clients[c].localPlayers = a.clients[c].localPlayers,
         d.clients[c].remoteAddress = a.clients[c].remoteAddress,
         \A e \in (0 .. n - 1) \ {c} : d.clients[e] = a.clients[e],
         IF Held(a, c) = {} THEN d.clients[c] = a.clients[c]
                            ELSE d.clients[c].state = "connected"
  PROVE  Ordered(d)
<1>1. /\ Clients(a) = 0 .. n - 1 /\ Players(a) = 0 .. n - 1
      /\ Clients(d) = 0 .. n - 1 /\ Players(d) = 0 .. n - 1
      /\ Connected(a) \subseteq 0 .. n - 1
  BY SlotFields DEF Connected
<1>2. \A e \in 0 .. n - 1 : Held(d, e) = Held(a, e) /\ \A i : Lp(d, e, i) = Lp(a, e, i)
  BY DEF Held, Lp
<1>3. /\ Held1(a, Connected(a) \cup {c}) /\ Known(a) /\ OneSlot(a) /\ BotsHold(a)
  BY DEF Owned
<1>4. InUse(d) = InUse(a)
  BY <1>1 DEF InUse
<1>5. /\ Held(a, c) = {} => Connected(d) = Connected(a)
      /\ Held(a, c) # {} => Connected(d) = Connected(a) \cup {c}
  <2>1. \A e \in 0 .. n - 1 : e # c => (e \in Connected(d) <=> e \in Connected(a))
    BY <1>1 DEF Connected
  <2>2. Held(a, c) = {} => c \notin Connected(d)
    BY <1>1 DEF Connected
  <2>3. Held(a, c) # {} => c \in Connected(d)
    BY <1>1 DEF Connected
  <2>4. Connected(d) \subseteq 0 .. n - 1
    BY <1>1 DEF Connected
  <2>5. QED
    BY <1>1, <2>1, <2>2, <2>3, <2>4
<1>6. Held1(d, Connected(d))
  <2>1. Connected(d) \subseteq Connected(a) \cup {c} /\ Connected(d) \subseteq 0 .. n - 1
    BY <1>1, <1>5
  <2>2. \A e \in Connected(d) : \A j \in Held(d, e) :
          d.players[Lp(d, e, j)].inUse /\ d.players[Lp(d, e, j)].client = e
    BY <1>2, <1>3, <2>1 DEF Held1
  <2>3. \A e \in Connected(d) : \A i, j \in Held(d, e) : Lp(d, e, i) = Lp(d, e, j) => i = j
    BY <1>2, <1>3, <2>1 DEF Held1
  <2>4. ASSUME NEW p \in InUse(d)
        PROVE  /\ d.players[p].client \in Connected(d)
               /\ \E j \in Held(d, d.players[p].client) : Lp(d, d.players[p].client, j) = p
    <3>1. PICK e \in Connected(a) \cup {c} : e = a.players[p].client
      BY <1>3, <1>4 DEF Held1
    <3>2. PICK j \in Held(a, e) : Lp(a, e, j) = p
      BY <1>3, <1>4, <3>1 DEF Held1
    <3>3. e \in Connected(d)
      BY <1>5, <3>1, <3>2
    <3>4. e \in 0 .. n - 1
      BY <1>1, <3>1
    <3>5. QED
      BY <1>2, <3>1, <3>2, <3>3, <3>4
  <2>5. QED
    BY <1>1, <2>1, <2>2, <2>3, <2>4 DEF Held1
<1>7. Known(d)
  BY <1>3, <1>4 DEF Known
<1>8. OneSlot(d)
  <2>1. ASSUME NEW e \in Clients(d) \ FreeSlots(d), e # c
        PROVE  e \in Clients(a) \ FreeSlots(a) /\ d.clients[e] = a.clients[e]
    BY <1>1, <2>1 DEF FreeSlots
  <2>2. ASSUME NEW e \in Clients(d) \ FreeSlots(d), NEW f \in Clients(d) \ FreeSlots(d),
               d.clients[e].remoteAddress = d.clients[f].remoteAddress,
               d.clients[e].remoteAddress # NA_BOT
        PROVE  e = f
    <3>1. CASE e # c /\ f # c
      BY <1>3, <2>1, <2>2, <3>1 DEF OneSlot
    <3>2. CASE e = c /\ f # c
      BY <2>1, <2>2, <3>2
    <3>3. CASE f = c /\ e # c
      BY <2>1, <2>2, <3>3
    <3>4. QED
      BY <3>1, <3>2, <3>3
  <2>3. QED
    BY <2>2 DEF OneSlot
<1>9. BotsHold(d)
  <2>1. ASSUME NEW e \in Bots(d) PROVE Held(d, e) = {0}
    <3>1. e \in Connected(d) /\ d.clients[e].remoteAddress = NA_BOT /\ e # c /\ e \in 0 .. n - 1
      BY <1>1 DEF Bots, Connected
    <3>2. e \in Bots(a)
      BY <1>1, <1>5, <3>1 DEF Bots
    <3>3. QED
      BY <1>2, <1>3, <3>1, <3>2 DEF BotsHold
  <2>2. QED
    BY <2>1 DEF BotsHold
<1>10. \A e \in Connected(d) : Held(d, e) # {}
  BY <1>1, <1>2, <1>5
<1>11. QED
  BY <1>6, <1>7, <1>8, <1>9, <1>10 DEF Ordered, Owned


\* What others cannot be robbed of.
LEMMA OtherStays ==
  ASSUME NEW n \in Nat \ {0}, svs \in Server(n), Ordered(svs), NEW e \in Connected(svs),
         svs'.clients[e] = svs.clients[e],
         \A p \in InUse(svs) : svs.players[p].client = e => svs'.players[p] = svs.players[p]
  PROVE  Stays(e)
<1>1. ASSUME NEW p \in PlayersOf(svs, e)
      PROVE  p \in InUse(svs) /\ svs.players[p].client = e
  <2>1. e \in 0 .. n - 1 /\ Players(svs) = 0 .. n - 1
    BY SlotFields DEF Connected
  <2>2. PICK j \in Held(svs, e) : Lp(svs, e, j) = p
    BY <2>1, HeldIs
  <2>3. p \in 0 .. n - 1
    BY <2>1, <2>2, HeldIs
  <2>4. QED
    BY <2>1, <2>2, <2>3 DEF Ordered, Owned, Held1, InUse
<1>2. \A p \in PlayersOf(svs, e) : svs'.players[p].inUse
  BY <1>1 DEF InUse
<1>3. QED
  BY <1>2 DEF Stays

LEMMA DirectConnectInv ==
  ASSUME SlotsInv, NEW from \in Addresses, SV_DirectConnect(from)
  PROVE  SlotsInv' /\ (Orderly' => \A e \in Connected(svs) : Stays(e))
<1> DEFINE known == SlotsOf(svs, from)
           slots == IF known # {} THEN known ELSE FreeSlots(svs)
           c == Min(slots)
           x == [FreeClient EXCEPT !.remoteAddress = from]
           b == svs.replaced \/ c \in Connected(svs)
           cleared == SetClient(svs, c, x)
           fresh == [svs EXCEPT !.clients[c] = x, !.replaced = b]
<1>1. PICK n \in Nat \ {0} : svs \in Server(n)
  BY DEF SlotsInv
<1>2. slots # {}
  BY DEF SV_DirectConnect
<1>3. PICK wanted, denied :
        svs' = LET added == AddPlayers(fresh, c, wanted, denied)
               IN  IF Held(added, c) = {} THEN added
                   ELSE [added EXCEPT !.clients[c].state = "connected"]
  BY Zenon DEF SV_DirectConnect
<1> DEFINE added == AddPlayers(fresh, c, wanted, denied)
<1>4. /\ Clients(svs) = 0 .. n - 1 /\ Players(svs) = 0 .. n - 1 /\ 0 .. n - 1 \subseteq Nat
      /\ svs.replaced \in BOOLEAN
  BY <1>1, SlotFields
<1>5. c \in slots /\ c \in 0 .. n - 1
  <2>1. slots \subseteq 0 .. n - 1
    BY <1>4 DEF SlotsOf, FreeSlots
  <2>2. slots \in SUBSET Nat
    BY <1>4, <2>1
  <2> HIDE DEF slots
  <2>3. QED
    BY <1>2, <2>1, <2>2, MinIs
<1>6. (known # {} => c \in known) /\ (known = {} => c \in FreeSlots(svs))
  BY <1>5
<1>7. /\ x \in ClientOf(n) /\ x.state = "free" /\ x.remoteAddress = from
      /\ \A j \in Locals : x.localPlayers[j] = None
  BY DEF ClientOf, FreeClient, None
<1> HIDE DEF x, known, slots, c
<1>8. cleared \in Server(n) /\ cleared.clients[c] = x
      /\ (\A e \in (0 .. n - 1) \ {c} : cleared.clients[e] = svs.clients[e])
      /\ cleared.players = svs.players /\ cleared.playing = svs.playing
      /\ cleared.spurious = svs.spurious
      /\ cleared.replaced = svs.replaced /\ cleared.dangling = svs.dangling
      /\ cleared.undefined = svs.undefined
  BY <1>1, <1>5, <1>7, ChangedClient
<1>9. fresh = [cleared EXCEPT !.replaced = b] /\ b \in BOOLEAN
  BY <1>1, <1>4 DEF SetClient, Server
<1> HIDE DEF fresh, cleared, b
<1>10. fresh \in Server(n) /\ fresh.clients = cleared.clients
       /\ fresh.players = svs.players /\ fresh.playing = svs.playing
       /\ fresh.spurious = svs.spurious
       /\ fresh.replaced = b /\ fresh.dangling = svs.dangling
       /\ fresh.undefined = svs.undefined
  BY <1>8, <1>9 DEF Server
<1>11. /\ added \in Server(n) /\ SameFlags(added, fresh)
       /\ added.clients[c].state = "free" /\ added.clients[c].remoteAddress = from
  <2>1. n \in Nat \ {0} /\ fresh \in Server(n)
    BY <1>10
  <2>2. PICK a : a = added
    OBVIOUS
  <2>3. /\ a \in Server(n) /\ SameFlags(a, fresh)
        /\ a.clients[c].state = fresh.clients[c].state
        /\ a.clients[c].remoteAddress = fresh.clients[c].remoteAddress
    BY ONLY <1>5, <2>1, <2>2, AddPlayersResult
  <2>4. QED
    BY <1>7, <1>8, <1>10, <2>2, <2>3
<1>12. svs' = IF Held(added, c) = {} THEN added
              ELSE [added EXCEPT !.clients[c].state = "connected"]
  BY <1>3
<1> HIDE DEF added
<1> DEFINE y == [added.clients[c] EXCEPT !.state = "connected"]
<1>13. /\ y \in ClientOf(n) /\ y.state = "connected"
       /\ y.remoteAddress = added.clients[c].remoteAddress
       /\ y.localPlayers = added.clients[c].localPlayers
  <2>1. added.clients[c] \in ClientOf(n)
    BY <1>5, <1>11, SlotFields
  <2>2. QED
    BY <2>1 DEF ClientOf
<1>14. [added EXCEPT !.clients[c].state = "connected"] = SetClient(added, c, y)
  BY <1>5, <1>11 DEF SetClient, Server
<1> HIDE DEF y
<1>15. /\ svs' \in Server(n) /\ svs'.players = added.players /\ svs'.playing = added.playing
       /\ svs'.spurious = added.spurious /\ svs'.replaced = added.replaced
       /\ svs'.dangling = added.dangling /\ svs'.undefined = added.undefined
       /\ svs'.clients[c].localPlayers = added.clients[c].localPlayers
       /\ svs'.clients[c].remoteAddress = added.clients[c].remoteAddress
       /\ \A e \in (0 .. n - 1) \ {c} : svs'.clients[e] = added.clients[e]
       /\ IF Held(added, c) = {} THEN svs'.clients[c] = added.clients[c]
                                 ELSE svs'.clients[c].state = "connected"
  <2>1. CASE Held(added, c) = {}
    BY <1>11, <1>12, <2>1
  <2>2. CASE Held(added, c) # {}
    <3>1. PICK d : d = SetClient(added, c, y)
      OBVIOUS
    <3>2. n \in Nat \ {0} /\ added \in Server(n) /\ y \in ClientOf(n)
      BY <1>11, <1>13
    <3>3. /\ d \in Server(n) /\ d.clients[c] = y
          /\ \A e \in (0 .. n - 1) \ {c} : d.clients[e] = added.clients[e]
          /\ d.players = added.players /\ d.playing = added.playing /\ d.spurious = added.spurious
          /\ d.replaced = added.replaced /\ d.dangling = added.dangling
          /\ d.undefined = added.undefined
      BY ONLY <1>5, <3>1, <3>2, ChangedClient
    <3>4. svs' = d
      BY <1>12, <1>14, <2>2, <3>1
    <3>5. QED
      BY <1>13, <2>2, <3>3, <3>4
  <2>3. QED
    BY <2>1, <2>2
<1>16. ASSUME Orderly'
       PROVE  Ordered(svs') /\ \A e \in Connected(svs) : Stays(e)
  <2>1. c \notin Connected(svs) /\ Ordered(svs)
    <3>1. ~added.replaced /\ ~added.dangling
      BY <1>15, <1>16 DEF Orderly
    <3>2. ~b /\ ~svs.dangling
      BY <1>10, <1>11, <3>1 DEF SameFlags
    <3>3. QED
      BY <3>2 DEF b, SlotsInv, InOrder
  <2>2. /\ Owned(fresh, Connected(svs) \cup {c}) /\ Connected(fresh) = Connected(svs)
        /\ InUse(fresh) = InUse(svs)
    <3>1. /\ fresh.clients[c].state = "free"
          /\ \A j \in Locals : Lp(fresh, c, j) = None
          /\ \A e \in (0 .. n - 1) \ {c} : fresh.clients[e] = svs.clients[e]
      BY <1>7, <1>8, <1>10 DEF Lp
    <3>2. QED
      BY <1>1, <1>5, <1>10, <2>1, <3>1, ClearedOwned
  <2>3. c \notin Bots(fresh)
    BY <2>1, <2>2 DEF Bots
  <2>4. Owned(added, Connected(svs) \cup {c}) /\ Arriving(added, fresh, c)
    <3>1. PICK live : live = Connected(svs) \cup {c}
      OBVIOUS
    <3>2. n \in Nat \ {0} /\ fresh \in Server(n) /\ c \in live /\ Owned(fresh, live)
      BY <1>10, <2>2, <3>1
    <3>3. PICK a : a = AddPlayers(fresh, c, wanted, denied)
      OBVIOUS
    <3>4. Owned(a, live) /\ Arriving(a, fresh, c)
      BY ONLY <1>5, <2>3, <3>2, <3>3, AddPlayersOwned
    <3>5. QED
      BY <3>1, <3>3, <3>4 DEF added
  <2>5. Connected(added) = Connected(svs)
    BY <2>2, <2>4 DEF Arriving
  <2>6. Clients(fresh) = 0 .. n - 1 /\ Clients(added) = 0 .. n - 1
    BY <1>10, <1>11, SlotFields
  <2>7. \A e \in (0 .. n - 1) \ {c} : added.clients[e] = svs.clients[e]
    BY <1>8, <1>10, <2>4, <2>6 DEF Arriving
  <2>8. \A e \in Connected(added) : Held(added, e) # {}
    <3>1. \A e \in Connected(svs) : Held(svs, e) # {} /\ e \in 0 .. n - 1 /\ e # c
      BY <1>4, <2>1 DEF Ordered, Connected
    <3>2. \A e \in Connected(svs) : Held(added, e) = Held(svs, e)
      BY <2>7, <3>1 DEF Held
    <3>3. QED
      BY <2>5, <3>1, <3>2
  <2>9. from # NA_BOT
    BY SlotsAssumption
  <2>10. ASSUME NEW e \in Clients(added) \ FreeSlots(added), added.clients[e].remoteAddress = from
         PROVE  e = c
    <3>1. SUFFICES ASSUME e # c PROVE FALSE
      OBVIOUS
    <3>2. e \in 0 .. n - 1 /\ added.clients[e] = svs.clients[e]
      BY <2>6, <2>7, <3>1
    <3>3. e \in Clients(svs) \ FreeSlots(svs) /\ svs.clients[e].remoteAddress = from
      BY <1>4, <2>6, <2>10, <3>2 DEF FreeSlots
    <3>4. e \in known
      BY <3>3 DEF known, SlotsOf
    <3>5. c \in known
      BY <1>6, <3>4
    <3>6. c \in Clients(svs) \ FreeSlots(svs) /\ svs.clients[c].remoteAddress = from
      BY <3>5 DEF known, SlotsOf
    <3>7. QED
      BY <2>1, <2>9, <3>1, <3>3, <3>6 DEF Ordered, Owned, OneSlot
  <2>11. Ordered(svs')
    <3>1. PICK d \in Server(n) : d = svs'
      BY <1>15
    <3>2. /\ n \in Nat \ {0} /\ added \in Server(n) /\ c \notin Connected(added)
          /\ Owned(added, Connected(added) \cup {c})
          /\ added.clients[c].remoteAddress # NA_BOT
          /\ \A e \in Clients(added) \ FreeSlots(added) :
               added.clients[e].remoteAddress = added.clients[c].remoteAddress => e = c
      BY <1>11, <2>1, <2>4, <2>5, <2>9, <2>10
    <3>3. /\ d.players = added.players /\ d.playing = added.playing
          /\ d.spurious = added.spurious /\ d.undefined = added.undefined
          /\ d.clients[c].localPlayers = added.clients[c].localPlayers
          /\ d.clients[c].remoteAddress = added.clients[c].remoteAddress
          /\ \A e \in (0 .. n - 1) \ {c} : d.clients[e] = added.clients[e]
          /\ IF Held(added, c) = {} THEN d.clients[c] = added.clients[c]
                                    ELSE d.clients[c].state = "connected"
      BY <1>15, <3>1
    <3>4. Ordered(d)
      BY ONLY <1>5, <2>8, <3>2, <3>3, ConnectedOwned
    <3>5. QED
      BY <3>1, <3>4
  <2>12. ASSUME NEW e \in Connected(svs) PROVE Stays(e)
    <3>1. e \in 0 .. n - 1 /\ e # c
      BY <1>4, <2>1 DEF Connected
    <3>2. svs'.clients[e] = svs.clients[e]
      BY <1>15, <2>7, <3>1
    <3>3. \A p \in InUse(svs) : svs'.players[p] = svs.players[p]
      BY <1>10, <1>15, <2>2, <2>4 DEF Arriving
    <3>4. QED
      BY <1>1, <2>1, <3>2, <3>3, OtherStays
  <2>13. QED
    BY <2>11, <2>12
<1>17. InOrder(svs')
  BY <1>16 DEF InOrder, Orderly
<1>18. SlotsInv'
  BY <1>15, <1>17 DEF SlotsInv
<1>19. QED
  BY <1>16, <1>18

(***************************************************************************)
(* What happens to one client.                                             *)
(***************************************************************************)

Keeps(c) == SlotsInv' /\ (Orderly => \A e \in Connected(svs) \ {c} : Stays(e))

LEMMA KeepsIf ==
  ASSUME SlotsInv, NEW n \in Nat \ {0}, svs \in Server(n), NEW m \in Nat \ {0}, NEW d \in Server(m),
         d = svs', d.replaced = svs.replaced, d.dangling = svs.dangling, NEW c,
         Ordered(svs) =>
           /\ Ordered(d)
           /\ \A e \in Clients(svs) \ {c} : d.clients[e] = svs.clients[e]
           /\ \A p \in InUse(svs) : svs.players[p].client # c => d.players[p] = svs.players[p]
  PROVE  Keeps(c)
<1>1. InOrder(svs')
  BY DEF SlotsInv, InOrder
<1>2. svs' \in Server(m)
  OBVIOUS
<1>3. SlotsInv'
  BY <1>1, <1>2 DEF SlotsInv
<1>4. ASSUME Orderly, NEW e \in Connected(svs) \ {c}
      PROVE  Stays(e)
  <2>1. Ordered(svs)
    BY <1>4 DEF SlotsInv, InOrder, Orderly
  <2>2. svs'.clients[e] = svs.clients[e]
    BY <2>1 DEF Connected
  <2>3. \A p \in InUse(svs) : svs.players[p].client = e => svs'.players[p] = svs.players[p]
    BY <2>1, <1>4
  <2>4. QED
    BY <2>1, <2>2, <2>3, OtherStays
<1>5. QED
  BY <1>3, <1>4 DEF Keeps

LEMMA DropInKeeps ==
  ASSUME SlotsInv, NEW c \in Connected(svs) \ Bots(svs), NEW j \in Locals, SV_DropIn_f(c, j)
  PROVE  Keeps(c)
<1>1. PICK n \in Nat \ {0} : svs \in Server(n)
  BY DEF SlotsInv
<1>2. PICK denied \in BOOLEAN : svs' = SV_AddPlayer(svs, c, j, denied)
  BY DEF SV_DropIn_f
<1>3. c \in 0 .. n - 1 /\ Clients(svs) = 0 .. n - 1
  BY <1>1, SlotFields DEF Connected
<1>4. PICK d : d = SV_AddPlayer(svs, c, j, denied)
  OBVIOUS
<1>5. /\ d \in Server(n) /\ SameFlags(d, svs)
      /\ d.clients[c].state = svs.clients[c].state
      /\ d.clients[c].remoteAddress = svs.clients[c].remoteAddress
  BY ONLY <1>1, <1>3, <1>4, AddPlayerResult
<1>6. ASSUME Ordered(svs)
      PROVE  /\ Ordered(d)
             /\ \A e \in Clients(svs) \ {c} : d.clients[e] = svs.clients[e]
             /\ \A p \in InUse(svs) : d.players[p] = svs.players[p]
  <2>1. PICK live : live = Connected(svs)
    OBVIOUS
  <2>2. Owned(svs, live) /\ c \in live /\ c \notin Bots(svs)
    BY <1>6, <2>1 DEF Ordered
  <2>3. /\ Owned(d, live) /\ Connected(d) = Connected(svs)
        /\ \A e \in Clients(svs) \ {c} : d.clients[e] = svs.clients[e]
        /\ \A p \in InUse(svs) : d.players[p] = svs.players[p]
        /\ Held(svs, c) \subseteq Held(d, c)
    BY ONLY <1>1, <1>3, <1>4, <2>2, AddPlayerOwned
  <2>4. \A e \in Connected(d) : Held(d, e) # {}
    <3>1. \A e \in Connected(svs) : Held(svs, e) # {}
      BY <1>6 DEF Ordered
    <3>2. \A e \in Connected(svs) \ {c} : Held(d, e) = Held(svs, e)
      BY <2>3 DEF Held, Connected
    <3>3. QED
      BY <2>3, <3>1, <3>2
  <2>5. QED
    BY <2>1, <2>3, <2>4 DEF Ordered
<1>7. d = svs'
  BY <1>2, <1>4
<1>8. QED
  BY <1>1, <1>5, <1>6, <1>7, KeepsIf DEF SameFlags

LEMMA DropPlayerKeeps ==
  ASSUME SlotsInv, NEW n \in Nat \ {0}, svs \in Server(n), NEW p \in 0 .. n - 1,
         NEW agreed \in BOOLEAN, svs' = SV_DropPlayer(svs, p, agreed), NEW c,
         Ordered(svs) => p \in InUse(svs) /\ c = svs.players[p].client
  PROVE  Keeps(c)
<1>1. PICK d : d = SV_DropPlayer(svs, p, agreed)
  OBVIOUS
<1>2. d \in Server(n) /\ d.replaced = svs.replaced /\ d.dangling = svs.dangling
  <2>1. PICK e : e = svs.players[p].client
    OBVIOUS
  <2>2. n \in Nat \ {0} /\ svs \in Server(n)
    OBVIOUS
  <2>3. QED
    BY ONLY <1>1, <2>1, <2>2, DropPlayerResult
<1>3. ASSUME Ordered(svs)
      PROVE  /\ Ordered(d)
             /\ \A e \in Clients(svs) \ {c} : d.clients[e] = svs.clients[e]
             /\ \A q \in InUse(svs) : svs.players[q].client # c => d.players[q] = svs.players[q]
  <2>1. n \in Nat \ {0} /\ svs \in Server(n) /\ Ordered(svs) /\ p \in InUse(svs)
        /\ c = svs.players[p].client
    BY <1>3
  <2>2. PlayerLeft(d, svs, n, p, c, agreed)
    BY ONLY <1>1, <2>1, DropPlayerOwned
  <2>3. \A q \in InUse(svs) : svs.players[q].client # c => q \in Players(svs) \ {p}
    BY <2>1 DEF InUse
  <2>4. QED
    BY <2>2, <2>3 DEF PlayerLeft
<1>4. d = svs'
  BY <1>1
<1>5. QED
  BY <1>2, <1>3, <1>4, KeepsIf

LEMMA DropOutKeeps ==
  ASSUME SlotsInv, NEW c \in Connected(svs) \ Bots(svs), NEW j \in Locals, SV_DropOut_f(c, j)
  PROVE  Keeps(c)
<1>1. PICK n \in Nat \ {0} : svs \in Server(n)
  BY DEF SlotsInv
<1>2. PICK agreed \in BOOLEAN :
        j \in Held(svs, c) /\ svs' = SV_DropPlayer(svs, Lp(svs, c, j), agreed)
  BY DEF SV_DropOut_f, Lp
<1>3. c \in 0 .. n - 1 /\ Players(svs) = 0 .. n - 1
  BY <1>1, SlotFields DEF Connected
<1>4. PICK p : p = Lp(svs, c, j)
  OBVIOUS
<1>5. p \in 0 .. n - 1
  BY <1>1, <1>2, <1>3, <1>4, HeldIs
<1>6. Ordered(svs) => p \in InUse(svs) /\ c = svs.players[p].client
  BY <1>2, <1>3, <1>4, <1>5 DEF Ordered, Owned, Held1, InUse
<1>7. svs' = SV_DropPlayer(svs, p, agreed)
  BY <1>2, <1>4
<1>8. QED
  BY <1>1, <1>5, <1>6, <1>7, DropPlayerKeeps

LEMMA KickKeeps ==
  ASSUME SlotsInv, NEW p \in InUse(svs), SV_Kick_f(p), NEW c, c = svs.players[p].client
  PROVE  Keeps(c)
<1>1. PICK n \in Nat \ {0} : svs \in Server(n)
  BY DEF SlotsInv
<1>2. PICK agreed \in BOOLEAN : agreed = TRUE
  OBVIOUS
<1>3. p \in 0 .. n - 1
  BY <1>1, SlotFields DEF InUse
<1>4. svs' = SV_DropPlayer(svs, p, agreed)
  BY <1>2 DEF SV_Kick_f
<1>5. QED
  BY <1>1, <1>3, <1>4, DropPlayerKeeps

LEMMA DisconnectKeeps ==
  ASSUME SlotsInv, NEW c \in Connected(svs), SV_Disconnect_f(c)
  PROVE  Keeps(c)
<1>1. PICK n \in Nat \ {0} : svs \in Server(n)
  BY DEF SlotsInv
<1>2. PICK d : d = SV_DropClient(svs, c)
  OBVIOUS
<1>3. c \in 0 .. n - 1 /\ Players(svs) = 0 .. n - 1 /\ c \in Connected(svs)
  BY <1>1, SlotFields DEF Connected
<1>4. d \in Server(n) /\ d.replaced = svs.replaced /\ d.dangling = svs.dangling
  BY ONLY <1>1, <1>2, <1>3, DropClientTyped
<1>5. ASSUME Ordered(svs)
      PROVE  Ordered(d) /\ Others(d, svs, c)
  BY ONLY <1>1, <1>2, <1>3, <1>5, DropClientOwned
<1>6. d = svs'
  BY <1>2 DEF SV_Disconnect_f
<1>7. Ordered(svs) =>
           /\ Ordered(d)
           /\ \A e \in Clients(svs) \ {c} : d.clients[e] = svs.clients[e]
           /\ \A p \in InUse(svs) : svs.players[p].client # c => d.players[p] = svs.players[p]
  BY <1>5 DEF Others, InUse
<1>8. QED
  BY <1>1, <1>4, <1>6, <1>7, KeepsIf

LEMMA FreeClientResult ==
  ASSUME NEW n \in Nat \ {0}, NEW st \in Server(n), NEW c \in 0 .. n - 1,
         NEW d, d = SV_FreeClient(st, c)
  PROVE  /\ d \in Server(n) /\ d.replaced = st.replaced /\ d.dangling = st.dangling
         /\ d.players = st.players
         /\ \A e \in Clients(st) \ {c} : d.clients[e] = st.clients[e]
         /\ Ordered(st) /\ c \notin Connected(st) => Ordered(d)
<1> DEFINE x == [st.clients[c] EXCEPT !.state = "free"]
<1>1. st.clients[c] \in ClientOf(n) /\ Clients(st) = 0 .. n - 1 /\ Players(st) = 0 .. n - 1
  BY SlotFields
<1>2. x \in ClientOf(n) /\ x.state = "free" /\ x.remoteAddress = st.clients[c].remoteAddress
      /\ x.localPlayers = st.clients[c].localPlayers
  BY <1>1 DEF ClientOf
<1>3. d = SetClient(st, c, x)
  BY DEF SV_FreeClient, SetClient, Server
<1> HIDE DEF x
<1>4. /\ d \in Server(n) /\ d.clients[c] = x
      /\ \A e \in (0 .. n - 1) \ {c} : d.clients[e] = st.clients[e]
      /\ d.players = st.players /\ d.playing = st.playing /\ d.spurious = st.spurious
      /\ d.replaced = st.replaced /\ d.dangling = st.dangling
      /\ d.undefined = st.undefined
  BY <1>2, <1>3, ChangedClient
<1>5. Clients(d) = 0 .. n - 1 /\ Players(d) = 0 .. n - 1
  BY <1>4, SlotFields
<1>6. ASSUME Ordered(st), c \notin Connected(st)
      PROVE  Ordered(d)
  <2>1. /\ Held1(st, Connected(st)) /\ Known(st) /\ OneSlot(st) /\ BotsHold(st)
        /\ \A e \in Connected(st) : Held(st, e) # {}
    BY <1>6 DEF Ordered, Owned
  <2>2. Connected(d) = Connected(st) /\ InUse(d) = InUse(st)
    BY <1>1, <1>2, <1>4, <1>5, <1>6 DEF Connected, InUse
  <2>3. \A e : e \in 0 .. n - 1 =>
          Held(d, e) = Held(st, e) /\ \A i : Lp(d, e, i) = Lp(st, e, i)
    BY <1>2, <1>4 DEF Held, Lp
  <2>4. Connected(st) \subseteq 0 .. n - 1
    BY <1>1 DEF Connected
  <2>5. Held1(d, Connected(d))
    <3>1. \A e \in Connected(d) : \A j \in Held(d, e) :
            d.players[Lp(d, e, j)].inUse /\ d.players[Lp(d, e, j)].client = e
      BY <1>4, <2>1, <2>2, <2>3, <2>4 DEF Held1
    <3>2. \A e \in Connected(d) : \A i, j \in Held(d, e) : Lp(d, e, i) = Lp(d, e, j) => i = j
      BY <2>1, <2>2, <2>3, <2>4 DEF Held1
    <3>3. \A p \in InUse(d) :
            /\ d.players[p].client \in Connected(d)
            /\ \E j \in Held(d, d.players[p].client) : Lp(d, d.players[p].client, j) = p
      BY <1>4, <2>1, <2>2, <2>3, <2>4 DEF Held1
    <3>4. QED
      BY <1>5, <2>2, <2>4, <3>1, <3>2, <3>3 DEF Held1
  <2>6. Known(d)
    BY <1>4, <2>1, <2>2 DEF Known
  <2>7. OneSlot(d)
    <3>1. c \in FreeSlots(d)
      BY <1>2, <1>4, <1>5 DEF FreeSlots
    <3>2. \A e \in Clients(d) \ FreeSlots(d) :
            e \in Clients(st) \ FreeSlots(st) /\ d.clients[e] = st.clients[e]
      BY <1>1, <1>4, <1>5, <3>1 DEF FreeSlots
    <3>3. QED
      BY <2>1, <3>2 DEF OneSlot
  <2>8. BotsHold(d)
    <3>1. ASSUME NEW e \in Bots(d) PROVE Held(d, e) = {0}
      <4>1. e \in Bots(st) /\ e \in 0 .. n - 1
        BY <1>4, <1>6, <2>2, <2>4 DEF Bots
      <4>2. QED
        BY <2>1, <2>3, <4>1 DEF BotsHold
    <3>2. QED
      BY <3>1 DEF BotsHold
  <2>9. \A e \in Connected(d) : Held(d, e) # {}
    BY <2>1, <2>2, <2>3, <2>4
  <2>10. QED
    BY <2>5, <2>6, <2>7, <2>8, <2>9 DEF Ordered, Owned
<1>7. QED
  BY <1>1, <1>4, <1>6

LEMMA CheckTimeoutsKeeps ==
  ASSUME SlotsInv, NEW c \in Clients(svs), SV_CheckTimeouts(c)
  PROVE  Keeps(c)
<1>1. PICK n \in Nat \ {0} : svs \in Server(n)
  BY DEF SlotsInv
<1>2. c \in 0 .. n - 1 /\ Clients(svs) = 0 .. n - 1 /\ Players(svs) = 0 .. n - 1
  BY <1>1, SlotFields
<1>3. CASE svs.clients[c].state = "zombie" /\ svs' = SV_FreeClient(svs, c)
  <2>1. PICK d : d = SV_FreeClient(svs, c)
    OBVIOUS
  <2>2. /\ d \in Server(n) /\ d.replaced = svs.replaced /\ d.dangling = svs.dangling
        /\ d.players = svs.players
        /\ \A e \in Clients(svs) \ {c} : d.clients[e] = svs.clients[e]
        /\ Ordered(svs) /\ c \notin Connected(svs) => Ordered(d)
    BY ONLY <1>1, <1>2, <2>1, FreeClientResult
  <2>3. c \notin Connected(svs)
    BY <1>3 DEF Connected
  <2>4. d = svs'
    BY <1>3, <2>1
  <2>5. QED
    BY <1>1, <2>2, <2>3, <2>4, KeepsIf
<1>4. CASE svs.clients[c].state = "connected" /\ svs' = SV_FreeClient(SV_DropClient(svs, c), c)
  <2>1. PICK s : s = SV_DropClient(svs, c)
    OBVIOUS
  <2>2. c \in Connected(svs)
    BY <1>4 DEF Connected
  <2>3. s \in Server(n) /\ s.replaced = svs.replaced /\ s.dangling = svs.dangling
    BY ONLY <1>1, <1>2, <2>1, DropClientTyped
  <2>4. ASSUME Ordered(svs)
        PROVE  /\ Ordered(s) /\ Others(s, svs, c)
               /\ Connected(s) = Connected(svs) \ {c}
    BY ONLY <1>1, <2>1, <2>2, <2>4, DropClientOwned
  <2>5. PICK d : d = SV_FreeClient(s, c)
    OBVIOUS
  <2>6. /\ d \in Server(n) /\ d.replaced = s.replaced /\ d.dangling = s.dangling
        /\ d.players = s.players
        /\ \A e \in Clients(s) \ {c} : d.clients[e] = s.clients[e]
        /\ Ordered(s) /\ c \notin Connected(s) => Ordered(d)
    BY ONLY <1>1, <1>2, <2>3, <2>5, FreeClientResult
  <2>7. Ordered(svs) =>
           /\ Ordered(d)
           /\ \A e \in Clients(svs) \ {c} : d.clients[e] = svs.clients[e]
           /\ \A p \in InUse(svs) : svs.players[p].client # c => d.players[p] = svs.players[p]
    BY <2>4, <2>6 DEF Others, InUse
  <2>8. d = svs'
    BY <1>4, <2>1, <2>5
  <2>9. d.replaced = svs.replaced /\ d.dangling = svs.dangling
    BY <2>3, <2>6
  <2>10. QED
    BY <1>1, <2>6, <2>7, <2>8, <2>9, KeepsIf
<1>5. QED
  BY <1>3, <1>4 DEF SV_CheckTimeouts

LEMMA SingleKeeps ==
  ASSUME SlotsInv, NEW c \in Clients(svs), Single(c)
  PROVE  Keeps(c)
<1>1. CASE c \in Connected(svs) \ Bots(svs) /\ ClientCommand(c)
  BY <1>1, DropInKeeps, DropOutKeeps DEF ClientCommand
<1>2. CASE c \in Connected(svs) /\ SV_Disconnect_f(c)
  BY <1>2, DisconnectKeeps
<1>3. CASE \E p \in InUse(svs) : svs.players[p].client = c /\ SV_Kick_f(p)
  BY <1>3, KickKeeps
<1>4. CASE SV_CheckTimeouts(c)
  BY <1>4, CheckTimeoutsKeeps
<1>5. QED
  BY <1>1, <1>2, <1>3, <1>4 DEF Single

(***************************************************************************)
(* A bot comes.                                                            *)
(***************************************************************************)

LEMMA BotOwned ==
  ASSUME NEW n \in Nat \ {0}, NEW st \in Server(n), Ordered(st), NEW c \in FreeSlots(st),
         NEW p \in Unused(st), Held(st, c) \ {0} = {},
         NEW d \in Server(n), d.clients[c].state = "connected",
         d.clients[c].remoteAddress = NA_BOT, Lp(d, c, 0) = p,
         \A j \in Locals \ {0} : Lp(d, c, j) = Lp(st, c, j),
         \A e \in (0 .. n - 1) \ {c} : d.clients[e] = st.clients[e],
         d.players[p].inUse, d.players[p].client = c,
         \A q \in (0 .. n - 1) \ {p} : d.players[q] = st.players[q],
         d.playing = st.playing \cup {p}, d.spurious = st.spurious,
         d.undefined = st.undefined
  PROVE  Ordered(d)
<1>1. /\ Clients(st) = 0 .. n - 1 /\ Players(st) = 0 .. n - 1
      /\ Clients(d) = 0 .. n - 1 /\ Players(d) = 0 .. n - 1
      /\ Connected(st) \subseteq 0 .. n - 1
      /\ c \in 0 .. n - 1 /\ p \in 0 .. n - 1 /\ c \notin Connected(st) /\ p \notin InUse(st)
      /\ None \notin 0 .. n - 1
  BY SlotFields DEF Connected, FreeSlots, Unused, None
<1>2. /\ Held1(st, Connected(st)) /\ Known(st) /\ OneSlot(st) /\ BotsHold(st)
      /\ \A e \in Connected(st) : Held(st, e) # {}
  BY DEF Ordered, Owned
<1>3. Held(d, c) = {0}
  <2>1. 0 \in Locals
    BY <1>1, HeldIs
  <2>2. \A j : j \in Held(d, c) <=> j \in Locals /\ Lp(d, c, j) # None
    BY DEF Held, Lp
  <2>3. \A j : j \in Held(st, c) <=> j \in Locals /\ Lp(st, c, j) # None
    BY DEF Held, Lp
  <2>4. \A j \in Held(d, c) : j = 0
    BY <2>2, <2>3
  <2>5. QED
    BY <1>1, <2>1, <2>2, <2>4
<1>4. \A e \in Connected(st) : Held(d, e) = Held(st, e) /\ e # c
                               /\ \A i : Lp(d, e, i) = Lp(st, e, i)
  BY <1>1 DEF Held, Lp
<1>5. Connected(d) = Connected(st) \cup {c} /\ InUse(d) = InUse(st) \cup {p}
      /\ \A q \in InUse(st) : q # p /\ d.players[q] = st.players[q]
  BY <1>1 DEF Connected, InUse
<1>6. Held1(d, Connected(d))
  <2>1. ASSUME NEW e \in Connected(st), NEW j \in Held(st, e)
        PROVE  d.players[Lp(st, e, j)].inUse /\ d.players[Lp(st, e, j)].client = e
    <3>1. /\ st.players[Lp(st, e, j)].inUse /\ st.players[Lp(st, e, j)].client = e
          /\ Lp(st, e, j) \in 0 .. n - 1
      BY <1>1, <1>2, HeldIs DEF Held1
    <3>2. Lp(st, e, j) \in InUse(st)
      BY <1>1, <3>1 DEF InUse
    <3>3. QED
      BY <1>5, <3>1, <3>2
  <2>2. \A e \in Connected(d) : \A j \in Held(d, e) :
          d.players[Lp(d, e, j)].inUse /\ d.players[Lp(d, e, j)].client = e
    BY <1>3, <1>4, <1>5, <2>1
  <2>3. \A e \in Connected(d) : \A i, j \in Held(d, e) : Lp(d, e, i) = Lp(d, e, j) => i = j
    BY <1>2, <1>3, <1>4, <1>5 DEF Held1
  <2>4. ASSUME NEW q \in InUse(d)
        PROVE  /\ d.players[q].client \in Connected(d)
               /\ \E j \in Held(d, d.players[q].client) : Lp(d, d.players[q].client, j) = q
    <3>1. CASE q = p
      BY <1>3, <1>5, <3>1
    <3>2. CASE q \in InUse(st)
      BY <1>2, <1>4, <1>5, <3>2 DEF Held1
    <3>3. QED
      BY <1>5, <3>1, <3>2
  <2>5. Connected(d) \subseteq Clients(d)
    BY DEF Connected
  <2>6. QED
    BY <2>2, <2>3, <2>4, <2>5 DEF Held1
<1>7. Known(d)
  BY <1>2, <1>5 DEF Known
<1>8. OneSlot(d)
  <2>1. ASSUME NEW e \in Clients(d) \ FreeSlots(d), e # c
        PROVE  e \in Clients(st) \ FreeSlots(st) /\ d.clients[e] = st.clients[e]
    BY <1>1, <2>1 DEF FreeSlots
  <2>2. ASSUME NEW e \in Clients(d) \ FreeSlots(d), NEW f \in Clients(d) \ FreeSlots(d),
               d.clients[e].remoteAddress = d.clients[f].remoteAddress,
               d.clients[e].remoteAddress # NA_BOT
        PROVE  e = f
    <3>1. e # c /\ f # c
      BY <2>2
    <3>2. QED
      BY <1>2, <2>1, <2>2, <3>1 DEF OneSlot
  <2>3. QED
    BY <2>2 DEF OneSlot
<1>9. BotsHold(d)
  <2>1. ASSUME NEW e \in Bots(d) PROVE Held(d, e) = {0}
    <3>1. CASE e = c
      BY <1>3, <3>1
    <3>2. CASE e # c
      <4>1. e \in Connected(st) /\ d.clients[e] = st.clients[e]
            /\ d.clients[e].remoteAddress = NA_BOT
        BY <1>1, <1>5, <3>2 DEF Bots
      <4>2. e \in Bots(st)
        BY <4>1 DEF Bots
      <4>3. QED
        BY <1>2, <1>4, <4>1, <4>2 DEF BotsHold
    <3>3. QED
      BY <3>1, <3>2
  <2>2. QED
    BY <2>1 DEF BotsHold
<1>10. \A e \in Connected(d) : Held(d, e) # {}
  BY <1>2, <1>3, <1>4, <1>5
<1>11. QED
  BY <1>6, <1>7, <1>8, <1>9, <1>10 DEF Ordered, Owned

LEMMA BotAllocateClientInv ==
  ASSUME SlotsInv, SV_BotAllocateClient
  PROVE  SlotsInv' /\ (Orderly' => \A e \in Connected(svs) : Stays(e))
<1> DEFINE c == Min(FreeSlots(svs))
           p == Min(Unused(svs))
           b == svs.dangling \/ Held(svs, c) \ {0} # {}
           q == svs.playing \cup {p}
           y == [svs.players[p] EXCEPT !.inUse = TRUE, !.client = c]
           l == [svs.clients[c].localPlayers EXCEPT ![0] = p]
           x == [svs.clients[c] EXCEPT !.state = "connected", !.remoteAddress = NA_BOT,
                                       !.localPlayers = l]
           s == SetPlayer(svs, p, y)
           t == SetClient(s, c, x)
<1>1. PICK n \in Nat \ {0} : svs \in Server(n)
  BY DEF SlotsInv
<1>2. /\ Clients(svs) = 0 .. n - 1 /\ Players(svs) = 0 .. n - 1 /\ 0 .. n - 1 \subseteq Nat
      /\ svs.dangling \in BOOLEAN /\ svs.playing \subseteq Nat
      /\ 0 .. n - 1 \subseteq None .. n - 1
  BY <1>1, SlotFields
<1>3. c \in FreeSlots(svs) /\ p \in Unused(svs)
  <2>1. FreeSlots(svs) \in SUBSET Nat /\ Unused(svs) \in SUBSET Nat
    BY <1>2 DEF FreeSlots, Unused
  <2>2. FreeSlots(svs) # {} /\ Unused(svs) # {}
    BY DEF SV_BotAllocateClient
  <2>3. QED
    BY <2>1, <2>2, MinIs
<1>4. c \in 0 .. n - 1 /\ p \in 0 .. n - 1
  BY <1>2, <1>3 DEF FreeSlots, Unused
<1>5. svs' = [svs EXCEPT !.players[p] = [svs.players[p] EXCEPT !.inUse = TRUE, !.client = c],
                         !.clients[c] = [svs.clients[c] EXCEPT !.state = "connected",
                                           !.remoteAddress = NA_BOT, !.localPlayers[0] = p],
                         !.playing = q, !.dangling = b]
  BY DEF SV_BotAllocateClient
<1> HIDE DEF b, q, c, p
<1>6. /\ svs.clients[c] \in ClientOf(n) /\ svs.players[p] \in PlayerOf(n) /\ 0 \in Locals
      /\ svs.clients[c].localPlayers \in [Locals -> None .. n - 1]
  BY <1>1, <1>4, SlotFields, HeldIs
<1>7. svs' = [t EXCEPT !.playing = q, !.dangling = b]
  <2>1. x = [svs.clients[c] EXCEPT !.state = "connected",
                                   !.remoteAddress = NA_BOT, !.localPlayers[0] = p]
    BY <1>6 DEF ClientOf
  <2>2. svs' = [svs EXCEPT !.players[p] = y, !.clients[c] = x, !.playing = q, !.dangling = b]
    BY <1>5, <2>1
  <2> HIDE DEF x, y
  <2>3. QED
    BY <1>1, <1>4, <2>2 DEF Server, SetPlayer, SetClient
<1>8. y \in PlayerOf(n) /\ y.inUse /\ y.client = c
  BY <1>2, <1>4, <1>6 DEF PlayerOf
<1>9. l \in [Locals -> None .. n - 1] /\ l[0] = p
      /\ \A j \in Locals \ {0} : l[j] = svs.clients[c].localPlayers[j]
  BY <1>2, <1>4, <1>6
<1> HIDE DEF l, y
<1>10. /\ x \in ClientOf(n) /\ x.state = "connected" /\ x.remoteAddress = NA_BOT
       /\ x.localPlayers = l
  BY <1>6, <1>9 DEF ClientOf
<1> HIDE DEF x
<1>11. /\ s \in Server(n) /\ s.players[p] = y
       /\ \A r \in (0 .. n - 1) \ {p} : s.players[r] = svs.players[r]
       /\ s.clients = svs.clients /\ s.playing = svs.playing /\ s.spurious = svs.spurious
       /\ s.replaced = svs.replaced /\ s.dangling = svs.dangling
       /\ s.undefined = svs.undefined
  BY <1>1, <1>4, <1>8, ChangedPlayer
<1> HIDE DEF s
<1>12. /\ t \in Server(n) /\ t.clients[c] = x
       /\ \A e \in (0 .. n - 1) \ {c} : t.clients[e] = s.clients[e]
       /\ t.players = s.players /\ t.playing = s.playing /\ t.spurious = s.spurious
       /\ t.replaced = s.replaced /\ t.dangling = s.dangling
       /\ t.undefined = s.undefined
  BY <1>4, <1>10, <1>11, ChangedClient
<1> HIDE DEF t
<1>13. q \subseteq Nat /\ b \in BOOLEAN
  BY <1>2, <1>4 DEF q, b
<1>14. /\ svs' \in Server(n) /\ svs'.clients = t.clients /\ svs'.players = t.players
       /\ svs'.playing = q /\ svs'.spurious = t.spurious /\ svs'.undefined = t.undefined
       /\ svs'.replaced = t.replaced /\ svs'.dangling = b
  BY <1>7, <1>12, <1>13 DEF Server
<1>15. ASSUME Orderly'
       PROVE  Ordered(svs') /\ \A e \in Connected(svs) : Stays(e)
  <2>1. ~svs.replaced /\ ~b
    BY <1>11, <1>12, <1>14, <1>15 DEF Orderly
  <2>2. Ordered(svs) /\ Held(svs, c) \ {0} = {}
    BY <2>1 DEF b, SlotsInv, InOrder
  <2>3. PICK d \in Server(n) : d = svs'
    BY <1>14
  <2>4. /\ d.clients[c].state = "connected" /\ d.clients[c].remoteAddress = NA_BOT
        /\ Lp(d, c, 0) = p /\ \A j \in Locals \ {0} : Lp(d, c, j) = Lp(svs, c, j)
    BY <1>9, <1>10, <1>12, <1>14, <2>3 DEF Lp
  <2>5. /\ \A e \in (0 .. n - 1) \ {c} : d.clients[e] = svs.clients[e]
        /\ d.players[p].inUse /\ d.players[p].client = c
        /\ \A r \in (0 .. n - 1) \ {p} : d.players[r] = svs.players[r]
        /\ d.playing = svs.playing \cup {p} /\ d.spurious = svs.spurious
        /\ d.undefined = svs.undefined
    BY <1>8, <1>11, <1>12, <1>14, <2>3 DEF q
  <2>6. n \in Nat \ {0} /\ svs \in Server(n)
    BY <1>1
  <2>7. Ordered(d)
    BY ONLY <1>3, <2>2, <2>4, <2>5, <2>6, BotOwned
  <2>8. ASSUME NEW e \in Connected(svs) PROVE Stays(e)
    <3>1. e \in 0 .. n - 1 /\ e # c
      BY <1>2, <1>3 DEF Connected, FreeSlots
    <3>2. \A r \in InUse(svs) : svs'.players[r] = svs.players[r]
      BY <1>2, <1>3, <2>3, <2>5 DEF InUse, Unused
    <3>3. QED
      BY <2>2, <2>3, <2>5, <2>6, <3>1, <3>2, OtherStays
  <2>9. QED
    BY <2>3, <2>7, <2>8
<1>16. InOrder(svs')
  BY <1>15 DEF InOrder, Orderly
<1>17. QED
  BY <1>14, <1>15, <1>16 DEF SlotsInv

(***************************************************************************)
(* Everyone is kicked.                                                     *)
(***************************************************************************)

\* What the order of a state depends on.
LEMMA OrderKept ==
  ASSUME NEW st, NEW d, Ordered(st), Connected(st) \subseteq Clients(d),
         Connected(d) = Connected(st), InUse(d) = InUse(st),
         \A e \in Connected(st) : d.clients[e] = st.clients[e],
         \A p \in InUse(st) : d.players[p] = st.players[p],
         \A e \in Connected(st) : \A j \in Held(st, e) : Lp(st, e, j) \in InUse(st),
         \A e \in Clients(d) \ FreeSlots(d) :
           e \in Clients(st) \ FreeSlots(st) /\ d.clients[e] = st.clients[e],
         d.playing = st.playing, d.spurious = st.spurious, d.undefined = st.undefined
  PROVE  Ordered(d)
<1>1. /\ Held1(st, Connected(st)) /\ Known(st) /\ OneSlot(st) /\ BotsHold(st)
      /\ \A e \in Connected(st) : Held(st, e) # {}
  BY DEF Ordered, Owned
<1>2. \A e \in Connected(st) : Held(d, e) = Held(st, e) /\ \A i : Lp(d, e, i) = Lp(st, e, i)
  BY DEF Held, Lp
<1>3. Held1(d, Connected(d))
  <2>1. \A e \in Connected(d) : \A j \in Held(d, e) :
          d.players[Lp(d, e, j)].inUse /\ d.players[Lp(d, e, j)].client = e
    BY <1>1, <1>2 DEF Held1
  <2>2. \A e \in Connected(d) : \A i, j \in Held(d, e) : Lp(d, e, i) = Lp(d, e, j) => i = j
    BY <1>1, <1>2 DEF Held1
  <2>3. \A p \in InUse(d) :
          /\ d.players[p].client \in Connected(d)
          /\ \E j \in Held(d, d.players[p].client) : Lp(d, d.players[p].client, j) = p
    BY <1>1, <1>2 DEF Held1
  <2>4. QED
    BY <2>1, <2>2, <2>3 DEF Held1
<1>4. Known(d)
  BY <1>1 DEF Known
<1>5. OneSlot(d)
  BY <1>1 DEF OneSlot
<1>6. BotsHold(d)
  BY <1>1, <1>2 DEF BotsHold, Bots
<1>7. \A e \in Connected(d) : Held(d, e) # {}
  BY <1>1, <1>2
<1>8. QED
  BY <1>3, <1>4, <1>5, <1>6, <1>7 DEF Ordered, Owned

\* A connected client's players are in use and its own.
LEMMA HeldInUse ==
  ASSUME NEW n \in Nat \ {0}, NEW st \in Server(n), Ordered(st), NEW e \in Connected(st),
         NEW j \in Held(st, e)
  PROVE  /\ Lp(st, e, j) \in InUse(st) /\ Lp(st, e, j) \in 0 .. n - 1
         /\ st.players[Lp(st, e, j)].client = e
<1>1. e \in 0 .. n - 1 /\ Players(st) = 0 .. n - 1
  BY SlotFields DEF Connected
<1>2. Lp(st, e, j) \in 0 .. n - 1
  BY <1>1, HeldIs
<1>3. QED
  BY <1>1, <1>2 DEF Ordered, Owned, Held1, InUse

LEMMA FlagsKeepOrder ==
  ASSUME NEW n \in Nat \ {0}, NEW st \in Server(n), NEW d \in Server(n), Ordered(st),
         d.clients = st.clients, d.players = st.players, d.playing = st.playing,
         d.spurious = st.spurious, d.undefined = st.undefined
  PROVE  Ordered(d)
<1>1. /\ Clients(d) = Clients(st) /\ Connected(d) = Connected(st) /\ InUse(d) = InUse(st)
      /\ FreeSlots(d) = FreeSlots(st) /\ Connected(st) \subseteq Clients(d)
  BY DEF Clients, Players, Connected, InUse, FreeSlots
<1>2. \A e \in Connected(st) : \A j \in Held(st, e) : Lp(st, e, j) \in InUse(st)
  BY HeldInUse
<1>3. QED
  BY <1>1, <1>2, OrderKept

\* A zombie that has only its own players is left as it is.
LEMMA ZombieStays ==
  ASSUME NEW n \in Nat \ {0}, NEW st \in Server(n), NEW c \in 0 .. n - 1,
         st.clients[c].state = "zombie",
         \A p \in PlayersOf(st, c) : st.players[p].client = c
  PROVE  SV_DropClient(st, c) = st
<1>1. PICK run \in [0 .. MAX_SPLITVIEW -> Server(n)] :
            /\ run[0] = st
            /\ \A i \in 0 .. MAX_SPLITVIEW - 1 : run[i + 1] = DropLocal(run[i], c, i)
            /\ run[MAX_SPLITVIEW] = SV_DropClient(st, c)
  BY DropClientRun
<1>2. MAX_SPLITVIEW \in Nat /\ Locals = 0 .. MAX_SPLITVIEW - 1
  BY SlotsAssumption DEF Locals
<1>3. ASSUME NEW j \in Locals PROVE DropLocal(st, c, j) = st
  <2>1. CASE j \notin Held(st, c)
    BY <2>1 DEF DropLocal
  <2>2. CASE j \in Held(st, c)
    <3>1. PICK p : p = Lp(st, c, j)
      OBVIOUS
    <3>2. p \in PlayersOf(st, c)
      BY <2>2, <3>1 DEF PlayersOf, Lp
    <3>3. st.players[p].client = c /\ c # None
      BY <3>2 DEF None
    <3>4. SV_DropPlayer(st, p, TRUE) = st
      BY <3>3 DEF SV_DropPlayer, AlreadyDropped
    <3>5. QED
      BY <2>2, <3>1, <3>4 DEF DropLocal, Lp
  <2>3. QED
    BY <2>1, <2>2
<1> DEFINE T == {i \in 0 .. MAX_SPLITVIEW : run[i] = st}
<1>4. 0 \in T
  BY <1>1, <1>2
<1>5. ASSUME NEW i \in 0 .. MAX_SPLITVIEW, i \in T, i < MAX_SPLITVIEW PROVE i + 1 \in T
  <2>1. i \in 0 .. MAX_SPLITVIEW - 1 /\ i \in Locals /\ i + 1 \in 0 .. MAX_SPLITVIEW
    BY <1>2, <1>5
  <2>2. QED
    BY <1>1, <1>3, <1>5, <2>1
<1>6. \A i \in 0 .. MAX_SPLITVIEW : i \in T
  <2> HIDE DEF T
  <2>1. QED
    BY <1>2, <1>4, <1>5, IntervalInduction
<1>7. MAX_SPLITVIEW \in 0 .. MAX_SPLITVIEW
  BY <1>2
<1>8. QED
  BY <1>1, <1>6, <1>7

KickOne(s, c) ==
  IF s.clients[c].state = "free" THEN s
  ELSE [SV_DropClient(s, c) EXCEPT
          !.dangling = @ \/ \E p \in PlayersOf(s, c) : s.players[p].client # c]

LEMMA KickOneKeepsOrder ==
  ASSUME NEW n \in Nat \ {0}, NEW s \in Server(n), NEW c \in 0 .. n - 1,
         NEW d, d = KickOne(s, c)
  PROVE  d \in Server(n) /\ (InOrder(s) => InOrder(d))
<1> DEFINE b == s.dangling \/ \E p \in PlayersOf(s, c) : s.players[p].client # c
<1>1. CASE s.clients[c].state = "free"
  BY <1>1 DEF KickOne
<1>2. CASE s.clients[c].state # "free"
  <2>1. PICK e : e = SV_DropClient(s, c)
    OBVIOUS
  <2>2. n \in Nat \ {0} /\ s \in Server(n) /\ c \in 0 .. n - 1
    OBVIOUS
  <2>3. e \in Server(n) /\ e.replaced = s.replaced /\ e.dangling = s.dangling
    BY ONLY <2>1, <2>2, DropClientTyped
  <2>4. s.dangling \in BOOLEAN
    BY SlotFields
  <2>5. d = [e EXCEPT !.dangling = b]
    BY <1>2, <2>1, <2>3 DEF KickOne
  <2>6. b \in BOOLEAN
    BY <2>4
  <2> HIDE DEF b
  <2>7. /\ d \in Server(n) /\ d.clients = e.clients /\ d.players = e.players
        /\ d.playing = e.playing /\ d.spurious = e.spurious /\ d.undefined = e.undefined
        /\ d.replaced = e.replaced /\ d.dangling = b
    BY <2>3, <2>5, <2>6 DEF Server
  <2>8. ASSUME InOrder(s), ~d.replaced, ~d.dangling PROVE Ordered(d)
    <3>1. /\ ~s.replaced /\ ~s.dangling /\ \A p \in PlayersOf(s, c) : s.players[p].client = c
      BY <2>3, <2>7, <2>8 DEF b
    <3>2. Ordered(s)
      BY <2>8, <3>1 DEF InOrder
    <3>3. Ordered(e)
      <4>1. CASE s.clients[c].state = "zombie"
        <5>1. SV_DropClient(s, c) = s
          BY <3>1, <4>1, ZombieStays
        <5>2. QED
          BY <2>1, <3>2, <5>1
      <4>2. CASE s.clients[c].state = "connected"
        <5>1. c \in Connected(s)
          BY <4>2, SlotFields DEF Connected
        <5>2. QED
          BY ONLY <2>1, <2>2, <3>2, <5>1, DropClientOwned
      <4>3. QED
        BY <1>2, <4>1, <4>2, SlotFields
    <3>4. QED
      BY <2>3, <2>7, <3>3, FlagsKeepOrder
  <2>9. QED
    BY <2>7, <2>8 DEF InOrder
<1>3. QED
  BY <1>1, <1>2

\* As many slots as there are clients.
LEMMA MaxClients ==
  ASSUME NEW n \in Nat \ {0}, NEW st \in Server(n)
  PROVE  sv_maxclients(st) = n
<1>1. Clients(st) = 0 .. n - 1
  BY SlotFields
<1>2. Cardinality(0 .. n - 1) = n
  <2>1. Cardinality(0 .. n - 1) = IF 0 > n - 1 THEN 0 ELSE (n - 1) - 0 + 1
    BY FS_Interval
  <2>2. QED
    BY <2>1
<1>3. QED
  BY <1>1, <1>2 DEF sv_maxclients

LEMMA KickAllRun ==
  ASSUME NEW n \in Nat \ {0}, svs \in Server(n), SV_KickAll_f
  PROVE  \E run \in [0 .. sv_maxclients(svs) -> Server(n)] :
            /\ run[0] = svs
            /\ \A i \in 0 .. sv_maxclients(svs) - 1 : run[i + 1] = KickOne(run[i], i)
            /\ run[sv_maxclients(svs)] = svs'
<1> DEFINE M == sv_maxclients(svs)
           S == Server(n)
           step == [x \in S \X (0 .. M - 1) |-> KickOne(x[1], x[2])]
           Solves(f) == f = [i \in 0 .. M |->
                               IF i = 0 THEN svs ELSE KickOne(f[i - 1], i - 1)]
           it == CHOOSE f : Solves(f)
<1>1. M \in Nat /\ 0 .. M - 1 = 0 .. n - 1
  BY MaxClients
<1>2. step \in [S \X (0 .. M - 1) -> S]
  BY <1>1, KickOneKeepsOrder
<1>3. PICK f \in [0 .. M -> S] :
        \A i \in 0 .. M : f[i] = IF i = 0 THEN svs ELSE step[<<f[i - 1], i - 1>>]
  <2> HIDE DEF step, M, S
  <2>1. svs \in S
    BY DEF S
  <2>2. \E f : IsLoop(f, M, S, svs, step)
    BY <1>1, <1>2, <2>1, LoopExists, Zenon
  <2>3. QED
    BY <2>2, Zenon DEF IsLoop
<1>4. \A i \in 0 .. M : f[i] = IF i = 0 THEN svs ELSE KickOne(f[i - 1], i - 1)
  <2>1. ASSUME NEW i \in 0 .. M, i # 0
        PROVE  step[<<f[i - 1], i - 1>>] = KickOne(f[i - 1], i - 1)
    <3>1. i - 1 \in 0 .. M - 1 /\ i - 1 \in 0 .. M
      BY <1>1, <2>1
    <3>2. f[i - 1] \in S
      BY <3>1
    <3>3. QED
      BY <3>1, <3>2
  <2> HIDE DEF step
  <2>2. QED
    BY <1>3, <2>1
<1>5. Solves(f)
  <2>1. f = [i \in 0 .. M |-> f[i]]
    BY <1>3
  <2>2. QED
    BY <1>4, <2>1, Zenon
<1>6. Solves(it)
  BY <1>5, Zenon
<1>7. \A i \in 0 .. M : it[i] = f[i]
  <2> DEFINE T == {i \in 0 .. M : it[i] = f[i]}
  <2>1. \A i \in 0 .. M : it[i] = IF i = 0 THEN svs ELSE KickOne(it[i - 1], i - 1)
    BY <1>6
  <2> HIDE DEF it, M
  <2>2. 0 \in T
    BY <1>1, <1>4, <2>1
  <2>3. ASSUME NEW i \in 0 .. M, i \in T, i < M PROVE i + 1 \in T
    <3>1. i + 1 \in 0 .. M /\ i + 1 # 0 /\ (i + 1) - 1 = i
      BY <1>1, <2>3
    <3>2. it[i + 1] = KickOne(it[i], i) /\ f[i + 1] = KickOne(f[i], i)
      BY <1>4, <2>1, <3>1
    <3>3. QED
      BY <2>3, <3>1, <3>2
  <2> HIDE DEF T
  <2>4. \A i \in 0 .. M : i \in T
    BY <1>1, <2>2, <2>3, IntervalInduction
  <2>5. QED
    BY <2>4 DEF T
<1>8. svs' = it[M]
  BY Zenon DEF SV_KickAll_f, Loop, KickOne
<1>9. M \in 0 .. M /\ 0 \in 0 .. M
  BY <1>1
<1>10. f[M] = svs' /\ f[0] = svs
  BY <1>4, <1>7, <1>8, <1>9
<1>11. ASSUME NEW i \in 0 .. M - 1
       PROVE  f[i + 1] = KickOne(f[i], i)
  <2>1. i + 1 \in 0 .. M /\ i + 1 # 0 /\ (i + 1) - 1 = i
    BY <1>1
  <2>2. QED
    BY <1>4, <2>1
<1>12. QED
  BY <1>10, <1>11


LEMMA KickAllInv ==
  ASSUME SlotsInv, SV_KickAll_f
  PROVE  SlotsInv'
<1>1. PICK n \in Nat \ {0} : svs \in Server(n)
  BY DEF SlotsInv
<1>2. sv_maxclients(svs) = n
  BY <1>1, MaxClients
<1>3. PICK run \in [0 .. n -> Server(n)] :
            /\ run[0] = svs
            /\ \A i \in 0 .. n - 1 : run[i + 1] = KickOne(run[i], i)
            /\ run[n] = svs'
  BY <1>1, <1>2, KickAllRun
<1> DEFINE T == {i \in 0 .. n : InOrder(run[i])}
<1>4. 0 \in T
  BY <1>3 DEF SlotsInv
<1>5. ASSUME NEW i \in 0 .. n, i \in T, i < n PROVE i + 1 \in T
  <2>1. i \in 0 .. n - 1 /\ i + 1 \in 0 .. n
    BY <1>5
  <2>2. PICK s \in Server(n) : s = run[i]
    BY <1>3
  <2>3. PICK e : e = KickOne(s, i)
    OBVIOUS
  <2>4. InOrder(s) => InOrder(e)
    BY ONLY <2>1, <2>2, <2>3, KickOneKeepsOrder
  <2>5. QED
    BY <1>3, <1>5, <2>1, <2>2, <2>3, <2>4
<1>6. \A i \in 0 .. n : i \in T
  <2> HIDE DEF T
  <2>1. QED
    BY <1>4, <1>5, IntervalInduction
<1>7. n \in 0 .. n
  OBVIOUS
<1>8. svs' \in Server(n) /\ InOrder(svs')
  BY <1>3, <1>6, <1>7
<1>9. QED
  BY <1>8 DEF SlotsInv

(***************************************************************************)
(* A new map, and another size of the server.                              *)
(***************************************************************************)

AgainLocal(s, c, j, denied) ==
  IF j \notin Held(s, c) THEN s
  ELSE LET p == s.clients[c].localPlayers[j]
       IN  IF p \in denied THEN SV_DropPlayer(s, p, TRUE) ELSE s

LEMMA AgainLocalTyped ==
  ASSUME NEW n \in Nat \ {0}, NEW st \in Server(n), NEW c \in 0 .. n - 1, NEW j \in Locals,
         NEW denied, NEW d, d = AgainLocal(st, c, j, denied)
  PROVE  d \in Server(n) /\ d.replaced = st.replaced /\ d.dangling = st.dangling
<1>1. PICK p : p = Lp(st, c, j)
  OBVIOUS
<1>2. CASE j \notin Held(st, c) \/ p \notin denied
  BY <1>1, <1>2 DEF AgainLocal, Lp
<1>3. CASE j \in Held(st, c) /\ p \in denied
  <2>1. p \in 0 .. n - 1
    BY <1>1, <1>3, HeldIs
  <2>2. PICK agreed \in BOOLEAN : agreed = TRUE
    OBVIOUS
  <2>3. PICK e : e = st.players[p].client
    OBVIOUS
  <2>4. n \in Nat \ {0} /\ st \in Server(n) /\ d = SV_DropPlayer(st, p, agreed)
    BY <1>1, <1>3, <2>2 DEF AgainLocal, Lp
  <2>5. QED
    BY ONLY <2>1, <2>3, <2>4, DropPlayerResult
<1>4. QED
  BY <1>2, <1>3

LEMMA AgainRun ==
  ASSUME NEW n \in Nat \ {0}, NEW st \in Server(n), NEW c \in 0 .. n - 1, NEW denied, c \in Connected(st)
  PROVE  \E run \in [0 .. MAX_SPLITVIEW -> Server(n)] :
            /\ run[0] = st
            /\ \A i \in 0 .. MAX_SPLITVIEW - 1 : run[i + 1] = AgainLocal(run[i], c, i, denied)
            /\ run[MAX_SPLITVIEW] = Again(st, c, denied)
<1> DEFINE M == MAX_SPLITVIEW
           S == Server(n)
           step == [x \in S \X (0 .. M - 1) |-> AgainLocal(x[1], c, x[2], denied)]
           Solves(f) == f = [i \in 0 .. M |->
                               IF i = 0 THEN st ELSE AgainLocal(f[i - 1], c, i - 1, denied)]
           it == CHOOSE f : Solves(f)
<1>1. M \in Nat /\ Locals = 0 .. M - 1
  BY SlotsAssumption DEF Locals
<1>2. step \in [S \X (0 .. M - 1) -> S]
  BY <1>1, AgainLocalTyped
<1>3. PICK f \in [0 .. M -> S] :
        \A i \in 0 .. M : f[i] = IF i = 0 THEN st ELSE step[<<f[i - 1], i - 1>>]
  <2> HIDE DEF step, M, S
  <2>1. st \in S
    BY DEF S
  <2>2. \E f : IsLoop(f, M, S, st, step)
    BY <1>1, <1>2, <2>1, LoopExists, Zenon
  <2>3. QED
    BY <2>2, Zenon DEF IsLoop
<1>4. \A i \in 0 .. M : f[i] = IF i = 0 THEN st ELSE AgainLocal(f[i - 1], c, i - 1, denied)
  <2>1. ASSUME NEW i \in 0 .. M, i # 0
        PROVE  step[<<f[i - 1], i - 1>>] = AgainLocal(f[i - 1], c, i - 1, denied)
    <3>1. i - 1 \in 0 .. M - 1 /\ i - 1 \in 0 .. M
      BY <1>1, <2>1
    <3>2. f[i - 1] \in S
      BY <3>1
    <3>3. QED
      BY <3>1, <3>2
  <2> HIDE DEF step
  <2>2. QED
    BY <1>3, <2>1
<1>5. Solves(f)
  <2>1. f = [i \in 0 .. M |-> f[i]]
    BY <1>3
  <2>2. QED
    BY <1>4, <2>1, Zenon
<1>6. Solves(it)
  BY <1>5, Zenon
<1>7. \A i \in 0 .. M : it[i] = f[i]
  <2> DEFINE T == {i \in 0 .. M : it[i] = f[i]}
  <2>1. \A i \in 0 .. M : it[i] = IF i = 0 THEN st ELSE AgainLocal(it[i - 1], c, i - 1, denied)
    BY <1>6
  <2> HIDE DEF it, M
  <2>2. 0 \in T
    BY <1>1, <1>4, <2>1
  <2>3. ASSUME NEW i \in 0 .. M, i \in T, i < M PROVE i + 1 \in T
    <3>1. i + 1 \in 0 .. M /\ i + 1 # 0 /\ (i + 1) - 1 = i
      BY <1>1, <2>3
    <3>2. it[i + 1] = AgainLocal(it[i], c, i, denied) /\ f[i + 1] = AgainLocal(f[i], c, i, denied)
      BY <1>4, <2>1, <3>1
    <3>3. QED
      BY <2>3, <3>1, <3>2
  <2> HIDE DEF T
  <2>4. \A i \in 0 .. M : i \in T
    BY <1>1, <2>2, <2>3, IntervalInduction
  <2>5. QED
    BY <2>4 DEF T
<1>8. Again(st, c, denied) = it[M]
  BY Zenon DEF Again, Loop, AgainLocal
<1>9. M \in 0 .. M /\ 0 \in 0 .. M
  BY <1>1
<1>10. f[M] = Again(st, c, denied) /\ f[0] = st
  BY <1>4, <1>7, <1>8, <1>9
<1>11. ASSUME NEW i \in 0 .. M - 1
       PROVE  f[i + 1] = AgainLocal(f[i], c, i, denied)
  <2>1. i + 1 \in 0 .. M /\ i + 1 # 0 /\ (i + 1) - 1 = i
    BY <1>1
  <2>2. QED
    BY <1>4, <2>1
<1>12. QED
  BY <1>10, <1>11


LEMMA AgainTyped ==
  ASSUME NEW n \in Nat \ {0}, NEW st \in Server(n), NEW c \in 0 .. n - 1, NEW denied,
         NEW d, d = Again(st, c, denied)
  PROVE  d \in Server(n) /\ d.replaced = st.replaced /\ d.dangling = st.dangling
<1>1. CASE c \notin Connected(st)
  BY <1>1 DEF Again
<1>2. CASE c \in Connected(st)
  <2>1. PICK run \in [0 .. MAX_SPLITVIEW -> Server(n)] :
              /\ run[0] = st
              /\ \A i \in 0 .. MAX_SPLITVIEW - 1 : run[i + 1] = AgainLocal(run[i], c, i, denied)
              /\ run[MAX_SPLITVIEW] = Again(st, c, denied)
    BY <1>2, AgainRun
  <2>2. MAX_SPLITVIEW \in Nat /\ Locals = 0 .. MAX_SPLITVIEW - 1
    BY SlotsAssumption DEF Locals
  <2> DEFINE T == {i \in 0 .. MAX_SPLITVIEW :
                     run[i].replaced = st.replaced /\ run[i].dangling = st.dangling}
  <2>3. 0 \in T
    BY <2>1, <2>2
  <2>4. ASSUME NEW i \in 0 .. MAX_SPLITVIEW, i \in T, i < MAX_SPLITVIEW PROVE i + 1 \in T
    <3>1. i \in 0 .. MAX_SPLITVIEW - 1 /\ i \in Locals /\ i + 1 \in 0 .. MAX_SPLITVIEW
      BY <2>2, <2>4
    <3>2. run[i] \in Server(n) /\ run[i + 1] = AgainLocal(run[i], c, i, denied)
      BY <2>1, <3>1
    <3>3. run[i + 1].replaced = run[i].replaced /\ run[i + 1].dangling = run[i].dangling
      BY <3>1, <3>2, AgainLocalTyped
    <3>4. QED
      BY <2>4, <3>1, <3>3
  <2>5. \A i \in 0 .. MAX_SPLITVIEW : i \in T
    <3> HIDE DEF T
    <3>1. QED
      BY <2>2, <2>3, <2>4, IntervalInduction
  <2>6. MAX_SPLITVIEW \in 0 .. MAX_SPLITVIEW
    BY <2>2
  <2>7. QED
    BY <2>1, <2>5, <2>6
<1>3. QED
  BY <1>1, <1>2

\* Client c's first i players have been asked; it may have left with the last of them.
Asked(s, c, i) == Ordered(s) /\ (c \notin Connected(s) => \A j \in Held(s, c) : j < i)

LEMMA AgainLocalOwned ==
  ASSUME NEW n \in Nat \ {0}, NEW s \in Server(n), NEW c \in 0 .. n - 1,
         NEW i \in Locals, NEW denied, Asked(s, c, i), NEW d, d = AgainLocal(s, c, i, denied)
  PROVE  Asked(d, c, i + 1)
<1>1. Ordered(s) /\ (c \notin Connected(s) => \A j \in Held(s, c) : j < i)
  BY DEF Asked
<1>2. Held(s, c) \subseteq Locals /\ Locals \subseteq Nat
  BY HeldIs
<1>3. PICK p : p = Lp(s, c, i)
  OBVIOUS
<1>4. CASE i \notin Held(s, c) \/ p \notin denied
  <2>1. d = s
    BY <1>3, <1>4 DEF AgainLocal, Lp
  <2>2. ASSUME c \notin Connected(s), NEW j \in Held(s, c) PROVE j < i + 1
    <3>1. j < i /\ i \in Nat /\ j \in Nat
      BY <1>1, <1>2, <2>2
    <3>2. QED
      BY <3>1
  <2>3. QED
    BY <1>1, <2>1, <2>2 DEF Asked
<1>5. CASE i \in Held(s, c) /\ p \in denied
  <2>1. c \in Connected(s)
    <3>1. ~(i < i)
      BY <1>2
    <3>2. QED
      BY <1>1, <1>5, <3>1
  <2>2. p \in InUse(s) /\ c = s.players[p].client
    BY <1>1, <1>3, <1>5, <2>1, HeldInUse
  <2>3. PICK agreed \in BOOLEAN : agreed = TRUE
    OBVIOUS
  <2>4. /\ n \in Nat \ {0} /\ s \in Server(n) /\ Ordered(s)
        /\ d = SV_DropPlayer(s, p, agreed)
    BY <1>1, <1>3, <1>5, <2>3 DEF AgainLocal, Lp
  <2>5. PlayerLeft(d, s, n, p, c, agreed)
    BY ONLY <2>2, <2>4, DropPlayerOwned
  <2>6. PICK j \in Held(s, c) :
          Lp(s, c, j) = p /\ (c \notin Connected(d) => Held(d, c) \subseteq {j})
    BY <2>3, <2>5 DEF PlayerLeft
  <2>7. j = i
    BY <1>1, <1>3, <1>5, <2>1, <2>6 DEF Ordered, Owned, Held1
  <2>8. i < i + 1
    BY <1>2
  <2>9. c \notin Connected(d) => \A k \in Held(d, c) : k < i + 1
    BY <2>6, <2>7, <2>8
  <2>10. QED
    BY <2>5, <2>9 DEF Asked, PlayerLeft
<1>6. QED
  BY <1>4, <1>5

LEMMA AgainOwned ==
  ASSUME NEW n \in Nat \ {0}, NEW st \in Server(n), NEW c \in 0 .. n - 1, NEW denied,
         Ordered(st), NEW d, d = Again(st, c, denied)
  PROVE  Ordered(d)
<1>1. CASE c \notin Connected(st)
  BY <1>1 DEF Again
<1>2. CASE c \in Connected(st)
  <2>1. PICK run \in [0 .. MAX_SPLITVIEW -> Server(n)] :
              /\ run[0] = st
              /\ \A i \in 0 .. MAX_SPLITVIEW - 1 : run[i + 1] = AgainLocal(run[i], c, i, denied)
              /\ run[MAX_SPLITVIEW] = Again(st, c, denied)
    BY <1>2, AgainRun
  <2>2. MAX_SPLITVIEW \in Nat /\ Locals = 0 .. MAX_SPLITVIEW - 1
    BY SlotsAssumption DEF Locals
  <2> DEFINE T == {i \in 0 .. MAX_SPLITVIEW : Asked(run[i], c, i)}
  <2>3. 0 \in T
    BY <1>2, <2>1, <2>2 DEF Asked
  <2>4. ASSUME NEW i \in 0 .. MAX_SPLITVIEW, i \in T, i < MAX_SPLITVIEW PROVE i + 1 \in T
    <3>1. i \in 0 .. MAX_SPLITVIEW - 1 /\ i \in Locals /\ i + 1 \in 0 .. MAX_SPLITVIEW
      BY <2>2, <2>4
    <3>2. PICK s \in Server(n) : s = run[i]
      BY <2>1
    <3>3. PICK e : e = AgainLocal(s, c, i, denied)
      OBVIOUS
    <3>4. n \in Nat \ {0} /\ c \in 0 .. n - 1 /\ Asked(s, c, i)
      BY <2>4, <3>2
    <3>5. Asked(e, c, i + 1)
      BY ONLY <3>1, <3>3, <3>4, AgainLocalOwned
    <3>6. e = run[i + 1]
      BY <2>1, <3>1, <3>2, <3>3
    <3>7. QED
      BY <3>1, <3>5, <3>6
  <2>5. \A i \in 0 .. MAX_SPLITVIEW : i \in T
    <3> HIDE DEF T
    <3>1. QED
      BY <2>2, <2>3, <2>4, IntervalInduction
  <2>6. MAX_SPLITVIEW \in 0 .. MAX_SPLITVIEW
    BY <2>2
  <2>7. QED
    BY <2>1, <2>5, <2>6 DEF Asked
<1>3. QED
  BY <1>1, <1>2

ReconnectOne(s, c, killBots, denied) ==
  IF killBots /\ c \in Bots(s) THEN SV_DropClient(s, c) ELSE Again(s, c, denied)

LEMMA ReconnectOneKeepsOrder ==
  ASSUME NEW n \in Nat \ {0}, NEW s \in Server(n), NEW c \in 0 .. n - 1,
         NEW killBots, NEW denied, NEW d, d = ReconnectOne(s, c, killBots, denied)
  PROVE  d \in Server(n) /\ (InOrder(s) => InOrder(d))
<1>1. n \in Nat \ {0} /\ s \in Server(n) /\ c \in 0 .. n - 1
  OBVIOUS
<1>2. CASE killBots /\ c \in Bots(s)
  <2>1. d = SV_DropClient(s, c) /\ c \in Connected(s)
    BY <1>2 DEF ReconnectOne, Bots
  <2>2. d \in Server(n) /\ d.replaced = s.replaced /\ d.dangling = s.dangling
    BY ONLY <1>1, <2>1, DropClientTyped
  <2>3. ASSUME Ordered(s) PROVE Ordered(d)
    BY ONLY <1>1, <2>1, <2>3, DropClientOwned
  <2>4. QED
    BY <2>2, <2>3 DEF InOrder
<1>3. CASE ~(killBots /\ c \in Bots(s))
  <2>1. d = Again(s, c, denied)
    BY <1>3 DEF ReconnectOne
  <2>2. d \in Server(n) /\ d.replaced = s.replaced /\ d.dangling = s.dangling
    BY ONLY <1>1, <2>1, AgainTyped
  <2>3. ASSUME Ordered(s) PROVE Ordered(d)
    BY ONLY <1>1, <2>1, <2>3, AgainOwned
  <2>4. QED
    BY <2>2, <2>3 DEF InOrder
<1>4. QED
  BY <1>2, <1>3

LEMMA ReconnectRun ==
  ASSUME NEW n \in Nat \ {0}, NEW st \in Server(n), NEW killBots, NEW denied
  PROVE  \E run \in [0 .. sv_maxclients(st) -> Server(n)] :
            /\ run[0] = st
            /\ \A i \in 0 .. sv_maxclients(st) - 1 : run[i + 1] = ReconnectOne(run[i], i, killBots, denied)
            /\ run[sv_maxclients(st)] = Reconnect(st, killBots, denied)
<1> DEFINE M == sv_maxclients(st)
           S == Server(n)
           step == [x \in S \X (0 .. M - 1) |-> ReconnectOne(x[1], x[2], killBots, denied)]
           Solves(f) == f = [i \in 0 .. M |->
                               IF i = 0 THEN st ELSE ReconnectOne(f[i - 1], i - 1, killBots, denied)]
           it == CHOOSE f : Solves(f)
<1>1. M \in Nat /\ 0 .. M - 1 = 0 .. n - 1
  BY MaxClients
<1>2. step \in [S \X (0 .. M - 1) -> S]
  BY <1>1, ReconnectOneKeepsOrder
<1>3. PICK f \in [0 .. M -> S] :
        \A i \in 0 .. M : f[i] = IF i = 0 THEN st ELSE step[<<f[i - 1], i - 1>>]
  <2> HIDE DEF step, M, S
  <2>1. st \in S
    BY DEF S
  <2>2. \E f : IsLoop(f, M, S, st, step)
    BY <1>1, <1>2, <2>1, LoopExists, Zenon
  <2>3. QED
    BY <2>2, Zenon DEF IsLoop
<1>4. \A i \in 0 .. M : f[i] = IF i = 0 THEN st ELSE ReconnectOne(f[i - 1], i - 1, killBots, denied)
  <2>1. ASSUME NEW i \in 0 .. M, i # 0
        PROVE  step[<<f[i - 1], i - 1>>] = ReconnectOne(f[i - 1], i - 1, killBots, denied)
    <3>1. i - 1 \in 0 .. M - 1 /\ i - 1 \in 0 .. M
      BY <1>1, <2>1
    <3>2. f[i - 1] \in S
      BY <3>1
    <3>3. QED
      BY <3>1, <3>2
  <2> HIDE DEF step
  <2>2. QED
    BY <1>3, <2>1
<1>5. Solves(f)
  <2>1. f = [i \in 0 .. M |-> f[i]]
    BY <1>3
  <2>2. QED
    BY <1>4, <2>1, Zenon
<1>6. Solves(it)
  BY <1>5, Zenon
<1>7. \A i \in 0 .. M : it[i] = f[i]
  <2> DEFINE T == {i \in 0 .. M : it[i] = f[i]}
  <2>1. \A i \in 0 .. M : it[i] = IF i = 0 THEN st ELSE ReconnectOne(it[i - 1], i - 1, killBots, denied)
    BY <1>6
  <2> HIDE DEF it, M
  <2>2. 0 \in T
    BY <1>1, <1>4, <2>1
  <2>3. ASSUME NEW i \in 0 .. M, i \in T, i < M PROVE i + 1 \in T
    <3>1. i + 1 \in 0 .. M /\ i + 1 # 0 /\ (i + 1) - 1 = i
      BY <1>1, <2>3
    <3>2. it[i + 1] = ReconnectOne(it[i], i, killBots, denied) /\ f[i + 1] = ReconnectOne(f[i], i, killBots, denied)
      BY <1>4, <2>1, <3>1
    <3>3. QED
      BY <2>3, <3>1, <3>2
  <2> HIDE DEF T
  <2>4. \A i \in 0 .. M : i \in T
    BY <1>1, <2>2, <2>3, IntervalInduction
  <2>5. QED
    BY <2>4 DEF T
<1>8. Reconnect(st, killBots, denied) = it[M]
  BY Zenon DEF Reconnect, Loop, ReconnectOne
<1>9. M \in 0 .. M /\ 0 \in 0 .. M
  BY <1>1
<1>10. f[M] = Reconnect(st, killBots, denied) /\ f[0] = st
  BY <1>4, <1>7, <1>8, <1>9
<1>11. ASSUME NEW i \in 0 .. M - 1
       PROVE  f[i + 1] = ReconnectOne(f[i], i, killBots, denied)
  <2>1. i + 1 \in 0 .. M /\ i + 1 # 0 /\ (i + 1) - 1 = i
    BY <1>1
  <2>2. QED
    BY <1>4, <2>1
<1>12. QED
  BY <1>10, <1>11


LEMMA ReconnectKeepsOrder ==
  ASSUME NEW n \in Nat \ {0}, NEW st \in Server(n), NEW killBots, NEW denied, InOrder(st),
         NEW d, d = Reconnect(st, killBots, denied)
  PROVE  d \in Server(n) /\ InOrder(d)
<1>1. sv_maxclients(st) = n
  BY MaxClients
<1>2. PICK run \in [0 .. n -> Server(n)] :
            /\ run[0] = st
            /\ \A i \in 0 .. n - 1 : run[i + 1] = ReconnectOne(run[i], i, killBots, denied)
            /\ run[n] = d
  <2>1. n \in Nat \ {0} /\ st \in Server(n)
    OBVIOUS
  <2>2. \E run \in [0 .. sv_maxclients(st) -> Server(n)] :
            /\ run[0] = st
            /\ \A i \in 0 .. sv_maxclients(st) - 1 :
                 run[i + 1] = ReconnectOne(run[i], i, killBots, denied)
            /\ run[sv_maxclients(st)] = Reconnect(st, killBots, denied)
    BY ONLY <2>1, ReconnectRun
  <2>3. \E run \in [0 .. n -> Server(n)] :
            /\ run[0] = st
            /\ \A i \in 0 .. n - 1 : run[i + 1] = ReconnectOne(run[i], i, killBots, denied)
            /\ run[n] = Reconnect(st, killBots, denied)
    BY ONLY <1>1, <2>2, Zenon
  <2>4. QED
    BY <2>3
<1> DEFINE T == {i \in 0 .. n : InOrder(run[i])}
<1>3. 0 \in T
  BY <1>2
<1>4. ASSUME NEW i \in 0 .. n, i \in T, i < n PROVE i + 1 \in T
  <2>1. i \in 0 .. n - 1 /\ i + 1 \in 0 .. n
    BY <1>4
  <2>2. PICK s \in Server(n) : s = run[i]
    BY <1>2
  <2>3. PICK e : e = ReconnectOne(s, i, killBots, denied)
    OBVIOUS
  <2>4. InOrder(s) => InOrder(e)
    BY ONLY <2>1, <2>3, ReconnectOneKeepsOrder
  <2>5. QED
    BY <1>2, <1>4, <2>1, <2>2, <2>3, <2>4
<1>5. \A i \in 0 .. n : i \in T
  <2> HIDE DEF T
  <2>1. QED
    BY <1>3, <1>4, IntervalInduction
<1>6. n \in 0 .. n
  OBVIOUS
<1>7. QED
  BY <1>2, <1>5, <1>6

\* What is copied is kept, and what is not was of nobody.
LEMMA ResizedResult ==
  ASSUME NEW n \in Nat \ {0}, NEW st \in Server(n), NEW size \in Nat \ {0},
         NEW d, d = Resized(st, size)
  PROVE  /\ \E m \in Nat \ {0} : d \in Server(m)
         /\ d.replaced = st.replaced /\ d.dangling = st.dangling
         /\ Ordered(st) => Ordered(d)
<1> DEFINE S == {0} \cup Connected(st) \cup InUse(st)
           count == 1 + Max(S)
           m == Max({size, count})
           Holders(p) == {c \in Connected(st) : p \in PlayersOf(st, c)}
           Cut == \E c \in Connected(st) : \E p \in PlayersOf(st, c) : p >= count
<1>1. /\ Connected(st) \subseteq 0 .. n - 1 /\ InUse(st) \subseteq 0 .. n - 1
      /\ Clients(st) = 0 .. n - 1 /\ Players(st) = 0 .. n - 1
  BY SlotFields DEF Connected, InUse
<1>2. count \in 1 .. n /\ \A x \in S : x < count
  <2>1. n - 1 \in Nat /\ S \in SUBSET (0 .. n - 1) /\ S # {}
    BY <1>1
  <2> HIDE DEF S
  <2>2. Max(S) \in S /\ \A x \in S : x <= Max(S)
    BY ONLY <2>1, MaxIs
  <2>3. \A x \in S : x \in 0 .. n - 1
    BY <2>1
  <2>4. QED
    BY <2>2, <2>3
<1> HIDE DEF S, count
<1>3. m \in Nat \ {0} /\ count <= m
  <2>1. /\ size + n \in Nat /\ {size, count} \in SUBSET (0 .. size + n) /\ {size, count} # {}
    BY <1>2
  <2>2. m \in {size, count} /\ \A x \in {size, count} : x <= m
    BY ONLY <2>1, MaxIs
  <2>3. QED
    BY <1>2, <2>2
<1> HIDE DEF m
<1>4. \A c \in Connected(st) : c \in 0 .. m - 1
  <2>1. \A c \in Connected(st) : c \in Nat /\ c < count
    BY <1>1, <1>2 DEF S
  <2>2. QED
    BY <1>2, <1>3, <2>1
<1>5. Ordered(st) => ~Cut
  <2>1. SUFFICES ASSUME Ordered(st), NEW c \in Connected(st), NEW p \in PlayersOf(st, c), p >= count
                 PROVE  FALSE
    OBVIOUS
  <2>2. PICK j \in Held(st, c) : Lp(st, c, j) = p
    BY <1>1, <2>1, HeldIs
  <2>3. n \in Nat \ {0} /\ st \in Server(n)
    OBVIOUS
  <2>4. Lp(st, c, j) \in InUse(st)
    BY ONLY <2>1, <2>2, <2>3, HeldInUse
  <2>5. p < count /\ p \in Nat /\ count \in Nat
    BY <1>1, <1>2, <2>2, <2>4 DEF S
  <2>6. QED
    BY <2>1, <2>5
<1>6. CASE m = sv_maxclients(st)
  <2>1. d = st
    BY <1>6 DEF Resized, m, count, S
  <2>2. QED
    BY <2>1
<1>7. CASE m # sv_maxclients(st) /\ Cut
  <2>1. d = [st EXCEPT !.undefined = TRUE]
    BY <1>7 DEF Resized, m, count, S
  <2>2. d \in Server(n) /\ d.replaced = st.replaced /\ d.dangling = st.dangling
    BY <2>1 DEF Server
  <2>3. QED
    BY <1>5, <1>7, <2>2
<1>8. CASE m # sv_maxclients(st) /\ ~Cut
  <2> DEFINE cs == [c \in 0 .. m - 1 |-> IF Copied(st, c) THEN st.clients[c] ELSE FreeClient]
             y(p) == [st.players[p] EXCEPT !.client = Max(Holders(p))]
             ps == [p \in 0 .. m - 1 |-> IF Holders(p) = {} THEN FreePlayer ELSE y(p)]
  <2>1. d = [st EXCEPT !.clients = cs, !.players = ps]
    BY <1>8 DEF Resized, m, count, S
  <2>2. ASSUME NEW c \in Connected(st) PROVE st.clients[c] \in ClientOf(m)
    <3>1. /\ st.clients[c] \in ClientOf(n)
          /\ st.clients[c].localPlayers \in [Locals -> None .. n - 1]
          /\ None .. n - 1 = {None} \cup (0 .. n - 1)
      BY <1>1, SlotFields
    <3>2. ASSUME NEW j \in Locals PROVE Lp(st, c, j) \in None .. m - 1
      <4>1. CASE Lp(st, c, j) = None
        BY <1>3, <4>1 DEF None
      <4>2. CASE Lp(st, c, j) # None
        <5>1. Lp(st, c, j) \in 0 .. n - 1 /\ Lp(st, c, j) \in PlayersOf(st, c)
          BY <3>1, <4>2 DEF Lp, PlayersOf, Held
        <5>2. ~(Lp(st, c, j) >= count)
          BY <1>8, <5>1
        <5>3. QED
          BY <1>2, <1>3, <5>1, <5>2 DEF None
      <4>3. QED
        BY <4>1, <4>2
    <3>3. st.clients[c].localPlayers \in [Locals -> None .. m - 1]
      BY <3>1, <3>2 DEF Lp
    <3>4. QED
      BY <3>1, <3>3 DEF ClientOf
  <2>3. FreeClient \in ClientOf(m) /\ FreePlayer \in PlayerOf(m)
    BY <1>3 DEF FreeClient, FreePlayer, ClientOf, PlayerOf, None
  <2>4. cs \in [0 .. m - 1 -> ClientOf(m)]
    BY <2>2, <2>3 DEF Copied
  <2>5. ASSUME NEW p, Holders(p) # {}
        PROVE  /\ p \in 0 .. n - 1 /\ p \in 0 .. m - 1 /\ Max(Holders(p)) \in Holders(p)
               /\ y(p) \in PlayerOf(m)
    <3>1. PICK c \in Connected(st) : p \in PlayersOf(st, c)
      BY <2>5
    <3>2. PICK j \in Held(st, c) : Lp(st, c, j) = p
      BY <1>1, <3>1, HeldIs
    <3>3. p \in 0 .. n - 1
      BY <1>1, <3>2, HeldIs
    <3>4. p < count
      BY <1>2, <1>8, <3>1, <3>3
    <3>5. p \in 0 .. m - 1
      BY <1>2, <1>3, <3>3, <3>4
    <3>6. n - 1 \in Nat /\ Holders(p) \in SUBSET (0 .. n - 1)
      BY <1>1
    <3>7. Max(Holders(p)) \in Holders(p)
      <4> HIDE DEF Holders
      <4>1. QED
        BY ONLY <2>5, <3>6, MaxIs
    <3>8. Max(Holders(p)) \in None .. m - 1
      BY <1>3, <1>4, <3>7 DEF None
    <3>9. st.players[p] \in PlayerOf(n)
      BY <3>3, SlotFields
    <3>10. y(p) \in PlayerOf(m)
      <4> HIDE DEF Holders
      <4>1. QED
        BY <3>8, <3>9 DEF PlayerOf
    <3>11. QED
      BY <3>3, <3>5, <3>7, <3>10
  <2>6. ps \in [0 .. m - 1 -> PlayerOf(m)]
    <3> HIDE DEF Holders, y
    <3>1. QED
      BY <2>3, <2>5
  <2> HIDE DEF cs, ps
  <2>7. /\ d \in Server(m) /\ d.clients = cs /\ d.players = ps
        /\ d.replaced = st.replaced /\ d.dangling = st.dangling /\ d.playing = st.playing
        /\ d.spurious = st.spurious /\ d.undefined = st.undefined
    BY <2>1, <2>4, <2>6 DEF Server
  <2>8. ASSUME Ordered(st) PROVE Ordered(d)
    <3>1. /\ Clients(d) = 0 .. m - 1 /\ Players(d) = 0 .. m - 1
          /\ Connected(st) \subseteq Clients(d)
      BY <1>3, <1>4, <2>7, SlotFields
    <3>2. \A e \in Connected(st) : d.clients[e] = st.clients[e]
      BY <1>4, <2>7 DEF cs, Copied
    <3>3. \A e \in 0 .. m - 1 : e \notin Connected(st) => d.clients[e] = FreeClient
      BY <2>7 DEF cs, Copied
    <3>4. FreeClient.state = "free"
      BY DEF FreeClient
    <3>5. Connected(d) = Connected(st)
      <4>1. \A e \in Connected(st) : st.clients[e].state = "connected"
        BY DEF Connected
      <4>2. \A e \in Connected(d) : e \in 0 .. m - 1 /\ d.clients[e].state = "connected"
        BY <3>1 DEF Connected
      <4>3. Connected(st) \subseteq Connected(d)
        BY <3>1, <3>2, <4>1 DEF Connected
      <4>4. QED
        BY <3>3, <3>4, <4>2, <4>3
    <3>6. \A e \in Clients(d) \ FreeSlots(d) :
            e \in Clients(st) \ FreeSlots(st) /\ d.clients[e] = st.clients[e]
      <4>1. SUFFICES ASSUME NEW e \in Clients(d), e \notin FreeSlots(d)
                     PROVE  e \in Clients(st) \ FreeSlots(st) /\ d.clients[e] = st.clients[e]
        OBVIOUS
      <4>2. d.clients[e].state # "free"
        BY <4>1 DEF FreeSlots
      <4>3. e \in Connected(st)
        BY <3>1, <3>3, <3>4, <4>1, <4>2
      <4>4. QED
        BY <3>2, <4>3 DEF Connected, FreeSlots
    <3>7. \A e \in Connected(st) : \A j \in Held(st, e) :
            /\ Lp(st, e, j) \in InUse(st) /\ Lp(st, e, j) \in 0 .. n - 1
            /\ st.players[Lp(st, e, j)].client = e
      BY <2>8, HeldInUse
    <3>8. \A p \in InUse(st) : Holders(p) = {st.players[p].client}
      <4>1. SUFFICES ASSUME NEW p \in InUse(st) PROVE Holders(p) = {st.players[p].client}
        OBVIOUS
      <4>2. PICK b : b = st.players[p].client
        OBVIOUS
      <4>3. b \in Connected(st) /\ \E j \in Held(st, b) : Lp(st, b, j) = p
        BY <2>8, <4>2 DEF Ordered, Owned, Held1
      <4>4. b \in Holders(p)
        BY <1>1, <4>3, HeldIs
      <4>5. ASSUME NEW e \in Holders(p) PROVE e = b
        <5>1. PICK j \in Held(st, e) : Lp(st, e, j) = p
          BY <1>1, <4>5, HeldIs
        <5>2. QED
          BY <3>7, <4>2, <4>5, <5>1
      <4>6. QED
        BY <4>2, <4>4, <4>5
    <3>9. ASSUME NEW p \in InUse(st) PROVE p \in 0 .. m - 1 /\ d.players[p] = st.players[p]
      <4>1. Holders(p) # {} /\ Max(Holders(p)) = st.players[p].client /\ p \in 0 .. m - 1
        <5>1. Holders(p) = {st.players[p].client}
          BY <3>8
        <5>2. Holders(p) # {}
          BY <5>1
        <5>3. Max(Holders(p)) \in Holders(p) /\ p \in 0 .. m - 1
          BY <2>5, <5>2
        <5>4. QED
          BY <5>1, <5>2, <5>3
      <4>2. ps[p] = y(p)
        <5> HIDE DEF Holders, y
        <5>1. QED
          BY <4>1 DEF ps
      <4>3. st.players[p] \in PlayerOf(n)
        BY <1>1, SlotFields
      <4>4. y(p) = st.players[p]
        <5> HIDE DEF Holders
        <5>1. QED
          BY <4>1, <4>3 DEF PlayerOf
      <4>5. QED
        BY <2>7, <4>1, <4>2, <4>4
    <3>10. ASSUME NEW p \in InUse(d) PROVE p \in InUse(st)
      <4>1. p \in 0 .. m - 1 /\ ps[p].inUse
        BY <2>7, <3>1 DEF InUse
      <4>2. Holders(p) # {}
        <5>1. SUFFICES ASSUME Holders(p) = {} PROVE FALSE
          OBVIOUS
        <5>2. ps[p] = FreePlayer
          <6> HIDE DEF Holders, y
          <6>1. QED
            BY <4>1, <5>1 DEF ps
        <5>3. QED
          BY <4>1, <5>2 DEF FreePlayer
      <4>3. PICK c \in Connected(st) : p \in PlayersOf(st, c)
        BY <4>2
      <4>4. PICK j \in Held(st, c) : Lp(st, c, j) = p
        BY <1>1, <4>3, HeldIs
      <4>5. QED
        BY <3>7, <4>4
    <3>11. InUse(d) = InUse(st)
      <4>1. \A p \in InUse(st) : p \in InUse(d)
        BY <3>1, <3>9 DEF InUse
      <4>2. QED
        BY <3>10, <4>1
    <3>12. QED
      BY <2>7, <2>8, <3>1, <3>2, <3>5, <3>6, <3>7, <3>9, <3>11, OrderKept
  <2>9. QED
    BY <1>3, <2>7, <2>8
<1>9. QED
  BY <1>6, <1>7, <1>8

LEMMA SpawnServerInv ==
  ASSUME SlotsInv, SV_SpawnServer
  PROVE  SlotsInv'
<1>1. PICK n \in Nat \ {0} : svs \in Server(n)
  BY DEF SlotsInv
<1>2. PICK size \in Sizes, killBots \in BOOLEAN, denied \in {{}} \cup {{p} : p \in svs.playing} :
        svs' = Reconnect(Resized(svs, size), killBots, denied)
  BY DEF SV_SpawnServer
<1>3. size \in Nat \ {0}
  BY SlotsAssumption
<1>4. PICK st : st = Resized(svs, size)
  OBVIOUS
<1>5. /\ \E m \in Nat \ {0} : st \in Server(m)
      /\ st.replaced = svs.replaced /\ st.dangling = svs.dangling
      /\ Ordered(svs) => Ordered(st)
  BY ONLY <1>1, <1>3, <1>4, ResizedResult
<1>6. PICK m \in Nat \ {0} : st \in Server(m)
  BY <1>5
<1>7. InOrder(st)
  BY <1>5 DEF SlotsInv, InOrder
<1>8. svs' = Reconnect(st, killBots, denied)
  BY <1>2, <1>4
<1>9. svs' \in Server(m) /\ InOrder(svs')
  BY ONLY <1>6, <1>7, <1>8, ReconnectKeepsOrder
<1>10. (\E k \in Nat \ {0} : svs' \in Server(k)) /\ InOrder(svs')
  BY <1>9
<1>11. QED
  BY <1>10 DEF SlotsInv

(***************************************************************************)
(* The theorems.                                                           *)
(***************************************************************************)
LEMMA SlotsInvInitially ==
  ASSUME SlotsInit
  PROVE  SlotsInv
<1>1. PICK n \in Sizes :
        svs = [clients |-> [c \in 0 .. n - 1 |-> FreeClient],
               players |-> [p \in 0 .. n - 1 |-> FreePlayer],
               playing |-> {}, spurious |-> FALSE,
               replaced |-> FALSE, dangling |-> FALSE, undefined |-> FALSE]
  BY DEF SlotsInit
<1>2. n \in Nat \ {0}
  BY SlotsAssumption
<1>3. FreeClient \in ClientOf(n) /\ FreePlayer \in PlayerOf(n)
      /\ FreeClient.state = "free" /\ ~FreePlayer.inUse
  BY <1>2 DEF FreeClient, FreePlayer, ClientOf, PlayerOf, None
<1>4. svs \in Server(n)
  BY <1>1, <1>3 DEF Server
<1>5. /\ \A c \in Clients(svs) : svs.clients[c].state = "free"
      /\ \A p \in Players(svs) : ~svs.players[p].inUse
  BY <1>1, <1>3 DEF Clients, Players
<1>6. Connected(svs) = {} /\ InUse(svs) = {} /\ Clients(svs) \ FreeSlots(svs) = {}
      /\ Bots(svs) = {}
  BY <1>5 DEF Connected, InUse, FreeSlots, Bots
<1>7. Held1(svs, Connected(svs)) /\ OneSlot(svs) /\ BotsHold(svs)
  BY <1>6 DEF Held1, OneSlot, BotsHold
<1>8. Known(svs)
  BY <1>1, <1>6 DEF Known
<1>9. QED
  BY <1>2, <1>4, <1>6, <1>7, <1>8 DEF SlotsInv, InOrder, Ordered, Owned

LEMMA SlotsInvKept ==
  ASSUME SlotsInv, [SlotsNext]_svs
  PROVE  SlotsInv'
<1>1. CASE svs' = svs
  <2>1. ASSUME NEW d, d = svs, SlotsInv
        PROVE  (\E n \in Nat \ {0} : d \in Server(n)) /\ InOrder(d)
    BY <2>1 DEF SlotsInv
  <2>2. (\E n \in Nat \ {0} : svs' \in Server(n)) /\ InOrder(svs')
    BY <1>1, <2>1
  <2>3. QED
    BY <2>2 DEF SlotsInv
<1>2. CASE \E from \in Addresses : SV_DirectConnect(from)
  BY <1>2, DirectConnectInv
<1>3. CASE SV_BotAllocateClient
  BY <1>3, BotAllocateClientInv
<1>4. CASE \E c \in Clients(svs) : Single(c)
  BY <1>4, SingleKeeps DEF Keeps
<1>5. CASE SV_KickAll_f
  BY <1>5, KickAllInv
<1>6. CASE SV_SpawnServer
  BY <1>6, SpawnServerInv
<1>7. QED
  BY <1>1, <1>2, <1>3, <1>4, <1>5, <1>6 DEF SlotsNext, Arrive

\* The inductive invariant: the arrays have one size and what is in them fits it; and
\* unless a client was replaced or a dangling pointer used, the players in use are those
\* that the connected clients hold, and the game knows them.
THEOREM SlotsInvariant == SlotsSpec => []SlotsInv
<1>1. SlotsInit => SlotsInv
  BY SlotsInvInitially
<1>2. SlotsInv /\ [SlotsNext]_svs => SlotsInv'
  BY SlotsInvKept
<1>3. QED
  BY <1>1, <1>2, PTL DEF SlotsSpec

\* Whatever happens, a client's players and a player's client are slots that the server
\* has: sv_maxclients may change under them.
THEOREM SlotsTypeCorrect == SlotsSpec => []SlotsTypeOK
<1>1. ASSUME SlotsInv PROVE SlotsTypeOK
  <2>1. PICK n \in Nat \ {0} : svs \in Server(n)
    BY <1>1 DEF SlotsInv
  <2>2. Clients(svs) = 0 .. n - 1 /\ Players(svs) = 0 .. n - 1
        /\ None .. n - 1 = {None} \cup (0 .. n - 1)
    BY <2>1, SlotFields
  <2>3. ASSUME NEW c \in Clients(svs)
        PROVE  /\ svs.clients[c].state \in {"free", "zombie", "connected"}
               /\ svs.clients[c].remoteAddress \in Addresses \cup {NA_BOT, None}
               /\ PlayersOf(svs, c) \subseteq Players(svs)
    <3>1. svs.clients[c] \in ClientOf(n)
      BY <2>1, <2>2, SlotFields
    <3>2. \A p : p \in PlayersOf(svs, c) <=> \E j \in Held(svs, c) : Lp(svs, c, j) = p
      BY <2>1, <2>2, HeldIs
    <3>3. \A j \in Held(svs, c) : Lp(svs, c, j) \in 0 .. n - 1
      BY <2>1, <2>2, HeldIs
    <3>4. QED
      BY <2>2, <3>1, <3>2, <3>3 DEF ClientOf
  <2>4. ASSUME NEW p \in Players(svs) PROVE svs.players[p].client \in Clients(svs) \cup {None}
    BY <2>1, <2>2, SlotFields
  <2>5. QED
    BY <2>2, <2>3, <2>4 DEF SlotsTypeOK
<1>2. SlotsInv => SlotsTypeOK
  BY <1>1
<1>3. QED
  BY <1>2, SlotsInvariant, PTL

\* The two structures agree: each player in use is held by one connected client, under
\* one number, and points back to it; so SV_LocalPlayerNum finds it.
THEOREM PlayersAreOwned == SlotsSpec => []PlayersOwned
<1>1. ASSUME SlotsInv PROVE PlayersOwned
  <2>1. SUFFICES ASSUME Orderly PROVE
          /\ \A p \in Players(svs) :
               /\ Owner(p) = IF svs.players[p].inUse THEN {svs.players[p].client} ELSE {}
               /\ \A c \in Owner(p) :
                    Cardinality({j \in Locals : svs.clients[c].localPlayers[j] = p}) = 1
          /\ \A c \in Connected(svs) : Held(svs, c) # {}
          /\ OneSlot(svs)
    BY DEF PlayersOwned, OneSlot
  <2>2. PICK n \in Nat \ {0} : svs \in Server(n)
    BY <1>1 DEF SlotsInv
  <2>3. Ordered(svs)
    BY <1>1, <2>1 DEF SlotsInv, InOrder, Orderly
  <2>4. Held1(svs, Connected(svs)) /\ OneSlot(svs)
        /\ \A c \in Connected(svs) : Held(svs, c) # {}
    BY <2>3 DEF Ordered, Owned
  <2>5. /\ Clients(svs) = 0 .. n - 1 /\ Players(svs) = 0 .. n - 1
        /\ Connected(svs) \subseteq 0 .. n - 1
    BY <2>2, SlotFields DEF Connected
  <2>6. \A c \in Connected(svs) : \A j \in Held(svs, c) :
          Lp(svs, c, j) \in InUse(svs) /\ svs.players[Lp(svs, c, j)].client = c
    BY <2>2, <2>3, HeldInUse
  <2>7. ASSUME NEW p \in Players(svs), NEW c \in Owner(p)
        PROVE  /\ svs.players[p].inUse /\ c = svs.players[p].client
               /\ Cardinality({j \in Locals : svs.clients[c].localPlayers[j] = p}) = 1
    <3>1. c \in Connected(svs) /\ p \in PlayersOf(svs, c)
      BY <2>7 DEF Owner
    <3>2. PICK i \in Held(svs, c) : Lp(svs, c, i) = p
      BY <2>2, <2>5, <3>1, HeldIs
    <3>3. Held(svs, c) = {j \in Locals : Lp(svs, c, j) # None}
      BY <2>2, <2>5, <3>1, HeldIs
    <3>4. ASSUME NEW j \in Locals, Lp(svs, c, j) = p PROVE j = i
      BY <2>4, <3>1, <3>2, <3>3, <3>4 DEF Held1
    <3>5. {j \in Locals : svs.clients[c].localPlayers[j] = p} = {i}
      BY <3>2, <3>3, <3>4 DEF Lp
    <3>6. Cardinality({i}) = 1
      BY FS_Singleton
    <3>7. svs.players[p].inUse /\ c = svs.players[p].client
      BY <2>6, <3>1, <3>2 DEF InUse
    <3>8. QED
      BY <3>5, <3>6, <3>7
  <2>8. ASSUME NEW p \in Players(svs), svs.players[p].inUse
        PROVE  svs.players[p].client \in Owner(p)
    <3>1. p \in InUse(svs)
      BY <2>8 DEF InUse
    <3>2. PICK c : c = svs.players[p].client
      OBVIOUS
    <3>3. c \in Connected(svs) /\ \E j \in Held(svs, c) : Lp(svs, c, j) = p
      BY <2>4, <3>1, <3>2 DEF Held1
    <3>4. p \in PlayersOf(svs, c)
      BY <2>2, <2>5, <3>3, HeldIs
    <3>5. QED
      BY <3>2, <3>3, <3>4 DEF Owner
  <2>9. ASSUME NEW p \in Players(svs)
        PROVE  Owner(p) = IF svs.players[p].inUse THEN {svs.players[p].client} ELSE {}
    <3>1. CASE svs.players[p].inUse
      BY <2>7, <2>8, <3>1
    <3>2. CASE ~svs.players[p].inUse
      BY <2>7, <3>2
    <3>3. QED
      BY <3>1, <3>2
  <2>10. QED
    BY <2>4, <2>7, <2>9
<1>2. SlotsInv => PlayersOwned
  BY <1>1
<1>3. QED
  BY <1>2, SlotsInvariant, PTL

\* The game is told once that a player leaves, knows who plays, and never makes the
\* server follow a player that is not there.
THEOREM GameIsToldOnce == SlotsSpec => []GameToldOnce
<1>1. SlotsInv => GameToldOnce
  BY DEF SlotsInv, InOrder, Ordered, Owned, Known, Orderly, GameToldOnce
<1>2. QED
  BY <1>1, SlotsInvariant, PTL

\* Who comes, and what happens to one client, leaves the other clients and their
\* players alone.
THEOREM OthersAreLeftAlone == SlotsSpec => OthersStay
<1>1. ASSUME SlotsInv, [SlotsNext]_svs, Orderly, Orderly'
      PROVE  /\ \A c \in Clients(svs) : Single(c) => \A d \in Connected(svs) \ {c} : Stays(d)
             /\ Arrive => \A d \in Connected(svs) : Stays(d)
  <2>1. ASSUME NEW c \in Clients(svs), Single(c)
        PROVE  \A d \in Connected(svs) \ {c} : Stays(d)
    BY <1>1, <2>1, SingleKeeps DEF Keeps
  <2>2. ASSUME Arrive PROVE \A d \in Connected(svs) : Stays(d)
    BY <1>1, <2>2, DirectConnectInv, BotAllocateClientInv DEF Arrive
  <2>3. QED
    BY <2>1, <2>2
<1>2. SlotsInv /\ [SlotsNext]_svs =>
        [Orderly /\ Orderly' =>
          /\ \A c \in Clients(svs) : Single(c) => \A d \in Connected(svs) \ {c} : Stays(d)
          /\ Arrive => \A d \in Connected(svs) : Stays(d)]_svs
  BY <1>1
<1>3. QED
  BY <1>2, SlotsInvariant, PTL DEF SlotsSpec, OthersStay
=============================================================================
