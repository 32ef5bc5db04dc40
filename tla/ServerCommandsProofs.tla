------------------------ MODULE ServerCommandsProofs ------------------------
(***************************************************************************)
(* The server's reliable commands, for rings of every size, any number of  *)
(* commands and messages, and both builds.                                 *)
(***************************************************************************)
EXTENDS ServerCommands, ProofLemmas

Command == [seq : Nat, text : Int]
Message == [commands : Seq(Command), sequence : Nat]

\* The client_t, in the middle of an operation too: SV_ExecuteClientMessage takes over
\* an acknowledgement before it finds it out of range.
ServerType(cl) ==
  /\ cl \in [state : {"active", "zombie"}, reliableSequence : Nat, reliableAcknowledge : Int,
             reliableCommands : [Slots -> Int], issued : Seq(Int),
             disconnects : Nat, illegible : BOOLEAN]
  /\ cl.reliableSequence = Len(cl.issued)

Types ==
  /\ ServerType(client)
  /\ client.reliableAcknowledge \in 0 .. client.reliableSequence
  /\ toClient \in Seq(Message) /\ toServer \in Seq(Nat)
  /\ serverCommandSequence \in Nat /\ serverCommands \in [Slots -> Int]
  /\ snapshot \in [serverCommandNum : 0 .. serverCommandSequence, sequence : Nat]
  /\ gone \in BOOLEAN
  /\ executed \in Seq(Int) /\ lastExecutedServerCommand = Len(executed)

\* The last command that was acknowledged when the message was written.
Base(m) == m.sequence - Len(m.commands)

\* A message carries the commands from there to the newest, without a gap.
Gapless(m) == /\ Base(m) \in Nat
              /\ \A j \in 1 .. Len(m.commands) : m.commands[j].seq = Base(m) + j

MessagesGapless == \A i \in 1 .. Len(toClient) : Gapless(toClient[i])

\* The server never believes that the client has what it has not, but by an
\* acknowledgement out of range.
AcknowledgedIsReceived ==
  ~client.illegible =>
    /\ client.reliableAcknowledge <= serverCommandSequence
    /\ \A i \in 1 .. Len(toServer) : toServer[i] <= serverCommandSequence
    /\ \A i \in 1 .. Len(toClient) : Base(toClient[i]) <= serverCommandSequence

\* The slots of the last turn hold what the game had sent under those numbers.
HoldsIssued(ring, newest, issued) ==
  \A k \in 1 .. newest : newest - MAX_RELIABLE_COMMANDS < k => ring[Slot(k)] = issued[k]

\* Of a client on the network that is kept no command is lost: when the ring is full
\* the client is dropped.
RingWhole(cl) ==
  cl.state = "active" /\ ~Loopback =>
    /\ cl.reliableSequence - cl.reliableAcknowledge <= MAX_RELIABLE_COMMANDS
    /\ HoldsIssued(cl.reliableCommands, cl.reliableSequence, cl.issued)

\* What is under way, in the client's ring and executed has the text under which the
\* game sent that number.
Sent(m) == /\ m.sequence <= client.reliableSequence
           /\ \A j \in 1 .. Len(m.commands) : m.commands[j].text = client.issued[Base(m) + j]

ReceivedAsIssued ==
  Orderly /\ ~Loopback =>
    /\ \A i \in 1 .. Len(toClient) : Sent(toClient[i])
    /\ serverCommandSequence <= client.reliableSequence
    /\ HoldsIssued(serverCommands, serverCommandSequence, client.issued)
    /\ Len(executed) <= client.reliableSequence
    /\ \A n \in 1 .. Len(executed) : executed[n] = client.issued[n]

IInv == /\ Types
        /\ MessagesGapless /\ AcknowledgedIsReceived
        /\ RingWhole(client) /\ ReceivedAsIssued
        /\ GuaranteeUnlessForgotten

-----------------------------------------------------------------------------
\* What a message does to the client's ring.

ParseState == [seq : Nat, ring : [Slots -> Int]]

LEMMA SlotInRing ==
  ASSUME NEW n \in Int
  PROVE  Slot(n) \in Slots
BY ModRange, ConstantAssumption DEF Slot, Slots

LEMMA ParseType ==
  ASSUME NEW st \in ParseState, NEW command \in Command
  PROVE  CL_ParseCommandString(st, command) \in ParseState
<1>1. Slot(command.seq) \in Slots
  BY SlotInRing DEF Command
<1>2. [st.ring EXCEPT ![Slot(command.seq)] = command.text] \in [Slots -> Int]
  BY <1>1 DEF Command, ParseState
<1>3. QED
  BY <1>2 DEF CL_ParseCommandString, ParseState, Command

\* CL_ParseServerMessage goes through the commands one after the other.
LEMMA ParseRun ==
  ASSUME NEW commands \in Seq(Command), NEW st \in ParseState
  PROVE  \E run \in [0 .. Len(commands) -> ParseState] :
            /\ run[0] = st
            /\ \A k \in 1 .. Len(commands) :
                 run[k] = CL_ParseCommandString(run[k - 1], commands[k])
            /\ run[Len(commands)] = FoldLeft(CL_ParseCommandString, st, commands)
<1> DEFINE N == Len(commands)
           Solves(f) == f = [s \in SUBSET (1 .. N) |->
                               IF s = {} THEN st
                               ELSE CL_ParseCommandString(f[s \ {Max(s)}], commands[Max(s)])]
           step == [p \in ParseState \X (1 .. N) |-> CL_ParseCommandString(p[1], commands[p[2]])]
<1>1. N \in Nat /\ DOMAIN commands = 1 .. N /\ \A k \in 1 .. N : commands[k] \in Command
  OBVIOUS
<1>2. step \in [ParseState \X (1 .. N) -> ParseState]
  BY <1>1, ParseType
<1>3. PICK f \in [SUBSET (1 .. N) -> ParseState] :
        \A s \in SUBSET (1 .. N) :
          f[s] = IF s = {} THEN st ELSE step[<<f[s \ {Max(s)}], Max(s)>>]
  <2> HIDE DEF step, N
  <2>1. \E f : IsFold(f, N, ParseState, st, step)
    BY <1>1, <1>2, FoldExists, Zenon
  <2>2. QED
    BY <2>1, Zenon DEF IsFold
<1>4. ASSUME NEW s \in SUBSET (1 .. N)
      PROVE  f[s] = IF s = {} THEN st
                    ELSE CL_ParseCommandString(f[s \ {Max(s)}], commands[Max(s)])
  <2>1. CASE s = {}
    BY <1>3, <2>1
  <2>2. CASE s # {}
    <3>1. Max(s) \in 1 .. N
      BY <1>1, <2>2, MaxOfBounded
    <3>2. f[s \ {Max(s)}] \in ParseState
      BY <1>3
    <3>3. step[<<f[s \ {Max(s)}], Max(s)>>]
            = CL_ParseCommandString(f[s \ {Max(s)}], commands[Max(s)])
      BY <3>1, <3>2
    <3>4. QED
      BY <1>3, <2>2, <3>3
  <2>3. QED
    BY <2>1, <2>2
<1>5. Solves(f)
  <2>1. f = [s \in SUBSET (1 .. N) |-> f[s]]
    BY <1>3
  <2>2. QED
    BY <1>4, <2>1, Zenon
<1> DEFINE it == CHOOSE g : Solves(g)
<1>6. Solves(it)
  BY <1>5, Zenon
<1>7. FoldLeft(CL_ParseCommandString, st, commands) = it[1 .. N]
  BY <1>1 DEF FoldLeft, MapThenFoldSet
<1> HIDE DEF it, N
<1>8. it[{}] = st
  BY <1>6
<1>9. ASSUME NEW k \in 1 .. N
      PROVE  it[1 .. k] = CL_ParseCommandString(it[1 .. k - 1], commands[k])
  <2>1. Max(1 .. k) = k /\ (1 .. k) \ {k} = 1 .. k - 1 /\ 1 .. k # {}
    BY LastOfInterval
  <2>2. 1 .. k \in SUBSET (1 .. N)
    BY <1>1
  <2>3. QED
    BY <1>6, <2>1, <2>2, Zenon
<1> DEFINE run == [k \in 0 .. N |-> it[1 .. k]]
<1>10. run[0] = st
  <2>1. 1 .. 0 = {} /\ 0 \in 0 .. N
    BY <1>1
  <2>2. QED
    BY <1>8, <2>1, Zenon
<1>11. \A k \in 1 .. N : run[k] = CL_ParseCommandString(run[k - 1], commands[k])
  BY <1>1, <1>9
<1>12. run[N] = FoldLeft(CL_ParseCommandString, st, commands)
  BY <1>1, <1>7
<1>13. \A k \in 0 .. N : run[k] \in ParseState
  <2> DEFINE T == {k \in 0 .. N : run[k] \in ParseState}
  <2>1. 0 \in T
    BY <1>1, <1>10
  <2>2. ASSUME NEW k \in 0 .. N, k \in T, k < N
        PROVE  k + 1 \in T
    <3>1. k + 1 \in 1 .. N /\ (k + 1) - 1 = k
      BY <1>1, <2>2
    <3>2. run[k + 1] = CL_ParseCommandString(run[k], commands[k + 1])
      BY <1>11, <3>1
    <3> HIDE DEF run
    <3>3. QED
      BY <1>1, <2>2, <3>1, <3>2, ParseType
  <2>3. \A k \in 0 .. N : k \in T
    <3> HIDE DEF T
    <3>1. QED
      BY <1>1, <2>1, <2>2, IntervalInduction
  <2>4. QED
    BY <2>3
<1>14. run \in [0 .. N -> ParseState]
  BY <1>13
<1>15. QED
  BY <1>10, <1>11, <1>12, <1>14 DEF N

\* A command stored in the next slot leaves the ring whole.
LEMMA RingStep ==
  ASSUME NEW ring \in [Slots -> Int], NEW n \in Nat, NEW text \in Int,
         NEW issued, NEW more,
         HoldsIssued(ring, n, issued),
         \A k \in 1 .. n : more[k] = issued[k], more[n + 1] = text
  PROVE  HoldsIssued([ring EXCEPT ![Slot(n + 1)] = text], n + 1, more)
<1> DEFINE new == [ring EXCEPT ![Slot(n + 1)] = text]
<1>1. MAX_RELIABLE_COMMANDS \in Nat \ {0} /\ n + 1 \in Int
  BY ConstantAssumption
<1>2. HoldsLatest(ring, MAX_RELIABLE_COMMANDS, n, issued)
  BY Zenon DEF HoldsIssued, HoldsLatest, Slot
<1>3. ring \in [0 .. MAX_RELIABLE_COMMANDS - 1 -> Int]
  BY Zenon DEF Slots
<1>4. HoldsLatest([ring EXCEPT ![(n + 1) % MAX_RELIABLE_COMMANDS] = text],
                  MAX_RELIABLE_COMMANDS, n + 1, more)
  BY <1>1, <1>2, <1>3, LatestStep
<1>5. HoldsLatest(new, MAX_RELIABLE_COMMANDS, n + 1, more)
  BY <1>4, Zenon DEF Slot
<1> HIDE DEF new
<1>6. HoldsIssued(new, n + 1, more)
  BY <1>5, Zenon DEF HoldsIssued, HoldsLatest, Slot
<1>7. QED
  BY <1>6 DEF new

LEMMA ParsedSeq ==
  ASSUME NEW st \in ParseState, NEW command \in Command
  PROVE  CL_ParseCommandString(st, command).seq
           = IF st.seq >= command.seq THEN st.seq ELSE command.seq
BY DEF CL_ParseCommandString, ParseState, Command

LEMMA ParseStep ==
  ASSUME NEW st \in ParseState, NEW command \in Command, NEW issued,
         command.seq <= st.seq + 1, command.text = issued[command.seq],
         HoldsIssued(st.ring, st.seq, issued)
  PROVE  HoldsIssued(CL_ParseCommandString(st, command).ring,
                     CL_ParseCommandString(st, command).seq, issued)
<1>1. CASE st.seq >= command.seq
  BY <1>1 DEF CL_ParseCommandString
<1>2. CASE ~(st.seq >= command.seq)
  <2>1. /\ CL_ParseCommandString(st, command).ring
             = [st.ring EXCEPT ![Slot(command.seq)] = command.text]
        /\ CL_ParseCommandString(st, command).seq = command.seq
    BY <1>2 DEF CL_ParseCommandString
  <2>2. /\ command.seq = st.seq + 1 /\ st.seq \in Nat /\ st.ring \in [Slots -> Int]
        /\ command.text \in Int
    BY <1>2 DEF Command, ParseState
  <2>3. HoldsIssued([st.ring EXCEPT ![Slot(st.seq + 1)] = command.text], st.seq + 1, issued)
    <3>1. command.text = issued[st.seq + 1]
      BY <2>2
    <3>2. QED
      BY <2>2, <3>1, RingStep, Zenon
  <2>4. QED
    BY <2>1, <2>2, <2>3
<1>3. QED
  BY <1>1, <1>2

\* parsed is the client's ring after the message m: one that begins with a command that
\* the client has, or with its next one, brings it up to the newest the server had.
BroughtUp(st, m, parsed, issued) ==
  /\ parsed \in ParseState /\ parsed.seq >= st.seq
  /\ Base(m) <= st.seq =>
       parsed.seq = IF st.seq >= m.sequence THEN st.seq ELSE m.sequence
  /\ /\ Base(m) <= st.seq
     /\ \A j \in 1 .. Len(m.commands) : m.commands[j].text = issued[Base(m) + j]
     /\ HoldsIssued(st.ring, st.seq, issued)
     => HoldsIssued(parsed.ring, parsed.seq, issued)

LEMMA ParsedMessage ==
  ASSUME NEW st \in ParseState, NEW m \in Message, Gapless(m),
         NEW parsed, parsed = FoldLeft(CL_ParseCommandString, st, m.commands),
         NEW issued
  PROVE  BroughtUp(st, m, parsed, issued)
<1> DEFINE N == Len(m.commands)
           b == Base(m)
           Texts == \A j \in 1 .. N : m.commands[j].text = issued[b + j]
<1>1. /\ N \in Nat /\ b \in Nat /\ m.sequence = b + N /\ m.commands \in Seq(Command)
      /\ \A j \in 1 .. N : m.commands[j] \in Command /\ m.commands[j].seq = b + j
  BY DEF Message, Gapless, Base
<1>2. PICK run \in [0 .. N -> ParseState] :
        /\ run[0] = st
        /\ \A k \in 1 .. N : run[k] = CL_ParseCommandString(run[k - 1], m.commands[k])
        /\ run[N] = parsed
  BY <1>1, ParseRun
<1> DEFINE Reached(k) ==
             /\ run[k].seq >= st.seq
             /\ b <= st.seq => run[k].seq = IF st.seq >= b + k THEN st.seq ELSE b + k
             /\ b <= st.seq /\ Texts /\ HoldsIssued(st.ring, st.seq, issued)
                => HoldsIssued(run[k].ring, run[k].seq, issued)
           T == {k \in 0 .. N : Reached(k)}
<1> HIDE DEF N, b
<1>3. 0 \in T
  BY <1>1, <1>2 DEF ParseState
<1>4. ASSUME NEW k \in 0 .. N, k \in T, k < N
      PROVE  k + 1 \in T
  <2>1. k + 1 \in 0 .. N /\ k + 1 \in 1 .. N /\ (k + 1) - 1 = k /\ k \in Nat
    BY <1>1, <1>4
  <2> DEFINE command == m.commands[k + 1]
  <2>2. command \in Command /\ command.seq = b + (k + 1)
    BY <1>1, <2>1
  <2>3. run[k + 1] = CL_ParseCommandString(run[k], command) /\ run[k] \in ParseState
    BY <1>2, <2>1
  <2>4. Reached(k)
    BY <1>4
  <2>5. Texts => command.text = issued[command.seq]
    BY <2>1, <2>2
  <2> HIDE DEF command, Texts
  <2>6. run[k + 1].seq = IF run[k].seq >= command.seq THEN run[k].seq ELSE command.seq
    BY <2>2, <2>3, ParsedSeq
  <2>7. st.seq \in Nat /\ run[k].seq \in Nat
    BY <2>3 DEF ParseState
  <2>8. /\ run[k + 1].seq >= st.seq
        /\ b <= st.seq => run[k + 1].seq = IF st.seq >= b + (k + 1) THEN st.seq ELSE b + (k + 1)
    BY <1>1, <2>1, <2>2, <2>4, <2>6, <2>7
  <2>9. ASSUME b <= st.seq, Texts, HoldsIssued(st.ring, st.seq, issued)
        PROVE  HoldsIssued(run[k + 1].ring, run[k + 1].seq, issued)
    <3>1. command.seq <= run[k].seq + 1
      BY <1>1, <2>1, <2>2, <2>4, <2>7, <2>9
    <3>2. HoldsIssued(run[k].ring, run[k].seq, issued) /\ command.text = issued[command.seq]
      BY <2>4, <2>5, <2>9
    <3>3. QED
      BY <2>2, <2>3, <3>1, <3>2, ParseStep
  <2>10. QED
    BY <2>1, <2>8, <2>9
<1>5. \A k \in 0 .. N : k \in T
  <2> HIDE DEF T
  <2>1. QED
    BY <1>1, <1>3, <1>4, IntervalInduction
<1>6. Reached(N)
  <2>1. N \in 0 .. N
    BY <1>1
  <2> HIDE DEF Reached
  <2>2. QED
    BY <1>5, <2>1
<1>7. parsed \in ParseState
  <2>1. N \in 0 .. N
    BY <1>1
  <2>2. QED
    BY <1>2, <2>1
<1>8. QED
  BY <1>1, <1>2, <1>6, <1>7 DEF N, b, BroughtUp

-----------------------------------------------------------------------------
\* What the server's operations do to its client_t.

\* c comes after cl: nothing that was sent is taken back, a zombie stays one.
Follows(cl, c) ==
  /\ ServerType(c)
  /\ c.reliableAcknowledge = cl.reliableAcknowledge /\ c.illegible = cl.illegible
  /\ cl.reliableSequence <= c.reliableSequence
  /\ \A n \in 1 .. cl.reliableSequence : c.issued[n] = cl.issued[n]
  /\ cl.state = "zombie" => c.state = "zombie"

LEMMA FollowsSelf ==
  ASSUME NEW cl, ServerType(cl)
  PROVE  Follows(cl, cl)
BY DEF Follows, ServerType

LEMMA FollowsTransitive ==
  ASSUME NEW a, NEW b, NEW c, ServerType(a), Follows(a, b), Follows(b, c)
  PROVE  Follows(a, c)
<1>1. a.reliableSequence \in Nat /\ b.reliableSequence \in Nat /\ c.reliableSequence \in Nat
  BY DEF Follows, ServerType
<1>2. QED
  BY <1>1 DEF Follows

LEMMA NumberedFollows ==
  ASSUME NEW cl, ServerType(cl), NEW text \in Int
  PROVE  /\ Follows(cl, Numbered(cl, text))
         /\ Numbered(cl, text).reliableSequence = cl.reliableSequence + 1
         /\ Numbered(cl, text).issued[cl.reliableSequence + 1] = text
         /\ Numbered(cl, text).reliableCommands = cl.reliableCommands
         /\ Numbered(cl, text).state = cl.state
<1> DEFINE c == Numbered(cl, text)
<1>1. /\ cl.issued \in Seq(Int) /\ cl.reliableSequence = Len(cl.issued)
      /\ cl.reliableSequence \in Nat
  BY DEF ServerType
<1>2. /\ Append(cl.issued, text) \in Seq(Int)
      /\ Len(Append(cl.issued, text)) = cl.reliableSequence + 1
      /\ Append(cl.issued, text)[cl.reliableSequence + 1] = text
      /\ \A n \in 1 .. cl.reliableSequence : Append(cl.issued, text)[n] = cl.issued[n]
  BY <1>1
<1>3. /\ c.reliableSequence = cl.reliableSequence + 1
      /\ c.issued = Append(cl.issued, text)
      /\ c.reliableCommands = cl.reliableCommands /\ c.state = cl.state
      /\ c.reliableAcknowledge = cl.reliableAcknowledge /\ c.illegible = cl.illegible
  <2> DEFINE more == Append(cl.issued, text)
  <2>1. c = [cl EXCEPT !.reliableSequence = @ + 1, !.issued = more]
    BY DEF Numbered
  <2> HIDE DEF c, more
  <2>2. QED
    BY <2>1 DEF ServerType, more
<1>4. ServerType(c)
  <2>1. PICK more : more = Append(cl.issued, text)
    OBVIOUS
  <2>2. c = [cl EXCEPT !.reliableSequence = @ + 1, !.issued = more]
    BY <2>1 DEF Numbered
  <2>3. /\ more \in Seq(Int) /\ Len(more) = cl.reliableSequence + 1
        /\ cl.reliableSequence + 1 \in Nat
    BY <1>1, <1>2, <2>1
  <2> HIDE DEF c
  <2>4. QED
    BY <2>2, <2>3 DEF ServerType
<1>5. QED
  <2> HIDE DEF c
  <2>1. Follows(cl, c)
    BY <1>1, <1>2, <1>3, <1>4 DEF Follows
  <2>2. QED
    BY <1>2, <1>3, <2>1 DEF c

LEMMA StoredFollows ==
  ASSUME NEW cl, ServerType(cl), NEW text \in Int
  PROVE  /\ Follows(cl, Stored(cl, text))
         /\ Stored(cl, text).reliableSequence = cl.reliableSequence + 1
         /\ Stored(cl, text).state = cl.state
         /\ HoldsIssued(cl.reliableCommands, cl.reliableSequence, cl.issued)
            => HoldsIssued(Stored(cl, text).reliableCommands, cl.reliableSequence + 1,
                           Stored(cl, text).issued)
<1> DEFINE b == Numbered(cl, text)
           c == Stored(cl, text)
           n == cl.reliableSequence
<1>1. /\ Follows(cl, b) /\ ServerType(b) /\ b.reliableSequence = n + 1 /\ b.issued[n + 1] = text
      /\ b.reliableCommands = cl.reliableCommands /\ b.state = cl.state
  BY NumberedFollows DEF Follows
<1>2. n \in Nat /\ cl.reliableCommands \in [Slots -> Int] /\ Slot(n + 1) \in Slots
  BY SlotInRing DEF ServerType
<1>3. c = [b EXCEPT !.reliableCommands[Slot(n + 1)] = text]
  BY DEF Stored
<1>4. /\ [cl.reliableCommands EXCEPT ![Slot(n + 1)] = text] \in [Slots -> Int]
      /\ HoldsIssued(cl.reliableCommands, n, cl.issued)
         => HoldsIssued([cl.reliableCommands EXCEPT ![Slot(n + 1)] = text], n + 1, b.issued)
  <2>1. \A k \in 1 .. n : b.issued[k] = cl.issued[k]
    BY <1>1 DEF Follows
  <2> HIDE DEF b, n
  <2>2. QED
    BY <1>1, <1>2, <2>1, RingStep
<1> HIDE DEF b, c
<1>5. /\ c.reliableCommands = [cl.reliableCommands EXCEPT ![Slot(n + 1)] = text]
      /\ c.reliableSequence = b.reliableSequence /\ c.issued = b.issued /\ c.state = b.state
      /\ c.reliableAcknowledge = b.reliableAcknowledge /\ c.illegible = b.illegible
      /\ ServerType(c)
  BY <1>1, <1>3, <1>4 DEF ServerType
<1>6. Follows(cl, c)
  BY <1>1, <1>5 DEF Follows
<1>7. QED
  BY <1>1, <1>4, <1>5, <1>6 DEF c

LEMMA ZombieFollows ==
  ASSUME NEW cl, ServerType(cl)
  PROVE  Follows(cl, Zombie(cl)) /\ Zombie(cl).state = "zombie"
<1> DEFINE c == Zombie(cl)
<1>1. c = [cl EXCEPT !.state = "zombie"]
  BY DEF Zombie
<1> HIDE DEF c
<1>2. ServerType(c) /\ c.state = "zombie"
  BY <1>1 DEF ServerType
<1>3. Follows(cl, c)
  <2>1. cl.reliableSequence \in Nat
    BY DEF ServerType
  <2>2. /\ c.reliableAcknowledge = cl.reliableAcknowledge /\ c.illegible = cl.illegible
        /\ c.reliableSequence = cl.reliableSequence /\ c.issued = cl.issued
    BY <1>1 DEF ServerType
  <2>3. QED
    BY <1>2, <2>1, <2>2 DEF Follows
<1>4. QED
  BY <1>2, <1>3 DEF c

LEMMA GameDisconnectFollows ==
  ASSUME NEW cl, ServerType(cl)
  PROVE  Follows(cl, GameDisconnect(cl))
<1> DEFINE c == GameDisconnect(cl)
<1>1. c = [cl EXCEPT !.disconnects = @ + 1]
  BY DEF GameDisconnect
<1> HIDE DEF c
<1>2. ServerType(c)
  BY <1>1 DEF ServerType
<1>3. Follows(cl, c)
  <2>1. cl.reliableSequence \in Nat
    BY DEF ServerType
  <2>2. /\ c.reliableAcknowledge = cl.reliableAcknowledge /\ c.illegible = cl.illegible
        /\ c.reliableSequence = cl.reliableSequence /\ c.issued = cl.issued
        /\ c.state = cl.state
    BY <1>1 DEF ServerType
  <2>3. QED
    BY <1>2, <2>1, <2>2 DEF Follows
<1>4. QED
  BY <1>3 DEF c

LEMMA DropAfterOverflowFollows ==
  ASSUME NEW cl, ServerType(cl)
  PROVE  /\ Follows(cl, DropAfterOverflow(cl))
         /\ ~Loopback => DropAfterOverflow(cl).state = "zombie"
<1> DEFINE a == GameDisconnect(cl)
           b == Stored(a, DropPrint)
           c == Stored(b, DropDisconnect)
<1>1. DropPrint \in Int /\ DropDisconnect \in Int
  BY DEF DropPrint, DropDisconnect
<1>2. Follows(cl, a) /\ ServerType(a)
  BY GameDisconnectFollows DEF Follows
<1>3. Follows(a, b) /\ ServerType(b)
  BY <1>1, <1>2, StoredFollows DEF Follows
<1>4. Follows(b, c) /\ ServerType(c)
  BY <1>1, <1>3, StoredFollows DEF Follows
<1>5. Follows(c, Zombie(c)) /\ Zombie(c).state = "zombie"
  BY <1>4, ZombieFollows
<1>6. Follows(cl, Zombie(c))
  <2> HIDE DEF a, b, c
  <2>1. QED
    BY <1>2, <1>3, <1>4, <1>5, FollowsTransitive
<1>7. Follows(cl, cl)
  BY FollowsSelf
<1>8. DropAfterOverflow(cl) = IF Loopback \/ cl.state = "zombie" THEN cl ELSE Zombie(c)
  BY DEF DropAfterOverflow
<1> HIDE DEF c
<1>9. QED
  BY <1>5, <1>6, <1>7, <1>8, Zenon

\* SV_AddServerCommand drops a client for whom there is no room, and so keeps its ring
\* whole.
LEMMA AddServerCommandFollows ==
  ASSUME NEW cl, ServerType(cl), NEW text \in Int
  PROVE  /\ Follows(cl, SV_AddServerCommand(cl, text))
         /\ RingWhole(cl) => RingWhole(SV_AddServerCommand(cl, text))
<1> DEFINE c == SV_AddServerCommand(cl, text)
<1>1. CASE cl.state = "zombie"
  BY <1>1, FollowsSelf DEF SV_AddServerCommand, RingWhole
<1>2. CASE cl.state # "zombie" /\ Overflows(cl)
  <2>1. c = DropAfterOverflow(Numbered(cl, text))
    BY <1>2 DEF SV_AddServerCommand
  <2>2. Follows(cl, Numbered(cl, text)) /\ ServerType(Numbered(cl, text))
    BY NumberedFollows DEF Follows
  <2>3. Follows(Numbered(cl, text), c) /\ (~Loopback => c.state = "zombie")
    BY <2>1, <2>2, DropAfterOverflowFollows
  <2> HIDE DEF c
  <2>4. Follows(cl, c)
    BY <2>2, <2>3, FollowsTransitive
  <2>5. RingWhole(c)
    BY <2>3 DEF RingWhole
  <2>6. QED
    BY <2>4, <2>5 DEF c
<1>3. CASE cl.state # "zombie" /\ ~Overflows(cl)
  <2>1. c = Stored(cl, text)
    BY <1>3 DEF SV_AddServerCommand
  <2> HIDE DEF c
  <2>2. /\ Follows(cl, c) /\ c.reliableSequence = cl.reliableSequence + 1 /\ c.state = cl.state
        /\ HoldsIssued(cl.reliableCommands, cl.reliableSequence, cl.issued)
           => HoldsIssued(c.reliableCommands, c.reliableSequence, c.issued)
    BY <2>1, StoredFollows
  <2>3. ASSUME RingWhole(cl) PROVE RingWhole(c)
    <3>1. /\ cl.reliableSequence \in Nat /\ cl.reliableAcknowledge \in Int
          /\ MAX_RELIABLE_COMMANDS \in Nat
          /\ c.reliableAcknowledge = cl.reliableAcknowledge
      BY <2>2, ConstantAssumption DEF ServerType, Follows
    <3>2. cl.reliableSequence - cl.reliableAcknowledge # MAX_RELIABLE_COMMANDS
      BY <1>3, <3>1 DEF Overflows
    <3>3. QED
      BY <2>2, <2>3, <3>1, <3>2 DEF RingWhole
  <2>4. QED
    BY <2>2, <2>3 DEF c
<1>4. QED
  BY <1>1, <1>2, <1>3

LEMMA DropClientFollows ==
  ASSUME NEW cl, ServerType(cl)
  PROVE  /\ Follows(cl, SV_DropClient(cl))
         /\ ~Loopback => SV_DropClient(cl).state = "zombie"
<1> DEFINE a == GameDisconnect(cl)
           b == SV_AddServerCommand(a, DropPrint)
           c == SV_AddServerCommand(b, DropDisconnect)
<1>1. DropPrint \in Int /\ DropDisconnect \in Int
  BY DEF DropPrint, DropDisconnect
<1>2. Follows(cl, a) /\ ServerType(a)
  BY GameDisconnectFollows DEF Follows
<1>3. Follows(a, b) /\ ServerType(b)
  BY <1>1, <1>2, AddServerCommandFollows DEF Follows
<1>4. Follows(b, c) /\ ServerType(c)
  BY <1>1, <1>3, AddServerCommandFollows DEF Follows
<1>5. Follows(c, Zombie(c)) /\ Zombie(c).state = "zombie"
  BY <1>4, ZombieFollows
<1>6. Follows(cl, Zombie(c))
  <2> HIDE DEF a, b, c
  <2>1. QED
    BY <1>2, <1>3, <1>4, <1>5, FollowsTransitive
<1>7. Follows(cl, cl)
  BY FollowsSelf
<1>8. SV_DropClient(cl) = IF Loopback \/ cl.state = "zombie" THEN cl ELSE Zombie(c)
  BY DEF SV_DropClient
<1> HIDE DEF c
<1>9. QED
  BY <1>5, <1>6, <1>7, <1>8, Zenon

-----------------------------------------------------------------------------
\* The steps.

LEMMA InitInvariant ==
  ASSUME Init
  PROVE  IInv
<1>1. MAX_RELIABLE_COMMANDS \in Nat \ {0}
  BY ConstantAssumption
<1>2. /\ client = [state |-> "active", reliableSequence |-> 0, reliableAcknowledge |-> 0,
                   reliableCommands |-> [s \in Slots |-> 0],
                   issued |-> <<>>, disconnects |-> 0, illegible |-> FALSE]
      /\ toClient = <<>> /\ toServer = <<>>
      /\ serverCommandSequence = 0 /\ lastExecutedServerCommand = 0
      /\ serverCommands = [s \in Slots |-> 0]
      /\ snapshot = NoSnapshot /\ gone = FALSE /\ executed = <<>>
  BY DEF Init
<1>3. ServerType(client) /\ client.reliableAcknowledge \in 0 .. client.reliableSequence
  <2>1. <<>> \in Seq(Int) /\ Len(<<>>) = 0 /\ [s \in Slots |-> 0] \in [Slots -> Int]
    OBVIOUS
  <2>2. QED
    BY <1>2, <2>1 DEF ServerType
<1>4. Types
  <2>1. toClient \in Seq(Message) /\ toServer \in Seq(Nat) /\ executed \in Seq(Int)
    BY <1>2
  <2>2. serverCommandSequence \in Nat /\ serverCommands \in [Slots -> Int]
    BY <1>2
  <2>3. gone \in BOOLEAN
    BY <1>2, Zenon
  <2>4. snapshot \in [serverCommandNum : 0 .. serverCommandSequence, sequence : Nat]
    BY <1>2 DEF NoSnapshot
  <2>5. lastExecutedServerCommand = Len(executed)
    BY <1>2
  <2>6. QED
    BY <1>3, <2>1, <2>2, <2>3, <2>4, <2>5 DEF Types
<1>5. Len(toClient) = 0 /\ Len(toServer) = 0 /\ Len(executed) = 0
  BY <1>2
<1>6. MessagesGapless /\ AcknowledgedIsReceived
  BY <1>2, <1>5 DEF MessagesGapless, AcknowledgedIsReceived
<1>7. RingWhole(client) /\ ReceivedAsIssued
  BY <1>1, <1>2, <1>5 DEF RingWhole, ReceivedAsIssued, HoldsIssued
<1>8. GuaranteeUnlessForgotten
  BY <1>2 DEF GuaranteeUnlessForgotten, Guarantee, NoSnapshot
<1>9. QED
  BY <1>4, <1>6, <1>7, <1>8 DEF IInv

\* The server has more to send.
LEMMA ServerStep ==
  ASSUME IInv, Follows(client, client'), RingWhole(client'),
         UNCHANGED <<toClient, toServer, clientVars>>
  PROVE  IInv'
<1>1. /\ ServerType(client) /\ ServerType(client') /\ Types
      /\ client.reliableSequence \in Nat /\ client'.reliableSequence \in Nat
      /\ client'.reliableAcknowledge = client.reliableAcknowledge
      /\ client'.illegible = client.illegible
      /\ client.reliableSequence <= client'.reliableSequence
      /\ \A n \in 1 .. client.reliableSequence : client'.issued[n] = client.issued[n]
  BY DEF IInv, Types, Follows, ServerType
<1>2. Types'
  <2>1. client'.reliableAcknowledge \in 0 .. client'.reliableSequence
    BY <1>1 DEF Types
  <2>2. QED
    BY <1>1, <2>1 DEF Types, clientVars
<1>3. MessagesGapless' /\ AcknowledgedIsReceived' /\ GuaranteeUnlessForgotten'
  BY <1>1 DEF IInv, clientVars, MessagesGapless, AcknowledgedIsReceived, Gapless, Base,
              GuaranteeUnlessForgotten, Guarantee
<1>4. ReceivedAsIssued'
  <2> SUFFICES ASSUME Orderly', ~Loopback
               PROVE  /\ \A i \in 1 .. Len(toClient) : Sent(toClient[i])'
                      /\ serverCommandSequence <= client'.reliableSequence
                      /\ HoldsIssued(serverCommands, serverCommandSequence, client'.issued)
                      /\ Len(executed) <= client'.reliableSequence
                      /\ \A n \in 1 .. Len(executed) : executed[n] = client'.issued[n]
    BY DEF ReceivedAsIssued, clientVars
  <2>1. Orderly
    BY DEF Orderly, Follows, ServerType, IInv, Types
  <2>2. /\ \A i \in 1 .. Len(toClient) : Sent(toClient[i])
        /\ serverCommandSequence <= client.reliableSequence
        /\ HoldsIssued(serverCommands, serverCommandSequence, client.issued)
        /\ Len(executed) <= client.reliableSequence
        /\ \A n \in 1 .. Len(executed) : executed[n] = client.issued[n]
    BY <2>1 DEF IInv, ReceivedAsIssued
  <2>3. serverCommandSequence \in Nat /\ Len(executed) \in Nat
    BY <1>1 DEF Types
  <2>4. ASSUME NEW i \in 1 .. Len(toClient)
        PROVE  Sent(toClient[i])'
    <3> DEFINE m == toClient[i]
    <3>1. m \in Message /\ Gapless(m) /\ Sent(m)
      BY <1>1, <2>2 DEF IInv, Types, MessagesGapless
    <3>2. m' = m
      BY DEF clientVars
    <3> HIDE DEF m
    <3>3. /\ Base(m) \in Nat /\ m.sequence \in Nat /\ Len(m.commands) \in Nat
          /\ Base(m) + Len(m.commands) = m.sequence
      BY <3>1 DEF Message, Gapless, Base
    <3>4. \A j \in 1 .. Len(m.commands) : Base(m) + j \in 1 .. client.reliableSequence
      BY <1>1, <3>1, <3>3 DEF Sent
    <3>5. m.sequence <= client'.reliableSequence
      BY <1>1, <3>1, <3>3 DEF Sent
    <3>6. \A j \in 1 .. Len(m.commands) : m.commands[j].text = client'.issued[Base(m) + j]
      <4>1. \A j \in 1 .. Len(m.commands) : m.commands[j].text = client.issued[Base(m) + j]
        BY <3>1 DEF Sent
      <4>2. QED
        BY <1>1, <3>4, <4>1
    <3>7. QED
      BY <3>2, <3>5, <3>6 DEF Sent, Base, m
  <2>5. HoldsIssued(serverCommands, serverCommandSequence, client'.issued)
    <3>1. \A n \in 1 .. serverCommandSequence : n \in 1 .. client.reliableSequence
      BY <1>1, <2>2, <2>3
    <3>2. QED
      BY <1>1, <2>2, <3>1 DEF HoldsIssued
  <2>6. QED
    BY <1>1, <2>2, <2>3, <2>4, <2>5
<1>5. RingWhole(client)'
  OBVIOUS
<1>6. QED
  BY <1>2, <1>3, <1>4, <1>5 DEF IInv

LEMMA SendServerCommandStep ==
  ASSUME IInv, SendServerCommand
  PROVE  IInv'
<1> DEFINE text == client.reliableSequence + 1
<1>1. ServerType(client) /\ text \in Int
  BY DEF IInv, Types, ServerType
<1>2. client' = SV_AddServerCommand(client, text)
  BY DEF SendServerCommand
<1>3. Follows(client, client') /\ RingWhole(client')
  BY <1>1, <1>2, AddServerCommandFollows DEF IInv
<1>4. QED
  BY <1>3, ServerStep DEF SendServerCommand

LEMMA DropClientStep ==
  ASSUME IInv, DropClient
  PROVE  IInv'
<1>1. ServerType(client)
  BY DEF IInv, Types
<1>2. Follows(client, client') /\ client'.state = "zombie"
  BY <1>1, DropClientFollows DEF DropClient
<1>3. RingWhole(client')
  BY <1>2 DEF RingWhole
<1>4. QED
  BY <1>2, <1>3, ServerStep DEF DropClient

\* A message carries what the server's ring holds.
LEMMA SendClientSnapshotStep ==
  ASSUME IInv, SV_SendClientSnapshot
  PROVE  IInv'
<1>1. PICK commands, m : /\ commands = SV_UpdateServerCommandsToClient(client)
                         /\ m = [commands |-> commands, sequence |-> client.reliableSequence]
  OBVIOUS
<1> DEFINE A == client.reliableAcknowledge
           R == client.reliableSequence
<1>2. /\ toClient' = Append(toClient, m)
      /\ UNCHANGED <<client, toServer, clientVars>>
  BY <1>1 DEF SV_SendClientSnapshot
<1>3. /\ A \in Nat /\ R \in Nat /\ A <= R /\ toClient \in Seq(Message)
      /\ client.reliableCommands \in [Slots -> Int]
  BY DEF IInv, Types, ServerType
<1> HIDE DEF A, R
<1>4. /\ commands = [j \in 1 .. R - A |-> [seq |-> A + j,
                                           text |-> client.reliableCommands[Slot(A + j)]]]
  BY <1>1 DEF SV_UpdateServerCommandsToClient, A, R
<1>5. commands \in Seq(Command) /\ Len(commands) = R - A
  <2>1. R - A \in Nat
    BY <1>3
  <2>2. \A j \in 1 .. R - A : /\ A + j \in Nat
                              /\ client.reliableCommands[Slot(A + j)] \in Int
    BY <1>3, SlotInRing
  <2>3. \A j \in 1 .. R - A : [seq |-> A + j, text |-> client.reliableCommands[Slot(A + j)]]
                                \in Command
    BY <2>2 DEF Command
  <2>4. QED
    BY <1>4, <2>1, <2>3
<1>6. /\ m \in Message /\ m.commands = commands /\ m.sequence = R
      /\ \A j \in 1 .. R - A : /\ commands[j].seq = A + j
                               /\ commands[j].text = client.reliableCommands[Slot(A + j)]
  <2>1. \A j \in 1 .. R - A : /\ commands[j].seq = A + j
                              /\ commands[j].text = client.reliableCommands[Slot(A + j)]
    BY <1>4
  <2>2. m \in Message /\ m.commands = commands /\ m.sequence = R
    BY <1>1, <1>3, <1>5 DEF Message, R
  <2>3. QED
    BY <2>1, <2>2
<1>7. Base(m) = A
  BY <1>3, <1>5, <1>6 DEF Base
<1>8. Gapless(m)
  BY <1>3, <1>5, <1>6, <1>7 DEF Gapless
<1>9. /\ toClient' \in Seq(Message)
      /\ \A k \in 1 .. Len(toClient') :
           \/ k \in 1 .. Len(toClient) /\ toClient'[k] = toClient[k]
           \/ toClient'[k] = m
  BY <1>2, <1>3, <1>6, OneMoreMessage
<1>10. Types'
  BY <1>2, <1>9 DEF IInv, Types, clientVars
<1>11. MessagesGapless'
  BY <1>8, <1>9 DEF IInv, MessagesGapless
<1>12. AcknowledgedIsReceived'
  BY <1>2, <1>7, <1>9 DEF IInv, AcknowledgedIsReceived, clientVars, A
<1>13. Orderly /\ ~Loopback => Sent(m)
  <2> SUFFICES ASSUME Orderly, ~Loopback
               PROVE  \A j \in 1 .. R - A : commands[j].text = client.issued[A + j]
    BY <1>3, <1>5, <1>6, <1>7 DEF Sent, R
  <2>1. /\ R - A <= MAX_RELIABLE_COMMANDS
        /\ HoldsIssued(client.reliableCommands, R, client.issued)
    BY DEF IInv, RingWhole, Orderly, A, R
  <2>2. ASSUME NEW j \in 1 .. R - A
        PROVE  A + j \in 1 .. R /\ R - MAX_RELIABLE_COMMANDS < A + j
    BY <1>3, <2>1, ConstantAssumption
  <2>3. QED
    BY <1>6, <2>1, <2>2 DEF HoldsIssued
<1>14. ReceivedAsIssued'
  <2> SUFFICES ASSUME Orderly, ~Loopback
               PROVE  \A i \in 1 .. Len(toClient') : Sent(toClient'[i])
    BY <1>2 DEF IInv, ReceivedAsIssued, Orderly, Sent, clientVars
  <2>1. \A i \in 1 .. Len(toClient) : Sent(toClient[i])
    BY DEF IInv, ReceivedAsIssued
  <2>2. QED
    BY <1>9, <1>13, <2>1
<1>15. RingWhole(client)' /\ GuaranteeUnlessForgotten'
  BY <1>2 DEF IInv, RingWhole, HoldsIssued, GuaranteeUnlessForgotten, Guarantee, clientVars
<1>16. QED
  BY <1>10, <1>11, <1>12, <1>14, <1>15 DEF IInv

LEMMA AcknowledgedType ==
  ASSUME NEW cl, ServerType(cl), NEW a \in Int, NEW c,
         c = [cl EXCEPT !.reliableAcknowledge = a]
  PROVE  ServerType(c)
<1>1. /\ c.reliableAcknowledge = a /\ c.illegible = cl.illegible
      /\ c.state = cl.state /\ c.reliableCommands = cl.reliableCommands
      /\ c.reliableSequence = cl.reliableSequence /\ c.issued = cl.issued
      /\ c.disconnects = cl.disconnects
  BY DEF ServerType
<1>2. c \in [state : {"active", "zombie"}, reliableSequence : Nat, reliableAcknowledge : Int,
             reliableCommands : [Slots -> Int], issued : Seq(Int),
             disconnects : Nat, illegible : BOOLEAN]
  BY DEF ServerType
<1>3. QED
  BY <1>1, <1>2 DEF ServerType

\* The acknowledgement of a client that is not a zombie.
LEMMA AcknowledgeResult ==
  ASSUME NEW cl, ServerType(cl), cl.reliableAcknowledge \in 0 .. cl.reliableSequence,
         RingWhole(cl), NEW ack \in Nat
  PROVE  LET c == Acknowledge(cl, ack)
         IN  /\ ServerType(c) /\ RingWhole(c)
             /\ c.reliableAcknowledge \in 0 .. c.reliableSequence
             /\ \/ c.illegible
                \/ /\ c.reliableAcknowledge = ack /\ c.illegible = cl.illegible
                   /\ c.state = cl.state
                   /\ c.reliableSequence = cl.reliableSequence /\ c.issued = cl.issued
<1> DEFINE c == Acknowledge(cl, ack)
<1>1. /\ cl.reliableSequence \in Nat /\ cl.reliableAcknowledge \in Int
      /\ MAX_RELIABLE_COMMANDS \in Nat \ {0}
  BY ConstantAssumption DEF ServerType
<1>2. CASE ~OutOfRange(cl, ack)
  <2>1. c = [cl EXCEPT !.reliableAcknowledge = ack]
    BY <1>2 DEF Acknowledge
  <2> HIDE DEF c
  <2>2. /\ ServerType(c) /\ c.reliableAcknowledge = ack /\ c.illegible = cl.illegible
        /\ c.state = cl.state /\ c.reliableCommands = cl.reliableCommands
        /\ c.reliableSequence = cl.reliableSequence /\ c.issued = cl.issued
    <3>1. ServerType(c)
      <4>1. ack \in Int
        OBVIOUS
      <4>2. QED
        BY <2>1, <4>1, AcknowledgedType
    <3>2. /\ c.reliableAcknowledge = ack /\ c.illegible = cl.illegible
          /\ c.state = cl.state /\ c.reliableCommands = cl.reliableCommands
          /\ c.reliableSequence = cl.reliableSequence /\ c.issued = cl.issued
      BY <2>1 DEF ServerType
    <3>3. QED
      BY <3>1, <3>2
  <2>3. /\ c.reliableSequence - ack < MAX_RELIABLE_COMMANDS
        /\ ack \in 0 .. c.reliableSequence
    BY <1>1, <1>2, <2>2 DEF OutOfRange
  <2>4. RingWhole(c)
    <3>1. c.reliableSequence - c.reliableAcknowledge <= MAX_RELIABLE_COMMANDS
      BY <1>1, <2>2, <2>3
    <3>2. QED
      BY <2>2, <3>1 DEF RingWhole
  <2>5. QED
    BY <2>2, <2>3, <2>4 DEF c
<1>3. CASE OutOfRange(cl, ack)
  <2> DEFINE b == [cl EXCEPT !.reliableAcknowledge = ack]
             d == IF NDEBUG THEN cl ELSE SV_DropClient(b)
  <2>1. c = [d EXCEPT !.reliableAcknowledge = d.reliableSequence, !.illegible = TRUE]
    BY <1>3 DEF Acknowledge
  <2>2. ServerType(d) /\ (RingWhole(cl) => d = cl \/ d.state = "zombie" \/ Loopback)
    <3>1. ServerType(b)
      BY DEF ServerType
    <3> HIDE DEF b
    <3>2. ServerType(SV_DropClient(b)) /\ (~Loopback => SV_DropClient(b).state = "zombie")
      BY <3>1, DropClientFollows DEF Follows
    <3>3. QED
      BY <3>2
  <2> HIDE DEF c, d
  <2>3. /\ ServerType(c) /\ c.illegible /\ c.state = d.state
        /\ c.reliableSequence = d.reliableSequence
        /\ c.reliableAcknowledge = d.reliableSequence
        /\ c.issued = d.issued /\ c.reliableCommands = d.reliableCommands
        /\ d.reliableSequence \in Nat
    <3>1. PICK n : n = d.reliableSequence
      OBVIOUS
    <3>2. n \in Nat /\ n \in Int
      BY <2>2, <3>1 DEF ServerType
    <3>3. c = [d EXCEPT !.reliableAcknowledge = n, !.illegible = TRUE]
      BY <2>1, <3>1
    <3>4. ServerType(c)
      BY <2>2, <3>2, <3>3 DEF ServerType
    <3>5. /\ c.illegible /\ c.state = d.state
          /\ c.reliableSequence = n /\ c.reliableAcknowledge = n
          /\ c.issued = d.issued /\ c.reliableCommands = d.reliableCommands
      BY <2>2, <3>1, <3>3 DEF ServerType
    <3>6. QED
      BY <3>1, <3>2, <3>4, <3>5
  <2>4. c.reliableAcknowledge \in 0 .. c.reliableSequence
    BY <2>3
  <2>5. RingWhole(c)
    <3>1. c.reliableSequence - c.reliableAcknowledge <= MAX_RELIABLE_COMMANDS
      BY <1>1, <2>3
    <3>2. QED
      BY <2>2, <2>3, <3>1 DEF RingWhole
  <2>6. QED
    BY <2>3, <2>4, <2>5 DEF c
<1>4. QED
  BY <1>2, <1>3

LEMMA ExecuteClientMessageStep ==
  ASSUME IInv, SV_ExecuteClientMessage
  PROVE  IInv'
<1>1. PICK i \in 1 .. Len(toServer) :
        /\ toServer' = SubSeq(toServer, i + 1, Len(toServer))
        /\ client' = IF client.state = "zombie" THEN client
                     ELSE Acknowledge(client, toServer[i])
  <2>1. DOMAIN toServer = 1 .. Len(toServer)
    BY DEF IInv, Types
  <2>2. QED
    BY <2>1, Zenon DEF SV_ExecuteClientMessage
<1>2. UNCHANGED <<toClient, clientVars>>
  BY DEF SV_ExecuteClientMessage
<1>3. /\ toServer \in Seq(Nat) /\ toServer[i] \in Nat
      /\ ServerType(client) /\ client.reliableAcknowledge \in 0 .. client.reliableSequence
      /\ RingWhole(client)
  BY DEF IInv, Types
<1>4. /\ toServer' \in Seq(Nat)
      /\ \A k \in 1 .. Len(toServer') :
           i + k \in 1 .. Len(toServer) /\ toServer'[k] = toServer[i + k]
  BY <1>1, <1>3, LaterMessages
<1>5. /\ ServerType(client') /\ RingWhole(client')
      /\ client'.reliableAcknowledge \in 0 .. client'.reliableSequence
      /\ \/ client'.illegible
         \/ /\ client'.reliableAcknowledge \in {toServer[i], client.reliableAcknowledge}
            /\ client'.illegible = client.illegible
            /\ client'.state = client.state
            /\ client'.reliableSequence = client.reliableSequence
            /\ client'.issued = client.issued
  <2>1. CASE client.state = "zombie"
    BY <1>1, <1>3, <2>1
  <2>2. CASE client.state # "zombie"
    BY <1>1, <1>3, <2>2, AcknowledgeResult
  <2>3. QED
    BY <2>1, <2>2
<1>6. Types'
  BY <1>2, <1>4, <1>5 DEF IInv, Types, clientVars
<1>7. MessagesGapless'
  BY <1>2 DEF IInv, MessagesGapless
<1>8. AcknowledgedIsReceived'
  <2> SUFFICES ASSUME ~client'.illegible
               PROVE  /\ client'.reliableAcknowledge <= serverCommandSequence
                      /\ \A k \in 1 .. Len(toServer') : toServer'[k] <= serverCommandSequence
                      /\ \A k \in 1 .. Len(toClient) : Base(toClient[k]) <= serverCommandSequence
    BY <1>2 DEF AcknowledgedIsReceived, clientVars
  <2>1. ~client.illegible
    BY <1>5
  <2>2. QED
    BY <1>4, <1>5, <2>1 DEF IInv, AcknowledgedIsReceived
<1>9. ReceivedAsIssued'
  <2> SUFFICES ASSUME Orderly', ~Loopback
               PROVE  ReceivedAsIssued'
    BY DEF ReceivedAsIssued
  <2>1. /\ Orderly /\ client'.reliableSequence = client.reliableSequence
        /\ client'.issued = client.issued
    BY <1>5 DEF Orderly
  <2>2. QED
    BY <1>2, <2>1 DEF IInv, ReceivedAsIssued, Sent, HoldsIssued, clientVars
<1>10. GuaranteeUnlessForgotten'
  BY <1>2, <1>5 DEF IInv, GuaranteeUnlessForgotten, Guarantee, clientVars
<1>11. RingWhole(client)'
  BY <1>5
<1>12. QED
  BY <1>6, <1>7, <1>8, <1>9, <1>10, <1>11 DEF IInv

LEMMA ParseServerMessageStep ==
  ASSUME IInv, CL_ParseServerMessage
  PROVE  IInv'
<1>1. PICK i, m, st, parsed :
        /\ i \in 1 .. Len(toClient)
        /\ m = toClient[i]
        /\ st = [seq |-> serverCommandSequence, ring |-> serverCommands]
        /\ parsed = FoldLeft(CL_ParseCommandString, st, m.commands)
        /\ toClient' = SubSeq(toClient, i + 1, Len(toClient))
        /\ serverCommandSequence' = parsed.seq
        /\ serverCommands' = parsed.ring
        /\ snapshot' = [serverCommandNum |-> parsed.seq, sequence |-> m.sequence]
  <2>1. DOMAIN toClient = 1 .. Len(toClient)
    BY DEF IInv, Types
  <2>2. QED
    BY <2>1, Zenon DEF CL_ParseServerMessage
<1>2. UNCHANGED <<client, toServer, lastExecutedServerCommand, gone, executed>>
  BY DEF CL_ParseServerMessage
<1>3. /\ m \in Message /\ Gapless(m) /\ st \in ParseState /\ toClient \in Seq(Message)
      /\ m.sequence \in Nat /\ st.seq = serverCommandSequence /\ st.ring = serverCommands
  <2>1. toClient \in Seq(Message) /\ Gapless(m)
    BY <1>1, Zenon DEF IInv, Types, MessagesGapless
  <2>2. m \in Message
    <3>1. m = toClient[i] /\ i \in 1 .. Len(toClient)
      BY <1>1, Zenon
    <3>2. QED
      BY <2>1, <3>1
  <2>3. st = [seq |-> serverCommandSequence, ring |-> serverCommands]
    BY <1>1, Zenon
  <2>4. st \in ParseState /\ st.seq = serverCommandSequence /\ st.ring = serverCommands
    BY <2>3 DEF IInv, Types, ParseState
  <2>5. m.sequence \in Nat
    BY <2>2 DEF Message
  <2>6. QED
    BY <2>1, <2>2, <2>4, <2>5
<1>4. /\ parsed \in ParseState /\ parsed.seq >= st.seq
      /\ Base(m) <= st.seq =>
           parsed.seq = IF st.seq >= m.sequence THEN st.seq ELSE m.sequence
      /\ /\ Base(m) <= st.seq
         /\ \A j \in 1 .. Len(m.commands) : m.commands[j].text = client.issued[Base(m) + j]
         /\ HoldsIssued(st.ring, st.seq, client.issued)
         => HoldsIssued(parsed.ring, parsed.seq, client.issued)
  <2>1. parsed = FoldLeft(CL_ParseCommandString, st, m.commands)
    BY <1>1, Zenon
  <2>2. BroughtUp(st, m, parsed, client.issued)
    BY <1>3, <2>1, ParsedMessage, Zenon
  <2>3. QED
    BY <2>2 DEF BroughtUp
<1>5. /\ toClient' \in Seq(Message)
      /\ \A k \in 1 .. Len(toClient') :
           i + k \in 1 .. Len(toClient) /\ toClient'[k] = toClient[i + k]
  BY <1>1, <1>3, LaterMessages
<1>6. /\ parsed.seq \in Nat /\ parsed.ring \in [Slots -> Int] /\ serverCommandSequence \in Nat
      /\ serverCommandSequence <= parsed.seq
  BY <1>3, <1>4 DEF ParseState
<1>7. Types'
  <2>1. snapshot' \in [serverCommandNum : 0 .. serverCommandSequence', sequence : Nat]
    BY <1>1, <1>3, <1>6
  <2>2. QED
    BY <1>1, <1>2, <1>5, <1>6, <2>1 DEF IInv, Types
<1>8. MessagesGapless'
  BY <1>5 DEF IInv, MessagesGapless
<1>9. ~client.illegible =>
        /\ Base(m) <= serverCommandSequence
        /\ client.reliableAcknowledge <= serverCommandSequence
        /\ \A k \in 1 .. Len(toServer) : toServer[k] <= serverCommandSequence
        /\ \A k \in 1 .. Len(toClient) : Base(toClient[k]) <= serverCommandSequence
  BY <1>1 DEF IInv, AcknowledgedIsReceived
<1>10. /\ client.reliableAcknowledge \in Int
       /\ \A k \in 1 .. Len(toServer) : toServer[k] \in Int
       /\ \A k \in 1 .. Len(toClient) : Base(toClient[k]) \in Int
  BY DEF IInv, Types, MessagesGapless, Gapless
<1>11. AcknowledgedIsReceived'
  <2> SUFFICES ASSUME ~client.illegible
               PROVE  /\ client.reliableAcknowledge <= parsed.seq
                      /\ \A k \in 1 .. Len(toServer) : toServer[k] <= parsed.seq
                      /\ \A k \in 1 .. Len(toClient') : Base(toClient'[k]) <= parsed.seq
    BY <1>1, <1>2, Zenon DEF AcknowledgedIsReceived
  <2>1. \A x \in Int : x <= serverCommandSequence => x <= parsed.seq
    BY <1>6
  <2>2. /\ client.reliableAcknowledge <= parsed.seq
        /\ \A k \in 1 .. Len(toServer) : toServer[k] <= parsed.seq
        /\ \A k \in 1 .. Len(toClient) : Base(toClient[k]) <= parsed.seq
    BY <1>9, <1>10, <2>1, Zenon
  <2>3. QED
    BY <1>5, <2>2, Zenon
<1>12. GuaranteeUnlessForgotten'
  <2> SUFFICES ASSUME ~client.illegible
               PROVE  snapshot'.serverCommandNum >= snapshot'.sequence
    BY <1>2 DEF GuaranteeUnlessForgotten, Guarantee
  <2>1. snapshot'.serverCommandNum = parsed.seq /\ snapshot'.sequence = m.sequence
    BY <1>1
  <2>2. QED
    BY <1>3, <1>4, <1>6, <1>9, <2>1
<1>13. ReceivedAsIssued'
  <2> SUFFICES ASSUME Orderly, ~Loopback
               PROVE  /\ \A k \in 1 .. Len(toClient') : Sent(toClient'[k])
                      /\ parsed.seq <= client.reliableSequence
                      /\ HoldsIssued(parsed.ring, parsed.seq, client.issued)
    BY <1>1, <1>2 DEF IInv, ReceivedAsIssued, Orderly, Sent
  <2>1. /\ \A k \in 1 .. Len(toClient) : Sent(toClient[k])
        /\ serverCommandSequence <= client.reliableSequence
        /\ HoldsIssued(serverCommands, serverCommandSequence, client.issued)
        /\ ~client.illegible
    BY DEF IInv, ReceivedAsIssued, Orderly
  <2>2. Sent(m)
    BY <1>1, <2>1
  <2>3. parsed.seq <= client.reliableSequence
    BY <1>3, <1>4, <1>9, <2>1, <2>2 DEF Sent
  <2>4. HoldsIssued(parsed.ring, parsed.seq, client.issued)
    BY <1>3, <1>4, <1>9, <2>1, <2>2 DEF Sent
  <2>5. QED
    BY <1>5, <2>1, <2>3, <2>4
<1>14. RingWhole(client)'
  BY <1>2 DEF IInv, RingWhole, HoldsIssued
<1>15. QED
  BY <1>7, <1>8, <1>11, <1>12, <1>13, <1>14 DEF IInv

LEMMA GetServerCommandStep ==
  ASSUME IInv, CL_GetServerCommand
  PROVE  IInv'
<1>1. /\ UNCHANGED <<client, toClient, toServer, serverCommandSequence, serverCommands, snapshot>>
      /\ NextCommand <= snapshot.serverCommandNum
  BY DEF CL_GetServerCommand
<1>2. /\ executed \in Seq(Int) /\ Len(executed) \in Nat
      /\ NextCommand = Len(executed) + 1 /\ NextCommand \in Nat
      /\ serverCommandSequence \in Nat /\ NextCommand \in 1 .. serverCommandSequence
      /\ serverCommands \in [Slots -> Int] /\ Slot(NextCommand) \in Slots
  <2>1. executed \in Seq(Int) /\ lastExecutedServerCommand = Len(executed)
    BY DEF IInv, Types
  <2>2. Len(executed) \in Nat /\ NextCommand = Len(executed) + 1 /\ NextCommand \in Nat
    BY <2>1 DEF NextCommand
  <2>3. /\ serverCommandSequence \in Nat /\ serverCommands \in [Slots -> Int]
        /\ snapshot.serverCommandNum \in 0 .. serverCommandSequence
    BY DEF IInv, Types
  <2>4. NextCommand \in 1 .. serverCommandSequence
    BY <1>1, <2>2, <2>3
  <2>5. Slot(NextCommand) \in Slots
    BY <2>2, SlotInRing
  <2>6. QED
    BY <2>1, <2>2, <2>3, <2>4, <2>5
<1>3. MessagesGapless' /\ AcknowledgedIsReceived' /\ RingWhole(client)' /\ GuaranteeUnlessForgotten'
  BY <1>1 DEF IInv, MessagesGapless, AcknowledgedIsReceived, RingWhole, HoldsIssued,
              GuaranteeUnlessForgotten, Guarantee
<1>4. CASE CycledOut /\ gone' = TRUE /\ UNCHANGED <<lastExecutedServerCommand, executed>>
  <2>1. Types'
    BY <1>1, <1>4 DEF IInv, Types
  <2>2. ReceivedAsIssued'
    BY <1>1, <1>4 DEF IInv, ReceivedAsIssued, Orderly, Sent
  <2>3. QED
    BY <1>3, <2>1, <2>2 DEF IInv
<1>5. CASE /\ ~CycledOut
           /\ lastExecutedServerCommand' = NextCommand
           /\ executed' = Append(executed, serverCommands[Slot(NextCommand)])
           /\ gone' = (serverCommands[Slot(NextCommand)] = DropDisconnect)
  <2> DEFINE text == serverCommands[Slot(NextCommand)]
  <2>1. text \in Int
    BY <1>2
  <2>2. /\ executed' \in Seq(Int) /\ Len(executed') = Len(executed) + 1
        /\ \A n \in 1 .. Len(executed) : executed'[n] = executed[n]
        /\ executed'[NextCommand] = text
    <3> HIDE DEF text
    <3>1. executed' = Append(executed, text)
      BY <1>5 DEF text
    <3>2. QED
      BY <1>2, <2>1, <3>1
  <2>3. gone' \in BOOLEAN
    BY <1>5, Zenon
  <2>4. Types'
    <3>1. lastExecutedServerCommand' = Len(executed')
      BY <1>2, <1>5, <2>2
    <3>2. QED
      BY <1>1, <2>2, <2>3, <3>1 DEF IInv, Types
  <2>5. ReceivedAsIssued'
    <3> SUFFICES ASSUME Orderly, ~Loopback
                 PROVE  /\ Len(executed') <= client.reliableSequence
                        /\ \A n \in 1 .. Len(executed') : executed'[n] = client.issued[n]
      BY <1>1 DEF IInv, ReceivedAsIssued, Orderly, Sent
    <3>1. /\ serverCommandSequence <= client.reliableSequence
          /\ HoldsIssued(serverCommands, serverCommandSequence, client.issued)
          /\ \A n \in 1 .. Len(executed) : executed[n] = client.issued[n]
          /\ client.reliableSequence \in Nat
      BY DEF IInv, ReceivedAsIssued, Types, ServerType
    <3>2. text = client.issued[NextCommand]
      <4>1. serverCommandSequence - MAX_RELIABLE_COMMANDS < NextCommand
        BY <1>2, <1>5, ConstantAssumption DEF CycledOut
      <4>2. QED
        BY <1>2, <3>1, <4>1 DEF HoldsIssued
    <3>3. \A n \in 1 .. Len(executed') : n \in 1 .. Len(executed) \/ n = NextCommand
      BY <1>2, <2>2
    <3>4. Len(executed') <= client.reliableSequence
      BY <1>2, <2>2, <3>1
    <3> HIDE DEF text
    <3>5. QED
      BY <2>2, <3>1, <3>2, <3>3, <3>4
  <2>6. QED
    BY <1>3, <2>4, <2>5 DEF IInv
<1>6. QED
  BY <1>4, <1>5 DEF CL_GetServerCommand

LEMMA WritePacketStep ==
  ASSUME IInv, CL_WritePacket
  PROVE  IInv'
<1>1. /\ toServer' = Append(toServer, serverCommandSequence)
      /\ UNCHANGED <<client, toClient, clientVars>>
  BY DEF CL_WritePacket
<1>2. toServer \in Seq(Nat) /\ serverCommandSequence \in Nat
  BY DEF IInv, Types
<1>3. /\ toServer' \in Seq(Nat)
      /\ \A k \in 1 .. Len(toServer') :
           \/ k \in 1 .. Len(toServer) /\ toServer'[k] = toServer[k]
           \/ toServer'[k] = serverCommandSequence
  BY <1>1, <1>2, OneMoreMessage
<1>4. Types'
  BY <1>1, <1>3 DEF IInv, Types, clientVars
<1>5. AcknowledgedIsReceived'
  BY <1>1, <1>2, <1>3 DEF IInv, AcknowledgedIsReceived, clientVars
<1>6. /\ MessagesGapless' /\ RingWhole(client)' /\ ReceivedAsIssued'
      /\ GuaranteeUnlessForgotten'
  BY <1>1 DEF IInv, MessagesGapless, RingWhole, HoldsIssued, ReceivedAsIssued, Orderly, Sent,
              GuaranteeUnlessForgotten, Guarantee, clientVars
<1>7. QED
  BY <1>4, <1>5, <1>6 DEF IInv

-----------------------------------------------------------------------------
\* The rings, the messages under way and the acknowledgements fit together whatever is
\* lost, whoever is dropped, and however often.
THEOREM Invariant ==
  Spec => []IInv
<1>1. Init => IInv
  BY InitInvariant
<1>2. IInv /\ [Next]_vars => IInv'
  <2> SUFFICES ASSUME IInv, [Next]_vars PROVE IInv'
    OBVIOUS
  <2>1. CASE SendServerCommand
    BY <2>1, SendServerCommandStep
  <2>2. CASE DropClient
    BY <2>2, DropClientStep
  <2>3. CASE SV_SendClientSnapshot
    BY <2>3, SendClientSnapshotStep
  <2>4. CASE SV_ExecuteClientMessage
    BY <2>4, ExecuteClientMessageStep
  <2>5. CASE CL_ParseServerMessage
    BY <2>5, ParseServerMessageStep
  <2>6. CASE CL_GetServerCommand
    BY <2>6, GetServerCommandStep
  <2>7. CASE CL_WritePacket
    BY <2>7, WritePacketStep
  <2>8. CASE UNCHANGED vars
    BY <2>8 DEF vars, clientVars, IInv, Types, MessagesGapless, AcknowledgedIsReceived,
                RingWhole, HoldsIssued, ReceivedAsIssued, Orderly, Sent,
                GuaranteeUnlessForgotten, Guarantee
  <2>9. QED
    BY <2>1, <2>2, <2>3, <2>4, <2>5, <2>6, <2>7, <2>8 DEF Next
<1>3. QED
  BY <1>1, <1>2, PTL DEF Spec

\* The counters of both ends stay in step with what was issued and executed.
THEOREM TypeCorrect ==
  Spec => []TypeOK
<1>1. IInv => TypeOK
  BY DEF IInv, Types, ServerType, TypeOK
<1>2. QED
  BY <1>1, Invariant, PTL

\* A client that parsed a snapshot has every command that SV_AddServerCommand was given
\* before the snapshot was built, unless an acknowledgement was out of range, also while
\* the ring overflows and the client is dropped.
THEOREM SnapshotsAfterCommands ==
  Spec => []GuaranteeUnlessForgotten
<1>1. IInv => GuaranteeUnlessForgotten
  BY DEF IInv
<1>2. QED
  BY <1>1, Invariant, PTL

\* CL_GetServerCommand gives the game of a client on the network the commands in the
\* order of SV_AddServerCommand, none twice, none left out, none from a slot that was
\* used again.
THEOREM CommandsInOrder ==
  ASSUME ~Loopback
  PROVE  Spec => []ExecutedAsIssued
<1>1. IInv => ExecutedAsIssued
  <2> SUFFICES ASSUME IInv, Orderly
               PROVE  IsPrefix(executed, client.issued)
    BY DEF ExecutedAsIssued
  <2>1. /\ executed \in Seq(Int) /\ client.issued \in Seq(Int)
        /\ Len(executed) <= Len(client.issued)
        /\ \A n \in 1 .. Len(executed) : executed[n] = client.issued[n]
    BY DEF IInv, Types, ServerType, ReceivedAsIssued
  <2>2. SubSeq(executed, 1, Len(executed)) = SubSeq(client.issued, 1, Len(executed))
    BY <2>1
  <2>3. QED
    BY <2>1, <2>2 DEF IsPrefix
<1>2. QED
  BY <1>1, Invariant, PTL

\* "We must drop the connection": on the network a client that is kept has room for
\* every command.
THEOREM RoomForEveryCommand ==
  ASSUME ~Loopback
  PROVE  Spec => []NeverOverfull
<1>1. IInv => NeverOverfull
  BY DEF IInv, RingWhole, NeverOverfull
<1>2. QED
  BY <1>1, Invariant, PTL
=============================================================================
