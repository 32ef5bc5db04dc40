----------------------------- MODULE Connection -----------------------------
(***************************************************************************)
(* How one client gets its connection, keeps it and loses it: the table of *)
(* challenges (SV_GetChallenge, SV_DirectConnect, SV_DropPlayer), the      *)
(* client's requests and their repetition (CL_Connect_f,                   *)
(* CL_CheckForResend, CL_ConnectionlessPacket), and the timeouts of both   *)
(* sides.  Other addresses ask for challenges too and may recycle this     *)
(* client's.  Slots for clients are not scarce here (see PlayerSlots).     *)
(*                                                                         *)
(* Time is counted in ticks; what is kept of a time is the age, up to the  *)
(* age at which it makes no difference.  A datagram arrives never, once or *)
(* often, in any order, until it is older than MaxDelay.  Sequenced        *)
(* datagrams are not kept: the channel takes one only from the other side  *)
(* of the same connection (Netchan), and all that matters here is that one *)
(* arrived.  Left out: bans, the rate limits (they lose requests), ping    *)
(* limits, a client of another protocol or game, a full server, and a      *)
(* client in the server's process.                                         *)
(***************************************************************************)
EXTENDS Integers, FiniteSets

CONSTANTS MAX_CHALLENGES, MAX_CHALLENGES_MULTI,
          RETRANSMIT_TIMEOUT, cl_timeout,                   \* the client's,
          sv_reconnectlimit, sv_timeout, sv_zombietime,     \* the server's times
          MaxDelay,         \* the network's: no datagram is delivered later
          Numbers,          \* what rand() may give: as many as are in use at a time
          MaxInFlight       \* bound: how many are under way

ASSUME TableAssumption ==
  /\ MAX_CHALLENGES \in Nat /\ MAX_CHALLENGES_MULTI \in 1 .. MAX_CHALLENGES
  /\ Numbers \subseteq Nat \ {0} /\ MaxInFlight \in Nat
ASSUME TimeAssumption ==
  /\ {RETRANSMIT_TIMEOUT, cl_timeout, sv_reconnectlimit, sv_timeout, sv_zombietime,
      MaxDelay} \subseteq Nat \ {0}
  \* An answer comes before the request is repeated, and a request is forgotten
  \* by the network before the server would take it for a new one.
  /\ 2 * MaxDelay < RETRANSMIT_TIMEOUT
  /\ MaxDelay < sv_reconnectlimit /\ MaxDelay < sv_zombietime /\ MaxDelay < sv_timeout

VARIABLES client,           \* clc: state, challenge, connectTime, lastPacketTime
          challenges,       \* svs.challenges
          slot,             \* the client_t of this client's address, if any
          net,              \* the connectionless datagrams under way
          cleared           \* a zombie was cleared while a connect of its address
                            \* was under way: history
vars == <<client, challenges, slot, net, cleared>>

Indices == 0 .. MAX_CHALLENGES - 1
Unknown == 0                \* no address, no challenge
Here == 1                   \* this client's address
Elsewhere == 2              \* another one
Addresses == {Unknown, Here, Elsewhere}

NoChallenge == [adr |-> Unknown, challenge |-> 0, connected |-> FALSE, time |-> 0]
NoClient == [state |-> "free", challenge |-> 0, lastConnectTime |-> 0, lastPacketTime |-> 0]
Disconnected == [state |-> "disconnected", challenge |-> 0, connectTime |-> 0,
                 lastPacketTime |-> 0]

Init == /\ client = Disconnected
        /\ challenges = [i \in Indices |-> NoChallenge]
        /\ slot = NoClient
        /\ net = {}
        /\ cleared = FALSE

-----------------------------------------------------------------------------
\* Numbers, ages, datagrams

\* Who could still send a number.
Known == {client.challenge, slot.challenge} \cup {p.challenge : p \in net}

\* rand() gives a number that is nowhere in use.  Bound: there is one left.
InUse == Known \cup {challenges[i].challenge : i \in Indices}
               \cup {p.clientChallenge : p \in net}

Random == CHOOSE n \in Numbers \ InUse : \A m \in Numbers \ InUse : n <= m

MayDraw == Numbers \ InUse # {}

\* Mutant: one tick beyond the limit.
Older_Late(age, limit) == IF age <= limit THEN age + 1 ELSE age

Older(age, limit) == IF age < limit THEN age + 1 ELSE age

Packet(kind, challenge, clientChallenge) ==
  [kind |-> kind, challenge |-> challenge, clientChallenge |-> clientChallenge, age |-> 0]

Room(packets) == Cardinality(net \cup packets) <= MaxInFlight

Sent(packets) == IF Room(packets) THEN net \cup packets ELSE net

\* The answer to a request, whose place it takes if there is no room for both.
Answered(p, answer) == IF Room({answer}) THEN net \cup {answer} ELSE (net \ {p}) \cup {answer}

Arrived(kind) == {p \in net : p.kind = kind}

\* A tick of both clocks.  A datagram that is too old is lost, and a challenge that
\* nobody could send any more is as good as any other number.
Tick ==
  /\ net' = {[p EXCEPT !.age = @ + 1] : p \in {q \in net : q.age < MaxDelay}}
  /\ client' = CASE client.state = "disconnected" -> client
                 [] client.state = "connected" ->
                      [client EXCEPT !.lastPacketTime = Older(@, cl_timeout)]
                 [] OTHER -> [client EXCEPT !.connectTime = Older(@, RETRANSMIT_TIMEOUT)]
  /\ slot' = IF slot.state = "free" THEN slot
             ELSE [slot EXCEPT !.lastConnectTime = Older(@, sv_reconnectlimit),
                               !.lastPacketTime = Older(@, IF slot.state = "zombie"
                                                           THEN sv_zombietime ELSE sv_timeout)]
  /\ challenges' = [i \in Indices |->
                      IF challenges[i].challenge \in Known THEN challenges[i]
                      ELSE [challenges[i] EXCEPT !.challenge = 0]]
  /\ UNCHANGED cleared

-----------------------------------------------------------------------------
\* The client asks.

\* CL_Disconnect is told to the server if there is a connection.
Farewell == IF client.state = "connected" THEN {Packet("disconnect", client.challenge, 0)} ELSE {}

CL_Disconnect ==
  /\ client.state # "disconnected"
  /\ client' = Disconnected
  /\ net' = Sent(Farewell)
  /\ UNCHANGED <<challenges, slot, cleared>>

\* The user asks for a connection; an earlier one was ended first.
CL_Connect_f ==
  /\ client.state = "disconnected" /\ MayDraw
  /\ client' = [Disconnected EXCEPT !.state = "connecting", !.challenge = Random,
                                    !.connectTime = RETRANSMIT_TIMEOUT]
  /\ UNCHANGED <<challenges, slot, net, cleared>>

Asking == client.state \in {"connecting", "challenging"}

\* Mutant: only the request for a challenge is repeated.
CL_CheckForResend_Once ==
  /\ Asking
  /\ client.connectTime >= RETRANSMIT_TIMEOUT
  /\ client' = [client EXCEPT !.connectTime = 0]
  /\ client.state = "connecting" /\ net' = Sent({Packet("getchallenge", 0, client.challenge)})
  /\ UNCHANGED <<challenges, slot, cleared>>

CL_CheckForResend ==
  /\ Asking
  /\ client.connectTime >= RETRANSMIT_TIMEOUT
  /\ client' = [client EXCEPT !.connectTime = 0]
  /\ net' = Sent({IF client.state = "connecting"
                  THEN Packet("getchallenge", 0, client.challenge)
                  ELSE Packet("connect", client.challenge, 0)})
  /\ UNCHANGED <<challenges, slot, cleared>>

-----------------------------------------------------------------------------
\* The server answers.

\* How far SV_GetChallenge looks: to the end, or, if the address has challenges that
\* were not used, to the first that is not below MAX_CHALLENGES_MULTI.
Scanned(from) ==
  {i \in Indices :
     ~ \E j \in 0 .. i : /\ i >= MAX_CHALLENGES_MULTI
                         /\ ~challenges[j].connected /\ challenges[j].adr = from}

\* The first of the oldest ones.
Oldest(S) == CHOOSE i \in S : \A j \in S : \/ challenges[i].time < challenges[j].time
                                           \/ /\ challenges[i].time = challenges[j].time
                                              /\ i <= j

\* Only the order of the times matters: the used ones are numbered from 1 on.
Ranked(table) ==
  [i \in Indices |->
     [table[i] EXCEPT !.time =
        IF @ = 0 THEN 0
        ELSE Cardinality({table[j].time : j \in {k \in Indices : table[k].time # 0
                                                   /\ table[k].time <= table[i].time}})]]

\* The newest challenge; no two are given in one frame.
Given(from, number, i) ==
  Ranked([challenges EXCEPT ![i] = [adr |-> from, challenge |-> number,
                                    connected |-> FALSE, time |-> MAX_CHALLENGES + 1]])

SV_GetChallenge(p) ==
  /\ MayDraw
  /\ challenges' = Given(Here, Random, Oldest(Scanned(Here)))
  /\ net' = Answered(p, Packet("challengeResponse", Random, p.clientChallenge))
  /\ UNCHANGED <<client, slot, cleared>>

\* Somebody else asks, who perhaps has challenges in the table.
SV_GetChallenge_Elsewhere ==
  /\ \E S \in {Indices, Scanned(Elsewhere)} :
        challenges' = Given(Elsewhere, 0, Oldest(S))
  /\ UNCHANGED <<client, slot, net, cleared>>

\* Mutant: no quick reject.
TooSoon_Never == FALSE

\* The quick reject: this address has connected, or connected again, just now.
TooSoon == slot.state # "free" /\ slot.lastConnectTime < sv_reconnectlimit

Issued(number) == {i \in Indices : /\ challenges[i].adr = Here
                                   /\ challenges[i].challenge = number}

First(S) == CHOOSE i \in S : \A j \in S : i <= j

\* The challenge is used; the client_t is cleared, whatever it was, and set up.
Accepted(p) ==
  /\ ~TooSoon /\ Issued(p.challenge) # {}
  /\ challenges' = [challenges EXCEPT ![First(Issued(p.challenge))].connected = TRUE]

SV_DirectConnect(p) ==
  /\ Accepted(p)
  /\ slot' = [NoClient EXCEPT !.state = "connected", !.challenge = p.challenge]
  /\ net' = Answered(p, Packet("connectResponse", p.challenge, 0))
  /\ UNCHANGED <<client, cleared>>

\* The game refuses all its players: the cleared client_t is left behind.
SV_DirectConnect_Denied(p) ==
  /\ Accepted(p)
  /\ slot' = NoClient
  /\ UNCHANGED <<client, net, cleared>>

-----------------------------------------------------------------------------
\* The client hears.

ChallengeResponse(p) ==
  /\ client.state = "connecting" /\ p.clientChallenge = client.challenge
  /\ client' = [client EXCEPT !.state = "challenging", !.challenge = p.challenge,
                              !.connectTime = RETRANSMIT_TIMEOUT]
  /\ net' = net \ {p}
  /\ UNCHANGED <<challenges, slot, cleared>>

\* Mutant: the answer's challenge is not looked at.
ConnectResponse_Any(p) ==
  /\ client.state = "challenging"
  /\ client' = [Disconnected EXCEPT !.state = "connected", !.challenge = client.challenge]
  /\ net' = net \ {p}
  /\ UNCHANGED <<challenges, slot, cleared>>

ConnectResponse(p) ==
  /\ client.state = "challenging" /\ p.challenge = client.challenge
  /\ client' = [Disconnected EXCEPT !.state = "connected", !.challenge = p.challenge]
  /\ net' = net \ {p}
  /\ UNCHANGED <<challenges, slot, cleared>>

-----------------------------------------------------------------------------
\* The connection and its end.

SameChallenge == client.challenge = slot.challenge

\* Mutant: a zombie's clock is set too.
SV_PacketEvent_Zombie ==
  /\ client.state = "connected" /\ slot.state # "free" /\ SameChallenge
  /\ slot' = [slot EXCEPT !.lastPacketTime = 0]
  /\ UNCHANGED <<client, challenges, net, cleared>>

\* A sequenced datagram of the client; a zombie's is looked at no further.
SV_PacketEvent ==
  /\ client.state = "connected" /\ slot.state = "connected" /\ SameChallenge
  /\ slot' = [slot EXCEPT !.lastPacketTime = 0]
  /\ UNCHANGED <<client, challenges, net, cleared>>

\* One of the server: the client's clock is set before anything is checked.
CL_PacketEvent ==
  /\ client.state = "connected" /\ slot.state # "free"
  /\ client' = [client EXCEPT !.lastPacketTime = 0]
  /\ UNCHANGED <<challenges, slot, net, cleared>>

\* The first challenge of the address is removed, whether it is the one of this
\* connection or not.
Dropped == LET mine == {i \in Indices : challenges[i].adr = Here}
           IN IF mine = {} THEN challenges
              ELSE Ranked([challenges EXCEPT ![First(mine)] = NoChallenge])

SV_DropClient ==
  /\ slot.state = "connected"
  /\ slot' = [slot EXCEPT !.state = "zombie",
                          !.lastPacketTime = IF @ < sv_zombietime THEN @ ELSE sv_zombietime]
  /\ challenges' = Dropped
  /\ UNCHANGED <<client, net, cleared>>

\* The client's disconnect command arrives.
SV_Disconnect_f(p) == p.challenge = slot.challenge /\ SV_DropClient

\* The server's, which it sends to the zombie, does.
ServerDisconnect ==
  /\ client.state = "connected" /\ slot.state = "zombie" /\ SameChallenge
  /\ CL_Disconnect

SV_CheckTimeouts ==
  /\ \/ slot.state = "zombie" /\ slot.lastPacketTime >= sv_zombietime /\ UNCHANGED challenges
     \/ slot.state = "connected" /\ slot.lastPacketTime >= sv_timeout /\ challenges' = Dropped
  /\ slot' = NoClient
  /\ UNCHANGED <<client, net, cleared>>

\* A new map, when sv_maxclients was changed: a zombie's client_t is zeros, whatever
\* is left of its time.
SV_ChangeMaxClients ==
  /\ slot.state = "zombie"
  /\ slot' = NoClient
  /\ cleared' = (cleared \/ Arrived("connect") # {})
  /\ UNCHANGED <<client, challenges, net>>

CL_CheckTimeout ==
  /\ client.state = "connected" /\ client.lastPacketTime >= cl_timeout
  /\ CL_Disconnect

\* The server stops, or crashes, and is started again.
SV_Restart ==
  /\ challenges' = [i \in Indices |-> NoChallenge]
  /\ slot' = NoClient
  /\ UNCHANGED <<client, net, cleared>>

Next ==
  \/ Tick
  \/ CL_Connect_f \/ CL_Disconnect \/ CL_CheckForResend
  \/ \E p \in Arrived("getchallenge") : SV_GetChallenge(p)
  \/ SV_GetChallenge_Elsewhere
  \/ \E p \in Arrived("connect") : SV_DirectConnect(p) \/ SV_DirectConnect_Denied(p)
  \/ \E p \in Arrived("challengeResponse") : ChallengeResponse(p)
  \/ \E p \in Arrived("connectResponse") : ConnectResponse(p)
  \/ SV_PacketEvent \/ CL_PacketEvent
  \/ SV_DropClient \/ ServerDisconnect
  \/ \E p \in Arrived("disconnect") : SV_Disconnect_f(p)
  \/ SV_CheckTimeouts \/ SV_ChangeMaxClients \/ CL_CheckTimeout
  \/ SV_Restart

\* Clocks advance, frames are run, and of the datagrams of one kind that are sent again
\* and again, and that the receiver would take, one arrives.
Fairness ==
  /\ WF_vars(Tick) /\ WF_vars(CL_CheckForResend) /\ WF_vars(SV_CheckTimeouts)
  /\ SF_vars(\E p \in Arrived("getchallenge") : SV_GetChallenge(p))
  /\ SF_vars(\E p \in Arrived("challengeResponse") : ChallengeResponse(p))
  /\ SF_vars(\E p \in Arrived("connect") : SV_DirectConnect(p))
  /\ SF_vars(\E p \in Arrived("connectResponse") : ConnectResponse(p))

Spec == Init /\ [][Next]_vars /\ Fairness

-----------------------------------------------------------------------------
\* Properties

Challenge == Numbers \cup {0}

\* Ages stay below their limits.
TypeOK ==
  /\ client \in [state : {"disconnected", "connecting", "challenging", "connected"},
                 challenge : Challenge, connectTime : 0 .. RETRANSMIT_TIMEOUT,
                 lastPacketTime : 0 .. cl_timeout]
  /\ challenges \in [Indices -> [adr : Addresses, challenge : Challenge,
                                 connected : BOOLEAN, time : 0 .. MAX_CHALLENGES]]
  /\ slot \in [state : {"free", "connected", "zombie"}, challenge : Challenge,
               lastConnectTime : 0 .. sv_reconnectlimit,
               lastPacketTime : 0 .. sv_timeout + sv_zombietime]
  /\ \A p \in net : p.challenge \in Challenge /\ p.clientChallenge \in Challenge
                      /\ p.age \in 0 .. MaxDelay
  /\ cleared \in BOOLEAN

\* The two ends of a connection agree on its challenge, from which both compute the
\* checksums: an answer to an earlier request of the client never makes it connected
\* to a client_t that was set up for another one, nor does a late request of an
\* earlier connection take over the client_t of this one.  Except after cleared: a
\* zombie that SV_ChangeMaxClients clears no longer rejects the connects that are still
\* under way to it, and one of them may be of an earlier challenge of the address.
EndsAgree == ~cleared /\ client.state = "connected" /\ slot.state = "connected" => SameChallenge

\* The client_t of a client that has its connection is not set up once more by a
\* repeated or late connect: its sequence numbers, and the commands that were
\* executed, would begin anew on this side only.
OneSetup ==
  [][client.state = "connected" /\ slot.state = "connected" /\ SameChallenge
       => ~ \E p \in Arrived("connect") : SV_DirectConnect(p)]_vars

\* The server has forgotten the challenge that the client goes on sending.
Forgotten == client.state = "challenging" /\ Issued(client.challenge) = {}

\* A client that asks is connected in the end, or gives up, or its challenge was
\* recycled for another address, or removed: it does not ask for a new one.
GetsIn == Asking ~> ~Asking \/ Forgotten

\* A client_t that nobody uses is freed, or set up anew: a zombie's time does not begin
\* again with the datagrams of a client that was not told, and that of an earlier
\* connection times out.
Unused == \/ slot.state = "zombie"
          \/ slot.state = "connected" /\ ~SameChallenge
JustSetUp == slot.state = "connected" /\ slot.lastConnectTime = 0
SlotFreed == Unused ~> ~Unused \/ JustSetUp
=============================================================================
