----------------------------- MODULE PlayerSlots -----------------------------
(***************************************************************************)
(* Who is on the server.  A client_t is a connection, a player_t a player; *)
(* a connection has up to MAX_SPLITVIEW local players, each of which comes *)
(* and goes by itself, and each structure has a pointer to the other.      *)
(* SV_DirectConnect, SV_AddPlayer, SV_DropPlayer and SV_DropClient         *)
(* (server/sv_client.c), SV_CheckTimeouts (sv_main.c), the bots            *)
(* (sv_bot.c), a new map and another sv_maxclients (sv_init.c).            *)
(*                                                                         *)
(* The state of a client is "connected" from CS_CONNECTED to CS_ACTIVE.    *)
(* Challenges are left out, as are a client in the server's own process    *)
(* and reserved slots; an address stands for an address with its port or   *)
(* qport.  The game's answers are arbitrary, but it frees a bot through    *)
(* SV_DropPlayer only, never by its call G_BOT_FREE_CLIENT, which leaves   *)
(* the bot's player in use without a client.                               *)
(***************************************************************************)
EXTENDS Integers, FiniteSetsExt

CONSTANTS Addresses,        \* where clients connect from
          NA_BOT,           \* the address of a bot
          MAX_SPLITVIEW,    \* local players of a client
          Sizes             \* bounds: the values of sv_maxclients

ASSUME SlotsAssumption ==
  /\ NA_BOT \notin Addresses
  /\ MAX_SPLITVIEW \in Nat \ {0}
  /\ Sizes # {} /\ Sizes \subseteq Nat \ {0}

VARIABLE svs

None == -1      \* NULL
Locals == 0 .. MAX_SPLITVIEW - 1

\* Memory that was just allocated or cleared.
FreeClient == [state |-> "free", remoteAddress |-> None,
               localPlayers |-> [j \in Locals |-> None]]
FreePlayer == [inUse |-> FALSE, client |-> None]

\* playing are the players the game was told of and not that they have left (a new
\* map's game counts as the same), and spurious says that it was told so of another
\* one.  History: replaced says that a
\* connected client's client_t was cleared for the same address, dangling that a
\* pointer to a player that has left was used.  undefined: a NULL pointer was followed
\* or an array left.
SlotsInit ==
  \E n \in Sizes :
    svs = [clients |-> [c \in 0 .. n - 1 |-> FreeClient],
           players |-> [p \in 0 .. n - 1 |-> FreePlayer],
           playing |-> {}, spurious |-> FALSE,
           replaced |-> FALSE, dangling |-> FALSE, undefined |-> FALSE]

Clients(st) == DOMAIN st.clients
Players(st) == DOMAIN st.players
sv_maxclients(st) == Cardinality(Clients(st))
Connected(st) == {c \in Clients(st) : st.clients[c].state = "connected"}
Bots(st) == {c \in Connected(st) : st.clients[c].remoteAddress = NA_BOT}
InUse(st) == {p \in Players(st) : st.players[p].inUse}
Unused(st) == Players(st) \ InUse(st)
FreeSlots(st) == {c \in Clients(st) : st.clients[c].state = "free"}

\* The local players of a client, NULL pointers left out.
Held(st, c) == {j \in Locals : st.clients[c].localPlayers[j] # None}

PlayersOf(st, c) == {st.clients[c].localPlayers[j] : j \in Held(st, c)}

\* A loop over an array of n elements: after[i] is the state when i of them are done.
Loop(Op(_, _), st, n) ==
  LET after[i \in 0 .. n] == IF i = 0 THEN st ELSE Op(after[i - 1], i - 1)
  IN  after[n]

-----------------------------------------------------------------------------
\* Mutant: the local player may be there already.
SV_AddPlayer_Unchecked(st, c, j, denied) ==
  IF Unused(st) = {} THEN st
  ELSE LET p == Min(Unused(st))
       IN  IF denied THEN [st EXCEPT !.players[p] = [inUse |-> FALSE, client |-> c]]
           ELSE [st EXCEPT !.players[p] = [inUse |-> TRUE, client |-> c],
                           !.clients[c].localPlayers[j] = p,
                           !.playing = @ \cup {p}]

\* SV_AddPlayer: a player slot for one more local player, if there is one and the
\* game has nothing against it.
SV_AddPlayer(st, c, j, denied) ==
  IF j \in Held(st, c) \/ Unused(st) = {} THEN st
  ELSE LET p == Min(Unused(st))
       IN  IF denied THEN [st EXCEPT !.players[p] = [inUse |-> FALSE, client |-> c]]
           ELSE [st EXCEPT !.players[p] = [inUse |-> TRUE, client |-> c],
                           !.clients[c].localPlayers[j] = p,
                           !.playing = @ \cup {p}]

SV_FreeClient(st, c) == [st EXCEPT !.clients[c].state = "free"]

SV_BotFreeClient(st, p) ==
  LET c == st.players[p].client
  IN  [SV_FreeClient([st EXCEPT !.clients[c].localPlayers[0] = None], c)
         EXCEPT !.players[p].client = None]

\* Mutant: a player is dropped once more.
AlreadyDropped_Never(st, c) == FALSE

AlreadyDropped(st, c) == st.clients[c].state = "zombie"

\* Mutant: the player stays listed.
Unlink_Never(st, c, p) == st

\* An extra local player is taken from its client's list; the last one stays in the
\* zombie's.
Unlink(st, c, p) ==
  IF Cardinality(Held(st, c)) <= 1 THEN st
  ELSE [st EXCEPT !.clients[c].localPlayers =
                    [j \in Locals |-> IF @[j] = p THEN None ELSE @[j]]]

\* agreed: the player may leave, because it is forced to or the game lets it; the
\* last player of a client always may.
SV_DropPlayer(st, p, agreed) ==
  LET c    == st.players[p].client
      last == Cardinality(Held(st, c)) = 1
      told == [st EXCEPT !.playing = @ \ {p}, !.spurious = @ \/ p \notin st.playing]
      gone == [Unlink(told, c, p) EXCEPT !.players[p].inUse = FALSE]
  IN  IF c = None THEN [st EXCEPT !.undefined = TRUE]
      ELSE IF AlreadyDropped(st, c) \/ (~agreed /\ ~last) THEN st
      ELSE IF st.clients[c].remoteAddress = NA_BOT THEN SV_BotFreeClient(gone, p)
      ELSE IF last THEN [gone EXCEPT !.clients[c].state = "zombie"]
      ELSE gone

SV_DropClient(st, c) ==
  Loop(LAMBDA s, j : IF j \notin Held(s, c) THEN s
                     ELSE SV_DropPlayer(s, s.clients[c].localPlayers[j], TRUE),
       st, MAX_SPLITVIEW)

-----------------------------------------------------------------------------
\* The slots that an address has already, zombies' included.
SlotsOf(st, from) == {c \in Clients(st) \ FreeSlots(st) : st.clients[c].remoteAddress = from}

\* The local players in wanted come, of whom the game rejects those in denied.
AddPlayers(st, c, wanted, denied) ==
  Loop(LAMBDA s, j : IF j \notin wanted THEN s ELSE SV_AddPlayer(s, c, j, j \in denied),
       st, MAX_SPLITVIEW)

SV_DirectConnect(from) ==
  LET known == SlotsOf(svs, from)
      slots == IF known # {} THEN known ELSE FreeSlots(svs)
      c     == Min(slots)
      fresh == [svs EXCEPT !.clients[c] = [FreeClient EXCEPT !.remoteAddress = from],
                           !.replaced = @ \/ c \in Connected(svs)]
  IN  /\ slots # {}
      /\ \E wanted \in SUBSET Locals \ {{}} : \E denied \in SUBSET wanted :
           LET added == AddPlayers(fresh, c, wanted, denied)
           IN  svs' = IF Held(added, c) = {} THEN added
                      ELSE [added EXCEPT !.clients[c].state = "connected"]

\* SV_DropIn1_f to SV_DropIn4_f, the client's commands "dropin".
SV_DropIn_f(c, j) ==
  \E denied \in BOOLEAN : svs' = SV_AddPlayer(svs, c, j, denied)

\* SV_DropOut_f: the last player has to disconnect.
SV_DropOut_f(c, j) ==
  /\ Cardinality(Held(svs, c)) # 1
  /\ j \in Held(svs, c)
  /\ \E agreed \in BOOLEAN :
       svs' = SV_DropPlayer(svs, svs.clients[c].localPlayers[j], agreed)

\* SV_Disconnect_f, and whatever else drops a client as a whole.
SV_Disconnect_f(c) == svs' = SV_DropClient(svs, c)

\* SV_Kick_f, or the game drops a player.
SV_Kick_f(p) == svs' = SV_DropPlayer(svs, p, TRUE)

\* A zombie's local player may be another client's by now, and it is that client's
\* state that SV_DropPlayer looks at.
SV_KickAll_f ==
  svs' = Loop(LAMBDA s, c :
                IF s.clients[c].state = "free" THEN s
                ELSE [SV_DropClient(s, c) EXCEPT
                        !.dangling = @ \/ \E p \in PlayersOf(s, c) : s.players[p].client # c],
              svs, sv_maxclients(svs))

\* A zombie's time is over, or nothing was heard of a client for long.  Whoever else
\* is due in the same frame is so in the next step.
SV_CheckTimeouts(c) ==
  \/ /\ svs.clients[c].state = "zombie"
     /\ svs' = SV_FreeClient(svs, c)
  \/ /\ svs.clients[c].state = "connected"
     /\ svs' = SV_FreeClient(SV_DropClient(svs, c), c)

\* Nothing of the slot's last client is cleared.
SV_BotAllocateClient ==
  /\ FreeSlots(svs) # {} /\ Unused(svs) # {}
  /\ LET c == Min(FreeSlots(svs))
         p == Min(Unused(svs))
     IN  svs' = [svs EXCEPT !.players[p] = [@ EXCEPT !.inUse = TRUE, !.client = c],
                            !.clients[c] = [@ EXCEPT !.state = "connected",
                                                     !.remoteAddress = NA_BOT,
                                                     !.localPlayers[0] = p],
                            !.playing = @ \cup {p},
                            !.dangling = @ \/ Held(svs, c) \ {0} # {}]

\* Mutant: zombies are copied too.
Copied_Zombies(st, c) == c \in Clients(st) /\ st.clients[c].state # "free"

Copied(st, c) == c \in Connected(st)

\* SV_ChangeMaxClients: another size, at least count; only what connected clients
\* hold is copied.
Resized(st, size) ==
  LET count   == 1 + Max({0} \cup Connected(st) \cup InUse(st))
      n       == Max({size, count})
      Holders(p) == {c \in Connected(st) : p \in PlayersOf(st, c)}
  IN  IF n = sv_maxclients(st) THEN st
      ELSE IF \E c \in Connected(st) : \E p \in PlayersOf(st, c) : p >= count
      THEN [st EXCEPT !.undefined = TRUE]
      ELSE [st EXCEPT
              !.clients = [c \in 0 .. n - 1 |->
                             IF Copied(st, c) THEN st.clients[c] ELSE FreeClient],
              !.players = [p \in 0 .. n - 1 |->
                             IF Holders(p) = {} THEN FreePlayer
                             ELSE [st.players[p] EXCEPT !.client = Max(Holders(p))]]]

\* A client's players connect to the game again, which refuses those in denied.
Again(st, c, denied) ==
  IF c \notin Connected(st) THEN st
  ELSE Loop(LAMBDA s, j : IF j \notin Held(s, c) THEN s
                          ELSE LET p == s.clients[c].localPlayers[j]
                               IN  IF p \in denied THEN SV_DropPlayer(s, p, TRUE) ELSE s,
            st, MAX_SPLITVIEW)

\* All clients do so but the bots, if those have to go.
Reconnect(st, killBots, denied) ==
  Loop(LAMBDA s, c : IF killBots /\ c \in Bots(s) THEN SV_DropClient(s, c)
                     ELSE Again(s, c, denied),
       st, sv_maxclients(st))

\* A new map or a map_restart.  A bound: the game refuses one player at a time.
SV_SpawnServer ==
  \E size \in Sizes : \E killBots \in BOOLEAN :
  \E denied \in {{}} \cup {{p} : p \in svs.playing} :
    svs' = Reconnect(Resized(svs, size), killBots, denied)

-----------------------------------------------------------------------------
Arrive == (\E from \in Addresses : SV_DirectConnect(from)) \/ SV_BotAllocateClient

ClientCommand(c) ==
  \E j \in Locals : SV_DropIn_f(c, j) \/ SV_DropOut_f(c, j)

\* What happens to client c alone.
Single(c) ==
  \/ c \in Connected(svs) \ Bots(svs) /\ ClientCommand(c)
  \/ c \in Connected(svs) /\ SV_Disconnect_f(c)
  \/ \E p \in InUse(svs) : svs.players[p].client = c /\ SV_Kick_f(p)
  \/ SV_CheckTimeouts(c)

SlotsNext ==
  /\ ~svs.undefined
  /\ \/ Arrive
     \/ \E c \in Clients(svs) : Single(c)
     \/ SV_KickAll_f
     \/ SV_SpawnServer

SlotsSpec == SlotsInit /\ [][SlotsNext]_svs

-----------------------------------------------------------------------------
SlotsTypeOK ==
  /\ Clients(svs) = Players(svs)
  /\ \A c \in Clients(svs) :
       /\ svs.clients[c].state \in {"free", "zombie", "connected"}
       /\ svs.clients[c].remoteAddress \in Addresses \cup {NA_BOT, None}
       /\ PlayersOf(svs, c) \subseteq Players(svs)
  /\ \A p \in Players(svs) : svs.players[p].client \in Clients(svs) \cup {None}

\* What breaks the rest: a client that reconnects before it was dropped, whose players
\* are forgotten; a bot in the slot of a client whose last player was not its first,
\* and a "kickall" with zombies, which go on to use pointers to players that have left.
Orderly == ~svs.replaced /\ ~svs.dangling

\* "Player not found in client's localPlayers list" is a fatal error
\* (SV_LocalPlayerNum): a player in use is in the list of its client.
PlayerFound ==
  \A p \in InUse(svs) : p \in PlayersOf(svs, svs.players[p].client)

\* The two structures agree: the players in use are those of connected clients, each
\* of one client, under one of its numbers, and points to it; a connected client has
\* a player, and an address no more than one slot.
Owner(p) == {c \in Connected(svs) : p \in PlayersOf(svs, c)}

PlayersOwned ==
  Orderly =>
    /\ \A p \in Players(svs) :
         /\ Owner(p) = IF svs.players[p].inUse THEN {svs.players[p].client} ELSE {}
         /\ \A c \in Owner(p) :
              Cardinality({j \in Locals : svs.clients[c].localPlayers[j] = p}) = 1
    /\ \A c \in Connected(svs) : Held(svs, c) # {}
    /\ \A c, d \in Clients(svs) \ FreeSlots(svs) :
         /\ svs.clients[c].remoteAddress = svs.clients[d].remoteAddress
         /\ svs.clients[c].remoteAddress # NA_BOT
         => c = d

\* The game is told once that a player leaves, and never follows a player that is
\* not there.
GameToldOnce == Orderly => ~svs.spurious /\ ~svs.undefined /\ svs.playing = InUse(svs)

\* What happens to one client, and who arrives, leaves the others and their players
\* alone.
Stays(d) ==
  /\ svs'.clients[d] = svs.clients[d]
  /\ \A p \in PlayersOf(svs, d) : svs'.players[p].inUse

OthersStay ==
  [][Orderly /\ Orderly' =>
       /\ \A c \in Clients(svs) : Single(c) => \A d \in Connected(svs) \ {c} : Stays(d)
       /\ Arrive => \A d \in Connected(svs) : Stays(d)]_svs
=============================================================================
