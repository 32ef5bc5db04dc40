# Formal models of Spearmint's client/server protocol

Spearmint is an ioquake3-derived engine. The part of it that is hardest to get
right and hardest to test is the protocol between server and client: an
unreliable datagram channel, and on top of it reliable commands, delta
compressed snapshots, gamestates and file downloads, each with its own rings,
acknowledgements and retries, all of them in 32-bit C with wrapping indices.
This directory models that protocol in TLA+, checks it with TLC on small
instances and proves with TLAPS, for every instance, the safety of all of it: the
channel, the two command protocols, snapshots, downloads, gamestates, connections
and the slots of clients and players. Two smaller parts with state that outlives its
users are modelled and proved too: the zone of memory, and the queue of voice packets
in a client's slot.

All paths below are relative to `src/code`.

## 1. The system

| Component | Files | State | Operations |
|---|---|---|---|
| Net channel | `qcommon/net_chan.c`, `server/sv_net_chan.c`, `client/cl_net_chan.c` | `netchan_t`: sequence numbers, the message being fragmented, the reassembly buffer; per client a queue of whole messages | transmit, next fragment, next in queue, process |
| Server commands | `server/sv_main.c`, `client/cl_parse.c`, `client/cl_cgame.c` | ring of `MAX_RELIABLE_COMMANDS` (256) strings on both sides, `reliableSequence`, `reliableAcknowledge`, `lastExecutedServerCommand` | add, repeat in every message, acknowledge, execute, drop on overflow |
| Client commands | `client/cl_main.c`, `client/cl_input.c`, `server/sv_client.c` | the same ring in the other direction, `lastClientCommand` | add, repeat, execute once, disconnect |
| Snapshots | `server/sv_snapshot.c`, `client/cl_parse.c`, `client/cl_cgame.c` | `frames[PACKET_BACKUP]` and one ring of entities for all clients on the server, `snapshots[PACKET_BACKUP]` and a ring of entities on the client, baselines | build, write as delta, parse, acknowledge, hand to the game |
| Downloads | `server/sv_client.c`, `client/cl_parse.c`, `client/cl_main.c` | window of `MAX_DOWNLOAD_WINDOW` (48) blocks, block counters, temporary file | write block, retransmit, next, begin, stop, done |
| Gamestate | `server/sv_init.c`, `server/sv_client.c`, `server/sv_ccmds.c`, `client/cl_parse.c` | `serverId`, client states `CS_CONNECTED`, `CS_PRIMED`, `CS_ACTIVE`, `csUpdated`, `inWorld`, configstrings | send gamestate, resend, enter world, set configstring, new map, map restart |
| Connecting | `server/sv_client.c`, `server/sv_main.c`, `client/cl_main.c` | table of `MAX_CHALLENGES` (2048) challenges; the client's state, challenge and times | ask, give a challenge, connect, answer, repeat, drop, time out |
| Client and player slots | `server/sv_client.c`, `server/sv_main.c`, `server/sv_bot.c`, `server/sv_ccmds.c`, `server/sv_init.c` | `client_t` and `player_t` arrays that point into each other, zombies | connect, reconnect, add or drop a local player, bots, kick, resize |
| Voice queue | `server/sv_client.c`, `server/sv_snapshot.c` | ring of 64 packets per client | queue, write, free |
| Zone | `qcommon/common.c` | list of blocks, rover, count | allocate, free, free by tag, set up |
| Frame, rate control | `server/sv_main.c` | time residual, `svs.time`, rates, leaky buckets | `SV_Frame`, `SV_RateMsec`, `SVC_RateLimit` |
| Client time | `client/cl_cgame.c` | `serverTimeDelta`, ring of user commands | first snapshot, adjust |
| Command buffer, events | `qcommon/cmd.c`, `qcommon/common.c` | `cmd_text`, wait counter, event queues | add, insert, execute, push, get |
| Hunk | `qcommon/common.c` | marks of both ends, temporary memory | allocate, mark, clear |
| Bit stream, VM, collision, files, renderers, sound, platform, bots | the rest of `qcommon`, `botlib`, `renderer*`, `sdl`, `sys` | | not modelled, see section 8 |
| Game and cgame | not in this repository (headers only) | | external: what they do is an action of the models |

The components interact through messages. One server message
(`SV_SendClientSnapshot`) carries the acknowledgement of client commands, all
pending server commands, perhaps the baselines, and a snapshot; one client
packet (`CL_WritePacket`) carries the serverId, the number of the newest
message, the newest command, the pending client commands and moves. A
gamestate or a download block is a message of its own. Every message passes
through the net channel; client commands drive downloads (`nextdl`); server
commands carry configstring changes.

What is hard about it: nothing is delivered for certain; both sides keep short
histories in rings and index them with numbers the other side supplies; state
written when a message is *built* is used when it is *acknowledged*, and the
message may have waited in a queue in between; the client's connection state is
inferred by the server from what the client's packets claim; several rings are
shared between clients, and slots outlive their occupants; requests are repeated
on timers, so that late copies meet a connection that has moved on.

What makes each part correct, in a sentence: the channel hands up what was sent,
in order (`OrderedMessages`); commands are executed once, in order, and before
the snapshot or move that follows them; the game is shown the world the server
built the snapshot from; the downloaded file is the server's; a client gets into
the world of the current map with its configstrings; both arrays of slots agree
with each other and with what the game was told; both ends of a connection agree
on its challenge and an unused slot is freed; voice is heard in order and freed
once; pieces of memory do not overlap.

## 2. Modules

| Module | Models |
|---|---|
| `OrderedMessages` | abstract: what a net channel promises to the code above it |
| `Netchan` | one direction of a net channel: `Netchan_Transmit`, `Netchan_TransmitNextFragment`, `Netchan_Process` |
| `ServerNetchan` | `Netchan` with the server's queue; implements `OrderedMessages` |
| `ServerCommands` | reliable commands, server to client |
| `ClientCommands` | reliable commands, client to server |
| `SnapshotDelta` | snapshots |
| `Download` | downloads |
| `Gamestate` | gamestates, configstrings, map changes |
| `PlayerSlots` | clients, their local players, bots, zombies, the size of the server |
| `Connection` | challenges, requests and their repetition, timeouts, a restart of the server |
| `VoipQueue` | the voice packets that wait in a client's slot |
| `Allocator` | abstract: what a caller of `Z_Malloc` relies on |
| `Zone` | `Z_TagMalloc`, `Z_Free`, `Z_FreeTags`, `Z_VM_InitHeap`; implements `Allocator` |
| `ProofLemmas` | lemmas about rings, sequences, folds, loops and numbers that several proofs need |
| `ServerCommandsProofs`, `SnapshotDeltaProofs`, `DownloadProofs`, `ConnectionProofs` | the theorems about those modules, see section 6 |
| `NetchanGamestateProofs` | the theorems about `ServerNetchan`, and about `Gamestate` |
| `ClientCommandsSlotsProofs` | the theorems about `ClientCommands`, and about `PlayerSlots` |
| `VoipQueueZoneProofs` | the theorems about `VoipQueue`, and about `Zone` |
| `MC_*` | constants for TLC |

The last three proof modules extend two components each. These share no variable
and no operator (`Gamestate`, `PlayerSlots` and `Zone` name their initial states,
actions and types after themselves, `GamestateSpec`, `SlotsSpec`, `ZoneTypeOK`), and
the two parts of such a module do not use each other.

The layers are composed by abstraction. `ServerNetchan` is shown, by TLC and by
proof, to implement `OrderedMessages`: a message is delivered whole, under its
number, at most once, never after a newer one, or not at all. The other modules
assume exactly that of their channels: messages under way are a sequence, one of
them arrives and those before it are lost (or they are lost one by one by
`Lose`). `Gamestate` uses what `ServerCommands` and `ClientCommands` establish
(a message brings every command added before it was built; commands are executed
once and in order), and so does `Download`. `PlayerSlots`, `Connection` and
`VoipQueue` look at the same `client_t` from three sides: whose players it has,
when it is set up and freed, and what waits in it.

**Netchan, ServerNetchan.** A datagram is a record of its header and bytes;
`net` is the set of datagrams ever sent, none of which is removed, so that any
of them may arrive never, once or often and in any order. `Stray` holds
datagrams of earlier connections from the same address. `SendFragment` and
`Netchan_Transmit` are the sender, `Netchan_Process` the receiver (checksum,
sequence number, reassembly). The qport, the legacy protocol and the statistics
(`dropped`, `lastSentTime`) are left out.

**ServerCommands.** `client` is the part of `client_t` that the commands use.
`SV_AddServerCommand` is a function from clients to clients, as is
`SV_DropClient`, because they call each other: a command that overflows drops
the client, which adds two commands. The variables declared as history record
what was issued and executed and whether an acknowledgement was illegible.

**ClientCommands.** The mirror image, with the difference that the client
refuses to add a command when its ring is full and leaves. A packet is its
commands and the number of the newest command its move follows. The flood
protection is on for some packets and off for others (it depends on the state of
the client and on a cvar): a command that comes within a second of another is
numbered and kept from the game. `SecondPasses` is the clock.

**SnapshotDelta.** The state of an entity is one value. A delta holds the states
it was computed from and for; decoding it from any other state gives `Garbage`.
`snapshotEntities`, `frames`, `nextSnapshotEntities` are the server's;
`snapshots`, `parseEntities`, `parseEntitiesNum` the client's. Other clients
exist only as what they push through the shared ring (`OtherClient`).

**Download.** Block `i` of file `f` is the pair `<<f, i>>`. The client's
commands arrive in order; blocks may be lost. The retransmission timer may
expire whenever the window has been sent.

**Gamestate.** Two configstrings: `cs`, which the game changes, and
`systeminfo`, which holds the serverId. The comparison of `messageAcknowledge`
with `gamestateMessageNum` is kept as one bit per message, `newer`. A client may
lack one file from some serverId on: it then downloads it in one block instead of
loading its game, answers `nextdl` and `donedl`, and waits for another gamestate.
While it downloads, or when its last command was a `nextdl`, the server executes
its packets whatever their serverId (`Fetching`).

**PlayerSlots.** `svs` has the two arrays with their pointers to each other, as
indices. Operations that call each other (`SV_DropClient`, `SV_DropPlayer`,
`SV_BotFreeClient`) are functions on it. `localPlayers` keeps its stale pointers
where the code keeps them: in zombies, and in free slots until the next
`SV_DirectConnect`. The states from `CS_CONNECTED` to `CS_ACTIVE` are one. What
the game answers (may this player connect, may it drop out) is arbitrary, and a
timeout may happen at any time. The game is taken to free a bot through
`SV_DropPlayer` only: its trap `G_BOT_FREE_CLIENT` (`sv_game.c:512`) by itself would
free the `client_t` and leave the player in use, with no client, which breaks
`PlayersOwned` and `GameToldOnce`; that is the game's doing, and the game is not
here. An address stands for a base address with its port or qport: two clients of
one host that share only one of the two are not distinguished. `playing` and `spurious` record what the game
was told; `replaced`, `dangling` and `undefined` what should not happen.

**Connection.** One client, the server's table of challenges, and the
`client_t` of the client's address. Time is a number of ticks; of each time kept
in the code the model keeps the age, up to the limit it is compared with. The
connectionless datagrams under way are a set with ages: each may arrive never,
once or often, in any order, until it is older than `MaxDelay`. Sequenced
datagrams are not kept: `Netchan` accepts one only from the other side of the
same connection, so all that matters is that one arrives. Another address asks
for challenges at any time and recycles this client's. `rand()` gives a number
that is not in use. The server may stop and start again at any time, and a new map
with another `sv_maxclients` clears a zombie before its time is over
(`SV_ChangeMaxClients`); `cleared` remembers that a connect was under way then.

**VoipQueue.** A packet is the number under which it was queued. `allocated` is
what is in memory; `heard` and `forgotten` are history, the latter the set of packets
that were in a `client_t` when it was cleared or freed and that nothing freed. The
slot's occupant, people or a bot, changes by `SV_DirectConnect`,
`SV_BotAllocateClient`, `SV_DropClient`, `SV_FreeClient` after a zombie's time or for a
bot, and by another `sv_maxclients`, which keeps the `client_t` of who is connected and
zeroes the others (`SV_ChangeMaxClients`).

**Zone, Allocator.** The zone is a function from addresses to headers.
`Z_TagMalloc`'s scan and `Z_FreeTags`' walk are recursive functions that follow
the rover exactly, because where it was left decides what they look at. The scan is a
function of two blocks, `base` and `rover`, of the code; the walk of the number of its
turns, of which it has at most two for each word.
`Allocator` has only the set of pieces in use. A piece is never moved, and a
request is refused (`ERR_FATAL`) only where `RefusedOnlyIfFull` says.

## 3. Runs

| Run | Question | Bounds |
|---|---|---|
| `server_netchan` | Is what is handed up what was sent, in order? Does the queue drain? Does the channel implement `OrderedMessages`? | 4 messages of 1, 2 and 5 bytes, fragments of 2; two stray fragments |
| `server_commands` | Is every command executed once, in order, and before a later snapshot? Is a dropped client told? | rings of 2, 4 commands, 2 messages under way each way |
| `server_commands_guarantee` | violated: finding 1 | the same |
| `client_commands` | Is every command executed once, in order and in the end, and before a move that follows it? | rings of 2, 4 commands, 2 under way |
| `snapshot_delta` | Does the client's game see what the server's world showed? Does the client hold every delta's base? Does the index of the server's ring never wrap? | 2 entities, 6 messages, `PACKET_BACKUP` 5, rings of 4 (server) and 3 (client) entities, index limit 15 |
| `download` | Is the file written what the server read, and does the client acknowledge what the server waits for? Do downloads end? | files of 6, 2, 1 and 1 blocks, window 3, numbers modulo 4, 4 blocks under way |
| `gamestate` | Does a client get into the world, and keep up with the configstrings, with a download on the way? | 3 serverIds, one of them perhaps a restart, a file missing from the second on, one change of `cs`, 2 messages under way to the client and 1 to the server |
| `gamestate_download` | violated: finding 2 | one map, a file missing |
| `player_slots` | Do the two arrays agree? Does an address have one slot? Is the game told once of every departure? Does one client's leaving spare the others? | 2 addresses, any number of bots, 2 local players, 2 or 3 slots; one player at a time refused by a new map |
| `connection` | Do both ends agree? Does a late connect never reset a connection? Does a client that asks get in? Is an unused slot freed? | a table of 2 challenges, 3 numbers, 2 datagrams under way, times of 1 to 3 ticks |
| `voip` | Is what is sent this occupant's, in order, and freed once? | ring of 3, 5 packets |
| `zone` | Is the list of blocks whole and the count right? Is memory refused only when there is none? Does the zone implement `Allocator`? | 12 words, requests of 1, 2 and 4, two tags |

Why the bounds are enough to be interesting: every ring is small enough to be overrun
several times within a behaviour, and the number of commands or messages exceeds the
ring by the margin the code keeps (`PACKET_BACKUP - 3`, `MAX_RELIABLE_COMMANDS + 1`).
The three message lengths of `server_netchan` are the three cases of `Netchan_Transmit`:
unfragmented, a multiple of the fragment size, and neither. `WRAP` stands for
`0x7FFFFFFE` and `BLOCK_WRAP` for 2^16; both are small enough to be crossed.
`snapshot_delta` starts with `nextSnapshotEntities` at 9, as if other clients had been
playing; another client's snapshots may begin only at the places of the ring in
`OthersAt`, which are where the client's own frames come to lie and where the index has
to be lowered. `player_slots` has fewer slots than there may be players, so that every
slot is reused; its addresses are symmetric, and a state that is not `Orderly` (section
5) is not extended. The last two files of `download` fit into the window together with
their ends, the first does not. `connection` has the order of the real times: an answer
comes before its request is repeated, and datagrams are gone before the reconnect limit,
the zombie's time or a timeout is over. Its table of two challenges is recycled by two
requests from elsewhere, and by one of the client's own when its first was not used
(`MAX_CHALLENGES_MULTI` is 1). `zone` has room for up to six pieces, and for a rest that
is too small to be split off. `voip` queues enough packets for the ring to turn and its
index to stay behind in a slot that a bot takes over; a zombie is cleared with packets
in its queue.

Deadlock is not checked: most models are bounded by their number of messages or
commands, a client may leave for good, `PlayerSlots` stops when something
undefined was done, and `Zone` when memory was refused (`ERR_FATAL`).

Every property of a passing run has a mutant: a definition named after the one
it replaces, with a suffix that says what the slip is (`Newer_OrEqual`,
`OutOfDate_NoMargin`, ...). TLC finds the property violated with it.

## 4. Fairness

* `ServerNetchan`: `SV_SendQueuedMessages` calls `SV_Netchan_TransmitNextFragment`
  for every client with something unsent in every turn of the main loop. Nothing
  is assumed of the network.
* `ServerCommands`: `SV_Frame` sends to every client, zombies included; the
  client draws frame after frame. `DropIsTold` needs a message to get through
  before `SV_CheckTimeouts` frees the zombie (`sv_zombietime`), which is not
  modelled.
* `ClientCommands`: both sides send again and again and some message gets
  through (weak fairness on parsing whichever arrives).
* `Download`, `Gamestate`: of the messages of one kind that are sent again and
  again, one arrives (strong fairness on receiving that kind). This is the
  weakest assumption under which a lost gamestate or block can be made good.
* `Connection`: the clocks advance, `CL_CheckForResend` and `SV_CheckTimeouts`
  run in every frame (weak fairness); of the requests, and of the answers, of one
  kind that the receiver would take and that are sent again and again, one
  arrives (strong fairness). Nothing is assumed of the user, of other addresses
  and of the server's end.
* `Zone` and `VoipQueue` state safety only: neither does anything by itself.

## 5. Findings

A property that a comment or an assertion of the code states and that the code
does not have. Two have runs of their own, which find the violation;
PROJECT.json quotes both sides.

1. `Guarantee`: an acknowledgement exactly `MAX_RELIABLE_COMMANDS` behind is
   treated as illegible and pending commands are forgotten (`sv_client.c:2014`).
2. `GamestateArrives`: the gamestate that a client asks for after its downloads is
   sent once. A packet from another serverId is what tells the server that a
   gamestate was lost (`sv_client.c:830`, 2035), but this client has the right
   serverId already. It stays where it is until the user or the next map ends it.

The others are seen by giving the property named here to TLC, with the constants of
the component's passing run unless others are named:

* `SnapshotDelta!GameSeesWorld`: the baselines are written into one unreliable
  message and never again (`sv_snapshot.c:299`); if it is lost, the differences from
  them are applied to entities of zeros, although "only the fields that differ from
  the baseline will be transmitted" (`sv_init.c:241`). `PACKET_BACKUP` 6,
  `numSnapshotEntities` and `maxParseEntities` 8, `WRAP` 31, `UsedBefore` 0,
  `MaxMessages` 4, `MaxInFlight` 1, no `OthersAt`.
* `Download!NeverMisread`: the server writes the file's size into every block zero
  (`sv_client.c:1215`), the client reads it only from the first (`cl_parse.c:675`,
  which calls block zero special); a repeated one is misparsed. One file of 6
  blocks, window 3, `BLOCK_WRAP` 5, `MaxInFlight` 4, `MaxCommands` 5.
* `Gamestate!ConfigstringsAgree`: a change older than the gamestate is executed on
  top of it (`cl_cgame.c:2270`) and undoes it, although "any configstring changes
  should be reliably transmitted to all clients" (`sv_init.c:719`). `MaxServerId` 2,
  `Restarts` 0, `MaxChanges` 2.
* `Gamestate!NoUnexpectedSnapshot`: a map restart makes a client active whose
  gamestate was lost (`sv_ccmds.c:339`); it is sent snapshots, which it cannot load
  (`sv_snapshot.c:824`), and leaves with an error. `MaxServerId` 2.
* `Gamestate!UserMoveAssertion`: a map restart marks the player of a client that is
  only connected as being in the world (`sv_client.c:916`); its first move then fails
  the assertion of `sv_client.c:1810`, and in a release build it stays primed and is
  sent no snapshot.
* `ClientCommands!StalledNotForgotten`: "if we decide that we want to stall the
  command, we will stop processing the rest of the packet" (`sv_client.c:1684`); the
  code numbers the command, keeps it from the game for good, and goes on with the
  packet.
* `ClientCommands!SlotLeftOpen`: no slot is left open for the disconnect command
  (`cl_main.c:655`); it overwrites the oldest pending command. The last disjunct of
  `ExecutedAsIssued` is this case.
* `ServerCommands!DroppedOnce`: a client that is dropped while its ring is exactly
  full is dropped again within the drop, by its own broadcast print (`sv_main.c:168`
  says it is not).
* `ServerCommands!NeverOverfull` with `Loopback = TRUE`: a client in the server's
  process is not dropped (`sv_client.c:796`), its commands are numbered and not
  stored (`sv_main.c:166`).
* `VoipQueue!NothingLeaks`: `SV_FreeClient`, "destructor for data allocated in a
  client structure" (`sv_client.c:588`), frees the packets from the ring's index to
  the *number* of packets (`sv_client.c:600`): when the ring has turned, some or all
  of them stay in the zone. So do the packets of a client that connects again
  without having been dropped (`*newcl = temp`, `sv_client.c:517`), and those of a
  zombie when a map is started with another `sv_maxclients`: its `client_t` is replaced
  by zeros (`sv_init.c:375`), and no `SV_FreeClient` comes before.
* `PlayerSlots!PlayerFound`, without the constraint of the run: a client that
  connects again from the same address and port before it was dropped gets its old
  `client_t`, cleared; its players are still in use and no client has them in its
  list, so that they keep their slots until the server stops or somebody kicks them.
  `SV_LocalPlayerNum` calls that a fatal error (`sv_client.c:681`; nothing calls it).

Where a finding would hide the rest of a property, the passing run checks the
property with the finding's cause as an explicit exception:
`GuaranteeUnlessForgotten`, `GameSeesWorldWithBaselines`,
`ConfigstringsAgreeIfOrderly`, `EnteredInOrder` (its `early`), `EntersWorld` (its
`Awaiting`), `NothingLeaksUnlessForgotten` (its `forgotten`). `EntersWorld` has the exceptions of
`ConfigstringsAgreeIfOrderly` too: a replayed `systeminfo` gives the client an old
serverId, and the server ignores all its later moves.

`PlayerSlots!Orderly` is what its properties except: `PlayerFound`'s case and the use
of a pointer to a player that has left. There are two such uses.
`SV_BotAllocateClient` takes a slot without clearing it, although `sv_client.c:516`
says that `SV_DirectConnect` is the only place where a `client_t` is initialized; if
the slot's last client had a last player other than its first, the bot has it as a
second player, who may be another client's by now. And `SV_KickAll_f` drops the
players of zombies, where the last player stays listed.

Three exceptions contradict no text of the repository. `Download!Stale`: a block does
not name its file, so one that was sent again may be taken for a block of the next
file (`cl_parse.c:698`); the file's checksum then fails, the server drops the client
for a broken download (`sv_client.c:1021`), or the client waits for a block that will
not be sent. `Connection!Forgotten`: a client whose challenge was recycled or removed
goes on sending it; it is told in a print, and asks for no new challenge until the
user connects again. `Connection!cleared`: `SV_DropPlayer` removes only the first
challenge of an address (`sv_client.c:720`), and a late connect that carries another one
is rejected only by its zombie. When another `sv_maxclients` clears the zombie early
(`sv_init.c:375`), the connect is accepted, and the two ends may be connected with
different challenges until one times out; without `~cleared`, TLC finds `EndsAgree`
violated this way. `OneSetup` holds without this exception.

Seen on the way, and kept in the models: a bot's voice queue fills and is never
emptied (`SV_WriteVoipToClient` is reached by clients with a channel only); whether a
voice packet is held back during a download depends on the talker's download
(`sv_client.c:1934`); the client's timeout is put off by any datagram from anywhere
(`cl_main.c:2931`).

## 6. What is proved

The theorems hold for every value of the constants that the named assumptions
admit, so for every value of the bounds that TLC needs. Each proof has the same plan:
an inductive invariant, a conjunction of named parts (`IInv`; `GInv` for `Gamestate`,
`SlotsInv` for `PlayerSlots`, `HeapInv` for `Zone`), with a lemma for every action that
says that the action preserves it; a theorem that it always holds; the properties follow
from it. Where TLC could enumerate the states, the invariant was checked on small
instances before it was proved.

| Component | Theorem | Property |
|---|---|---|
| `ServerNetchan` | `TypeCorrect`, `Integrity`, `Order`, `BacklogOrder` | `TypeOK`, `DeliveredIntact`, `DeliveredInOrder`, `BacklogInOrder` |
| | `Refinement` | `ImplementsOrderedMessages` |
| `Gamestate` | `GamestateTypeCorrect`, `ConfigstringsReachClient`, `ClientEntersInOrder` | `GamestateTypeOK`, `ConfigstringsAgreeIfOrderly`, `EnteredInOrder` |
| `ServerCommands` | `TypeCorrect`, `SnapshotsAfterCommands`, `CommandsInOrder` | `TypeOK`, `GuaranteeUnlessForgotten`, `ExecutedAsIssued` |
| | `RoomForEveryCommand` | (not a property of a run) |
| `ClientCommands` | `TypeCorrect`, `CommandsInOrder`, `CommandsBeforeMoves` | `TypeOK`, `ExecutedAsIssued`, `NoMoveBeforeItsCommands` |
| `PlayerSlots` | `SlotsTypeCorrect`, `PlayersAreOwned`, `GameIsToldOnce`, `OthersAreLeftAlone` | `SlotsTypeOK`, `PlayersOwned`, `GameToldOnce`, `OthersStay` |
| `SnapshotDelta` | `TypeCorrect`, `DeltaBase`, `GameSeesTheWorld` | `TypeOK`, `DeltaBaseHeld`, `GameSeesWorldWithBaselines` |
| `Download` | `TypeCorrect`, `Intact` | `TypeOK`, `FileIntact` |
| `Connection` | `TypeCorrect`, `Agreement`, `SetUpOnce` | `TypeOK`, `EndsAgree`, `OneSetup` |
| `VoipQueue` | `TypeCorrect`, `VoiceInOrder`, `LeaksOnlyForgotten` | `TypeOK`, `HeardInOrder`, `NothingLeaksUnlessForgotten` |
| `Zone` | `ZoneTypeCorrect`, `HeapStaysWellFormed`, `RefusalIsJustified` | `ZoneTypeOK`, `HeapWellFormed`, `RefusedOnlyIfFull` |
| | `ZoneImplementsAllocator` | `ImplementsAllocator` |

**The channel.** Assumptions (of `Netchan`): the fragment size is positive; messages
are no longer than `MAX_MSGLEN`; a stray datagram does not carry a valid checksum. The
last one is what the challenge is for, and it is false in one case: the checksum
of a packet numbered 1 is `c ^ (1 * c) = 0` for every challenge `c`, so that the
first packet of an earlier connection is accepted by a later one.

None of the properties is inductive. `IInv` adds
`NetFaithful` (every datagram with a valid checksum is a true piece of the
message accepted under its number), `PartialIsPrefix` (the reassembly buffer is
a beginning of the message `fragmentSequence` names) and the relation of the
sender's variables to the history of accepted messages. `Integrity` follows
because only a short fragment completes a message, and a short fragment in
place is the last one of its message. `StillFaithful` and `AcceptMore` say once that
accepting a message disturbs nothing that was true of the earlier ones.
`Refinement` maps every step to a step of `OrderedMessages` or to a stutter; it is
what all other modules rely on.

**Rings (`ProofLemmas`).** Four of the models index a ring with a number modulo its
length. `SameSlotTurnApart` says that two numbers of one slot are at least a turn apart,
`HoldsLatest` that a ring whose slot `n + 1` is written still holds the newest entries.

**Folds and loops (`ProofLemmas`).** The module also has what the proofs say of the
community modules' `FoldLeft` (a message's commands are taken one after another): that
its value after one more element is the step applied to the value before, for which a
partial solution of the recursion is shown to exist, by induction over the finite sets
of the library's theorems. `LoopExists` says the same of a loop that counts: it is a run
of a step function. `SV_DropClient`'s loop over the local players, the loops over all
slots and `Z_FreeTags`' walk are proved about as such runs.

**Server commands.** Assumption: the ring has at least one slot and the constants
have their types. `HoldsIssued(ring, newest, issued)` says of both rings that the slots
of the last turn hold what the game issued under those numbers. A message is
`Gapless`: it has the commands from its `Base`, the last one acknowledged when it was
written, to its newest; and what it has are the commands that were issued under those
numbers (`Sent`). `AcknowledgedIsReceived` closes the circle: what the server takes for
acknowledged the client has, so the `Base` of every message is at most the client's
newest, and the client's ring has no hole. `GuaranteeUnlessForgotten` is proved for both
values of `Loopback`. `CommandsInOrder` and `RoomForEveryCommand` have `~Loopback` as a
hypothesis, and must: for a client in the server's own process `SV_DropClient`
does not happen, the ring overruns, and TLC finds `ExecutedAsIssued` violated with
`Loopback = TRUE`. `RingWhole` is why they hold otherwise: a client that is kept has
at most a ring of commands unacknowledged, because the command too many drops it.
A client that was dropped, or whose acknowledgement was out of range, may still be
sent the wrong text, which is the exception that `Orderly` makes.

**Client commands.** The same lemmas in the other direction, with the difference that
the client itself leaves when its ring is full. Its disconnect command is added whatever
the room, so `RoomUntilDisconnect` allows one too many, and then the slot of the oldest
pending command holds "disconnect" instead: a packet may carry that as an earlier
command (`PacketOK`, second alternative). The server, which executes it, is rid of the
client, so `ExecutedMatches` allows it for a zombie only. That no packet is found to
have lost commands, and no move is executed before the commands it follows, is in `IInv`
as `lost = FALSE` and `early = FALSE`.

**Snapshots.** Assumptions: `SizeAssumption` (each ring has room for one snapshot; more
than three snapshots are kept, the margin of `OutOfDate`; the number at which the
server's index would wrap is more than three turns of its ring) and `ViewAssumption` (a
snapshot shows at most `MAX_SNAPSHOT_ENTITIES` of finitely many entities). Both rings
are windows on a sequence of entities that grows forever. `Copied` and `Untouched` say
what adding to them leaves alone: all that is less than a turn old. So a frame of the
server that did not roll off is what was built (`FrameIs`; lowering the ring's index
moves frames by whole turns, or puts them where they count as rolled off,
`LoweredFrame`), and a snapshot of the client that is not lost is what was built
(`Kept`). The two meet in `Placed`: until its place in `frames` is taken, the frame of a
snapshot that the client holds is that snapshot. `AcknowledgedHeld` says that what the
client acknowledged as a base it holds until a message `PACKET_BACKUP` numbers later
takes its place; the server writes no difference from anything that old, so the base is
still held when the difference arrives, behind whatever was under way before it
(`Difference`). That is `DeltaBase`. For `GameSeesTheWorld` the client's decoding has to
be right as well: `ParsedRight` is a proof of the loop of `CL_ParsePacketEntities`, in
which old entities and differences are merged in the order of their numbers (`Passed`:
what has been written is the part of the new view before the next number) while the ring
is being written over (`ParseEntitiesTooOld` is why the old snapshot outlasts the loop,
also where a removed entity is written to a slot and not counted). The client gets the
baselines with its first snapshot (`BaselinesFirst`); if that one is lost, they are
wrong for good, see section 5, and then nothing is claimed.

**Downloads.** Assumptions: at least one file; the window and the wrap of the block
number as in the code, the wrap larger than the window. A block does not say which file
it belongs to, its number wraps, and a block that is sent again after it was
acknowledged carries the data of the block that took its place in the window. So the
state alone does not tell what a block under way *is*, and `IInv` says that there is an
account of it: for each block the file and number it was sent as, for each command the
position in the list of files before and behind it (`Ghosts`). Of such an account it
says: every command leads from its position to the next (`Path`), the last position is
the client's, the first the server's (`ClientAt`, `ServerAt`), and no block is further
from what the client expects than a window (`NearClient`). Since the wrap is larger than
the window, a number that fits is then the right one. A block that lost its place is one
the client has already. What remains are late blocks of the file before: a file that is
over while a block zero of it is still under way is smaller than the window; such a
block may get into the next file, and then `Stale` holds, the checksum does not fit and
the server calls the download broken. `ClientAhead`, `SameFile` and `NotYetOpened` say
how far client and server may be apart while that happens. `Intact` says that this is
the only way in which a file is damaged, and the only one in which the server finds a
download broken.

**Gamestates.** Assumption: `BoundAssumption`, which only gives the bounds their types.
Two things have to hold at once: the client's state on the server follows from what the
client says, and the configstrings it has follow from what it was told. `GInv` says that
the numbers of commands and of serverIds never run ahead of who gives them
(`DownInOrder`, `UpInOrder`, `IdsGiven`); this holds always. The rest is claimed unless
a map restart found a client without its gamestate (`client.early`, the findings
`NoUnexpectedSnapshot` and `UserMoveAssertion`), and is what makes the proof long. For a
client that is not in the world: the gamestates under way are of this map or an earlier
one in the order of the maps, and whoever knows this map's serverId has a client that is
primed (`Maps`); what changed since the gamestate of this map was written is marked in
`csUpdated`, and no command came after it (`Untold`). For one in the world: after the
newest gamestate, and after every one under way, the commands that are still to be
executed bring each configstring to the server's value (`Told`, `Brings`). `SV_UserMove`
turns the first into the second, which is where `csUpdated` is emptied. `Loaded` says
who has a cgame and will keep it, `Lacking`, `Commanded` and `Downloads` follow a client
through its missing file: which commands it sent, in which order, and what the server's
record of the last one (`Named`) says; without them `Fetching` would let a move of the
map before pass for one of this map.

**Slots.** Assumption: `SlotsAssumption` (a bot's address is nobody else's, there are
local players, and a server has slots). `SlotsInv` has two parts. The first is about
both arrays and holds whatever happened: they have one size, which `SV_ChangeMaxClients`
changes, and every pointer stays in it (`Server(n)`); this is `SlotsTypeOK`. It does not
say that the game knows only players that the server has: after a `client_t` was
replaced that is false. The second holds as long as no client in use was replaced and no
pointer to a player that left was used: each player in use is held once, by a client
that is not a zombie, and points back (`Held1`); the game was told of exactly these
(`Known`); an address has one slot (`OneSlot`); a bot holds its first local player and
no other (`BotsHold`), which is why freeing it drops one player. It is kept by every
operation only because `SV_DropClient` empties the list before the slot becomes a
zombie's; within a drop it does not hold, so the lemmas about the loop say it of the
clients but one (`live`). `OthersAreLeftAlone` is an action property; its lemmas say of
each operation that what it changes is its own client's.

**Connections.** Assumptions: those of `Connection` on the times, namely a datagram
stays under way for less than `sv_reconnectlimit` (and than the server's timeouts), and
for less than half the time after which the client asks again. Datagrams have ages, and
the argument is about ages. While the client waits for its answer, every connect of its
under way is at least as old as the answer (`AnswerHolds`), because the client does not
ask again before the network has forgotten both (`Patience`). The `client_t` is no older
than the answer. So when a late connect arrives, the quick reject still holds (`Held`),
or, on a server that was restarted, the challenge is not in the table (`Harmless`).
`NewChallenge` and `Numbered` say that a challenge the client is about to be given is
none it had. A zombie that `SV_ChangeMaxClients` clears takes its quick reject with it,
but not the challenges: then a late connect may be accepted, and `Agreement` excepts
that (`cleared`). It cannot be accepted in place of a connection in use (`Released`):
once that is set up it has a quick reject of its own. So `SetUpOnce` needs no exception;
it is an action property: no step sets up the `client_t` of a connection in use again.

**Voice.** Assumption: the ring has at least one slot. The invariant adds to the
properties that a queued packet is newer than any in the queue (`AllocatedWasQueued`)
and that a slot is left with an empty queue (`FreeIsEmpty`), for a bot takes a slot
without clearing it. `LeaksOnlyForgotten` says that a packet in memory waits in the
queue or is one of `forgotten`, to which only three operations add: `SV_FreeClient`,
what its loop passes over in a ring that has turned; `SV_DirectConnect`, for an address
that connects again; `SV_ChangeMaxClients`, for a zombie. The proof is about which
slots of the ring hold which packet before and after a packet is queued or some are
written.

**The zone.** Assumption: `ZoneAssumption`, of which the proofs need that sizes are
positive and that `TAG_FREE` is not given out. `HeapWellFormed` is not inductive: links
that fit, and blocks that touch, allow a second ring of blocks inside another block.
`Linked` adds the order of the addresses: of two blocks the lower one ends before the
other begins. Taking a block in (`AbsorbJoins`, `JoinedLinked`) and splitting one
(`SplitParts`, `PartedLinked`) keep it; between the two merges of `Z_Free` one pair of
neighbours may be free (`FreeOnlyAt`). That the count is right follows from the order,
too, because no word is counted for two pieces (`WordsOfPiece`). The scan of
`Z_TagMalloc` is shown to end (`ScanComputes`) by the distance around the ring from
`rover` to where it gives up (`RingDistance`, `ChainExists`), and to have looked at
every block when it does (`FirstFitFacts`): a `base` that is not `rover` is the free
block before it, so that `rover` itself is in use. The walk of `Z_FreeTags` is a loop
whose rover every `Z_Free` may move back: `SweptTo` says that no piece with the tag is
left below the rover, `Left` that the walk is over in time: the end of the block at the
rover never moves down, and a visit that does not move it up makes it free. Then the
steps of the zone are those of `Allocator` (`MemoryStep`).

## 7. What is only model-checked

* Liveness: `BacklogDrains`, `DropIsTold`, `CommandsArrive`, `DownloadEnds`,
  `EntersWorld`, `GetsIn`, `SlotFreed`. The prover has no rules for fairness or
  `ENABLED`.

Every invariant, action property and refinement of a passing run is a theorem.
Conversely `RoomForEveryCommand` is proved and in no run: `CommandsInOrder` rests on it.

## 8. What is not modelled, and why

* Inside the modelled components: the loopback ring and the packet delay queue;
  message overflow (a message that does not fit is cleared and only its end is sent,
  `sv_snapshot.c:843`; the client reads past it and leaves, "read past end of server
  message", `cl_parse.c:997`); the long-configstring protocol; refused downloads and
  HTTP redirects; several local players and several missing files in `Gamestate`;
  bans, ping limits, reserved slots, a client in the server's own process; the game
  freeing a bot by itself (`G_BOT_FREE_CLIENT`, section 2); the freeing of a zombie in
  `ServerCommands`, so that `DropIsTold` does not say that the disconnect arrives before
  it (`SlotFreed` says that it is freed); demos;
  the contents, debug labels and static blocks of the zone.
* Frame and rate control, client time, command buffer, events, hunk: planned, see
  below.
* Bit stream and Huffman coding, the virtual machine, collision, the file
  system, renderers, sound, input, the platform layer, the bot library: data
  transformation, floating point or I/O, where the difficulty is not in the
  order of events.
* Game and cgame are not in this repository.

## 9. Plan

The order is by how much of the system rests on a part.

1. Done: the channel and its proof, the two command protocols, snapshots,
   downloads, gamestates with downloads on the way, player slots, connections, the
   voice queue, the zone.
2. Done: proofs of the rings (`ServerCommands`, `ClientCommands`, `VoipQueue`), of
   snapshots, downloads, connections, gamestates, player slots and the zone.
3. `Loopback` as an implementation of `OrderedMessages` when the ring is large
   enough; the run that shows it is not for a message of maximum size.
   `ClientNetchan`, the client's sender.
4. `RateLimit`, `Frame` (time residual and wrap), `EventQueue`, `CommandBuffer`,
   `ClientTime`, `Hunk`: each with an abstract bucket, queue or stack it implements.
5. Message overflow in `SnapshotDelta`, several missing files in `Gamestate`.
