------------------------------ MODULE Download ------------------------------
(***************************************************************************)
(* Files a server sends to a client in blocks (SV_WriteDownloadToClient    *)
(* and SV_NextDownload_f in server/sv_client.c, CL_ParseDownload in        *)
(* client/cl_parse.c, CL_NextDownload in client/cl_main.c).  The server    *)
(* keeps a window of blocks that are not acknowledged and sends it again   *)
(* after a second without news; an empty block ends the file.              *)
(*                                                                         *)
(* Block i of file f is <<f, i>>.  The messages with blocks may be lost;   *)
(* the client's commands are reliable (ClientCommands): executed once and  *)
(* in order, at some time.  A file the server refuses is left out.         *)
(***************************************************************************)
EXTENDS Integers, Sequences, FiniteSetsExt

CONSTANTS Files,                    \* the blocks of each file, in the order of
                                    \* the client's list
          MAX_DOWNLOAD_WINDOW,
          BLOCK_WRAP,               \* 2^16: a block's number is sent as a short
          MaxInFlight, MaxCommands  \* bounds

ASSUME FilesAssumption == Files \in Seq(Nat) /\ Files # <<>>
ASSUME WindowAssumption == /\ MAX_DOWNLOAD_WINDOW \in Nat \ {0}
                           /\ BLOCK_WRAP \in Nat /\ BLOCK_WRAP > MAX_DOWNLOAD_WINDOW

VARIABLES
  dl,                   \* client_t's download fields
  downloading,          \* the file the client is waiting for
  downloadBlock,        \* its next block
  written,              \* the contents of its temporary file
  completed,            \* the files that are finished
  gone,                 \* Com_Error: the client has left
  blocks, commands      \* under way to the client, to the server

cl == <<downloading, downloadBlock, written, completed, gone>>
vars == <<dl, cl, blocks, commands>>

None == 0
EOF == <<>>
Slots == 0 .. MAX_DOWNLOAD_WINDOW - 1
Slot(block) == block % MAX_DOWNLOAD_WINDOW

\* CL_InitDownloads has just begun the first download.  In dl: name is the file
\* asked for (downloadName), open whether it is opened, slots the blocks that
\* were read; current, client and xmit are the next block to read, to be
\* acknowledged and to be sent; count is how much was read, eof whether the empty
\* block was added, broken whether the client was dropped for a broken download.
Init ==
  /\ dl = [name |-> None, open |-> FALSE, slots |-> [s \in Slots |-> EOF],
           current |-> 0, client |-> 0, xmit |-> 0, count |-> 0, eof |-> FALSE,
           broken |-> FALSE]
  /\ downloading = 1 /\ downloadBlock = 0 /\ written = <<>>
  /\ completed = 0 /\ gone = FALSE
  /\ blocks = <<>> /\ commands = <<[name |-> "download", arg |-> 1]>>

-----------------------------------------------------------------------------
\* Server

\* Mutant: the number of the block to send is kept.
Opened_XmitKept(d) ==
  IF d.open THEN d
  ELSE [d EXCEPT !.open = TRUE, !.current = 0, !.client = 0, !.count = 0, !.eof = FALSE]

Opened(d) == IF d.open THEN d
             ELSE [d EXCEPT !.open = TRUE, !.current = 0, !.client = 0, !.xmit = 0,
                            !.count = 0, !.eof = FALSE]

Room(d) == MAX_DOWNLOAD_WINDOW - (d.current - d.client)

\* As much of the file as there is room for.
Read(d) ==
  LET n == Min({Room(d), Files[d.name] - d.count})
      At(k) == Slot(d.current + k)
  IN  [d EXCEPT !.slots = [s \in Slots |->
                             IF \E k \in 0 .. n - 1 : At(k) = s
                             THEN <<d.name, d.count + CHOOSE k \in 0 .. n - 1 : At(k) = s>>
                             ELSE d.slots[s]],
                !.current = @ + n,
                !.count = @ + n]

WithEOF(d) == IF d.count = Files[d.name] /\ ~d.eof /\ Room(d) > 0
              THEN [d EXCEPT !.slots[Slot(d.current)] = EOF, !.current = @ + 1, !.eof = TRUE]
              ELSE d

\* Mutant: only the newest block is sent again.
Resend_Newest(d) == [d EXCEPT !.xmit = IF @ = d.current THEN d.current - 1 ELSE @]

\* After a second in which all that was read had been sent already.
Resend(d) == [d EXCEPT !.xmit = IF @ = d.current THEN d.client ELSE @]

SV_WriteDownloadToClient ==
  /\ dl.name # None /\ ~dl.broken
  /\ Len(blocks) < MaxInFlight
  /\ LET d == Resend(WithEOF(Read(Opened(dl))))
     IN  /\ d.client # d.current
         /\ blocks' = Append(blocks, [block    |-> d.xmit % BLOCK_WRAP,
                                      withSize |-> d.xmit = 0,
                                      data     |-> d.slots[Slot(d.xmit)]])
         /\ dl' = [d EXCEPT !.xmit = @ + 1]
  /\ UNCHANGED <<cl, commands>>

SV_CloseDownload(d) == [d EXCEPT !.name = None, !.open = FALSE]

\* The block the client has written, then the next one; the empty one ends it.
SV_NextDownload_f(d, block) ==
  IF block # d.client THEN [d EXCEPT !.broken = TRUE]
  ELSE IF d.slots[Slot(d.client)] = EOF THEN SV_CloseDownload(d)
  ELSE [d EXCEPT !.client = @ + 1]

SV_BeginDownload_f(d, file) == [SV_CloseDownload(d) EXCEPT !.name = file]

\* One of the client's commands; donedl is answered with a gamestate.
SV_ClientCommand ==
  /\ commands # <<>> /\ ~dl.broken
  /\ LET command == Head(commands)
     IN  dl' = CASE command.name = "download" -> SV_BeginDownload_f(dl, command.arg)
                 [] command.name = "nextdl" -> SV_NextDownload_f(dl, command.arg)
                 [] command.name = "stopdl" -> SV_CloseDownload(dl)
                 [] command.name = "donedl" -> dl
  /\ commands' = Tail(commands)
  /\ UNCHANGED <<cl, blocks>>

-----------------------------------------------------------------------------
\* Client

\* Block zero begins with the size of the file, which is read only by a client
\* that expects it: otherwise the rest of the message makes no sense.
Misread(m) == m.withSize # (m.block = 0 /\ downloadBlock = 0)

\* Mutant: an older block is written once more.
Expected_OrOlder(m) == m.block <= downloadBlock % BLOCK_WRAP

Expected(m) == m.block = downloadBlock % BLOCK_WRAP

NextDownload == [name |-> "nextdl", arg |-> downloadBlock]

\* CL_NextDownload after the last block: the file's checksum must be that of the
\* file the server referenced.
CorrectChecksum == written = [i \in 1 .. Files[downloading] |-> <<downloading, i - 1>>]

CL_NextDownload ==
  \/ /\ ~CorrectChecksum
     /\ gone' = TRUE
     /\ commands' = Append(commands, NextDownload)
     /\ UNCHANGED <<downloading, downloadBlock, written, completed>>
  \/ /\ CorrectChecksum
     /\ completed' = completed + 1
     /\ written' = <<>>
     /\ downloadBlock' = 0
     /\ IF downloading < Len(Files)
        THEN /\ downloading' = downloading + 1
             /\ commands' = commands \o <<NextDownload, [name |-> "download",
                                                        arg |-> downloading + 1]>>
        ELSE /\ downloading' = None
             /\ commands' = commands \o <<NextDownload, [name |-> "donedl", arg |-> 0]>>
     /\ UNCHANGED gone

CL_ParseDownload ==
  /\ ~gone /\ blocks # <<>>
  /\ Len(commands) + 2 <= MaxCommands
  /\ blocks' = Tail(blocks)
  /\ LET m == Head(blocks)
     IN  \/ /\ downloading = None
           /\ commands' = Append(commands, [name |-> "stopdl", arg |-> 0])
           /\ UNCHANGED cl
        \/ /\ downloading # None /\ Misread(m)
           /\ gone' = TRUE
           /\ UNCHANGED <<downloading, downloadBlock, written, completed, commands>>
        \/ /\ downloading # None /\ ~Misread(m) /\ ~Expected(m)
           /\ UNCHANGED <<cl, commands>>
        \/ /\ downloading # None /\ ~Misread(m) /\ Expected(m) /\ m.data = EOF
           /\ CL_NextDownload
        \/ /\ downloading # None /\ ~Misread(m) /\ Expected(m) /\ m.data # EOF
           /\ written' = Append(written, m.data)
           /\ downloadBlock' = downloadBlock + 1
           /\ commands' = Append(commands, NextDownload)
           /\ UNCHANGED <<downloading, completed, gone>>
  /\ UNCHANGED dl

\* The network loses a block.
Lose == /\ blocks # <<>>
        /\ blocks' = Tail(blocks)
        /\ UNCHANGED <<dl, cl, commands>>

-----------------------------------------------------------------------------
Next == \/ SV_WriteDownloadToClient \/ SV_ClientCommand \/ CL_ParseDownload \/ Lose

\* SV_SendQueuedPackets and the packet events come up again and again; a block that
\* is sent again and again arrives in the end.
Spec == /\ Init /\ [][Next]_vars
        /\ WF_vars(SV_WriteDownloadToClient) /\ WF_vars(SV_ClientCommand)
        /\ \A n \in 0 .. BLOCK_WRAP - 1 :
             SF_vars(CL_ParseDownload /\ Head(blocks).block = n)

-----------------------------------------------------------------------------
TypeOK ==
  /\ dl.name \in 0 .. Len(Files) /\ downloading \in 0 .. Len(Files)
  /\ dl.open => dl.name # None
  /\ dl.client <= dl.current /\ dl.xmit \in 0 .. dl.current
  /\ completed \in 0 .. Len(Files)
  /\ Len(written) = downloadBlock

\* A block does not say which file it belongs to: one of the file before, sent
\* again and on its way when the next download begins, is taken for its own.
Stale == \E i \in DOMAIN written : written[i][1] # downloading

\* Whatever is lost or sent again, the temporary file is a beginning of the file
\* that is downloaded, or of one that contains a stale block.
WrittenIsPrefix ==
  \A i \in DOMAIN written : written[i][2] = i - 1 /\ (Stale \/ written[i][1] = downloading)

\* "The last acknowledged block from the client should be the same as
\* cl->downloadClientBlock" (SV_NextDownload_f): a client whose file has no stale
\* block is not dropped for a "broken download".
NextdlMatches == dl.broken => Stale

\* Both ends of a download agree on the file.
FileIntact == WrittenIsPrefix /\ NextdlMatches

\* "Block zero is special, contains file size": the client knows which one it is.
NeverMisread == ~gone

\* Whatever is lost, the downloads end: every file is complete, or the client has
\* left.  A stale block may make the client wait for one the server never sends.
DownloadEnds == <>(completed = Len(Files) \/ gone \/ Stale)
=============================================================================
