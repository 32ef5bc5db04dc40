--------------------------- MODULE DownloadProofs ---------------------------
(***************************************************************************)
(* Proofs about Download: its types, and that both ends of a download      *)
(* agree on the file.                                                      *)
(*                                                                         *)
(* A block carries its number modulo BLOCK_WRAP and not its file, and may  *)
(* even carry the data of another block: a block that was acknowledged     *)
(* before it is sent again has lost its place in the window.  What it was  *)
(* sent as is therefore kept beside it by the proof: F and X are the files *)
(* and numbers of the blocks under way.  In the same way P are the         *)
(* positions in the list of files before each command under way and behind *)
(* the last one: the first is the server's, the last one the client's.     *)
(*                                                                         *)
(* The argument is one of windows.  No block is more than a window away    *)
(* from the one the client expects, in either direction, so a number that  *)
(* fits is the right one, since BLOCK_WRAP is larger than the window.  And *)
(* a file that is over while its block zero is still sent is smaller than  *)
(* the window, so that of its late blocks none has lost its place.         *)
(***************************************************************************)
EXTENDS Download, ProofLemmas

N == Len(Files)
W == MAX_DOWNLOAD_WINDOW
File == 1 .. N

Data == {EOF} \cup (File \X Nat)
DlType == [name : 0 .. N, open : BOOLEAN, slots : [Slots -> Data], current : Nat,
           client : Nat, xmit : Nat, count : Nat, eof : BOOLEAN, broken : BOOLEAN]
BlockType == [block : Nat, withSize : BOOLEAN, data : Data]
CommandType == [name : {"download", "nextdl", "stopdl", "donedl"}, arg : Nat]
PositionType == [file : 0 .. N, next : Nat]

\* The file the client is at; beyond the last one when it has them all.
At == IF downloading = None THEN N + 1 ELSE downloading

\* What block i of a file is.
Datum(f, i) == IF i = Files[f] THEN EOF ELSE <<f, i>>

LEMMA Sizes ==
  /\ N \in Nat /\ N # 0 /\ W \in Nat /\ W # 0 /\ BLOCK_WRAP \in Nat /\ BLOCK_WRAP > W
  /\ Slots = 0 .. W - 1 /\ \A f \in File : Files[f] \in Nat
BY FilesAssumption, WindowAssumption DEF N, W, Slots, File

LEMMA DatumType ==
  ASSUME NEW f \in File, NEW i \in Nat
  PROVE  Datum(f, i) \in Data /\ (Datum(f, i) = EOF <=> i = Files[f])
BY DEF Datum, Data, EOF

LEMMA SmallerOfTwo ==
  ASSUME NEW a \in Int, NEW b \in Int
  PROVE  Min({a, b}) = IF a <= b THEN a ELSE b
<1>1. \E x \in {a, b} : \A y \in {a, b} : x <= y
  OBVIOUS
<1>2. Min({a, b}) \in {a, b} /\ \A y \in {a, b} : Min({a, b}) <= y
  BY <1>1 DEF Min
<1>3. QED
  BY <1>2

\* Two numbers with one place in the window are a window apart.
LEMMA Places ==
  /\ \A i \in Nat : Slot(i) \in Slots
  /\ \A i, j \in Nat : Slot(i) = Slot(j) /\ i < j => i + W <= j
  /\ Slot(0) = 0
<1>1. W \in Nat \ {0} /\ \A i : Slot(i) = i % W
  BY Sizes DEF Slot, W
<1>2. \A i \in Nat : i % W \in 0 .. W - 1
  BY <1>1, ModRange
<1>3. \A i, j \in Nat : i % W = j % W /\ i < j => i + W <= j
  <2>1. SUFFICES ASSUME NEW i \in Nat, NEW j \in Nat, i % W = j % W, i < j
                 PROVE  i + W <= j
    OBVIOUS
  <2>2. i \in Int /\ j \in Int
    OBVIOUS
  <2>3. QED
    BY <1>1, <2>1, <2>2, SameSlotTurnApart, Zenon
<1>4. 0 % W = 0
  BY <1>1, ModSmall
<1>5. QED
  BY <1>1, <1>2, <1>3, <1>4, Sizes

LEMMA DlFields ==
  ASSUME NEW d \in DlType
  PROVE  /\ d.current \in Nat /\ d.client \in Nat /\ d.xmit \in Nat /\ d.count \in Nat
         /\ d.slots \in [Slots -> Data] /\ d.name \in 0 .. N
         /\ d.open \in BOOLEAN /\ d.eof \in BOOLEAN /\ d.broken \in BOOLEAN
BY DEF DlType

-----------------------------------------------------------------------------
\* The server's window.

\* What an open download of file f holds: as much as was read, as far as there is room.
Window(d, f) ==
  /\ d.client <= Files[f] /\ d.client <= d.current /\ d.xmit <= d.current
  /\ d.current <= Files[f] + 1 /\ d.current <= d.client + W
  /\ d.count = IF d.eof THEN Files[f] ELSE d.current
  /\ d.eof <=> d.current = Files[f] + 1
  /\ \A i \in 0 .. d.current - 1 : d.current <= i + W => d.slots[Slot(i)] = Datum(f, i)

LEMMA OpenedWindow ==
  ASSUME NEW d \in DlType, NEW f \in File, d.name = f, d.open => Window(d, f)
  PROVE  /\ Opened(d) \in DlType /\ Window(Opened(d), f)
         /\ Opened(d).name = f /\ Opened(d).open /\ Opened(d).broken = d.broken
         /\ d.open => Opened(d) = d
         /\ ~d.open => Opened(d).client = 0 /\ Opened(d).xmit = 0
<1>1. CASE d.open
  BY <1>1 DEF Opened
<1>2. CASE ~d.open
  <2> DEFINE e == [d EXCEPT !.open = TRUE, !.current = 0, !.client = 0, !.xmit = 0,
                            !.count = 0, !.eof = FALSE]
  <2>1. Opened(d) = e
    BY <1>2 DEF Opened
  <2>2. /\ e \in DlType /\ e.name = d.name /\ e.open = TRUE /\ e.broken = d.broken
        /\ e.current = 0 /\ e.client = 0 /\ e.xmit = 0 /\ e.count = 0 /\ e.eof = FALSE
    BY DEF DlType
  <2> HIDE DEF e
  <2>3. Files[f] \in Nat /\ W \in Nat
    BY Sizes
  <2>4. Window(e, f)
    BY <2>2, <2>3 DEF Window
  <2>5. QED
    BY <1>2, <2>1, <2>2, <2>4
<1>3. QED
  BY <1>1, <1>2

\* What the writer reads is a longer piece of the file.
Longer(d, e) == /\ e.name = d.name /\ e.open = d.open /\ e.broken = d.broken
                /\ e.client = d.client /\ e.xmit = d.xmit /\ d.current <= e.current

LEMMA ReadWindow ==
  ASSUME NEW d \in DlType, NEW f \in File, d.name = f, Window(d, f)
  PROVE  /\ Read(d) \in DlType /\ Window(Read(d), f) /\ Longer(d, Read(d))
         /\ Read(d).current < Files[f] => Read(d).current = d.client + W
<1> DEFINE n == Min({Room(d), Files[d.name] - d.count})
           slots == [s \in Slots |->
                       IF \E k \in 0 .. n - 1 : Slot(d.current + k) = s
                       THEN <<d.name, d.count + CHOOSE k \in 0 .. n - 1 : Slot(d.current + k) = s>>
                       ELSE d.slots[s]]
<1>1. Read(d) = [d EXCEPT !.slots = slots, !.current = @ + n, !.count = @ + n]
  BY DEF Read
<1>2. /\ d.current \in Nat /\ d.client \in Nat /\ d.count \in Nat /\ d.eof \in BOOLEAN
      /\ d.slots \in [Slots -> Data] /\ W \in Nat /\ W # 0 /\ Files[f] \in Nat
  BY DlFields, Sizes
<1>3. /\ n \in Nat /\ d.current + n <= d.client + W /\ d.count + n <= Files[f]
      /\ n # 0 => ~d.eof /\ d.count = d.current
      /\ d.current + n = d.client + W \/ d.count + n = Files[f]
  <2>1. Room(d) = W - (d.current - d.client)
    BY DEF Room, W
  <2>2. n = IF Room(d) <= Files[f] - d.count THEN Room(d) ELSE Files[f] - d.count
    BY <1>2, <2>1, SmallerOfTwo
  <2> HIDE DEF n
  <2>3. QED
    BY <1>2, <2>1, <2>2 DEF Window
<1> HIDE DEF n
<1>4. ASSUME NEW k \in 0 .. n - 1
      PROVE  /\ Slot(d.current + k) \in Slots
             /\ slots[Slot(d.current + k)] = <<f, d.current + k>>
  <2>1. d.current + k \in Nat
    BY <1>2, <1>3
  <2>2. \A j \in 0 .. n - 1 : Slot(d.current + j) = Slot(d.current + k) => j = k
    <3>1. SUFFICES ASSUME NEW j \in 0 .. n - 1, Slot(d.current + j) = Slot(d.current + k), j # k
                   PROVE  FALSE
      OBVIOUS
    <3>2. d.current + j \in Nat
      BY <1>2, <1>3
    <3>3. (d.current + j) + W <= d.current + k \/ (d.current + k) + W <= d.current + j
      BY <1>2, <1>3, <2>1, <3>1, <3>2, Places
    <3>4. QED
      BY <1>2, <1>3, <3>3 DEF Window
  <2>3. (CHOOSE j \in 0 .. n - 1 : Slot(d.current + j) = Slot(d.current + k)) = k
    BY <2>2
  <2>4. d.count = d.current
    BY <1>3
  <2>5. QED
    BY <2>1, <2>3, <2>4, Places
<1>5. ASSUME NEW i \in 0 .. d.current - 1, d.current + n <= i + W
      PROVE  slots[Slot(i)] = d.slots[Slot(i)]
  <2>1. i \in Nat /\ Slot(i) \in Slots
    BY <1>2, Places
  <2>2. ASSUME NEW k \in 0 .. n - 1, Slot(d.current + k) = Slot(i)
        PROVE  FALSE
    <3>1. d.current + k \in Nat /\ i < d.current + k
      BY <1>2, <1>3
    <3>2. i + W <= d.current + k
      BY <2>1, <2>2, <3>1, Places
    <3>3. QED
      BY <1>2, <1>3, <1>5, <3>2
  <2>3. QED
    BY <2>1, <2>2
<1>6. slots \in [Slots -> Data]
  <2>1. ASSUME NEW s \in Slots, NEW k \in 0 .. n - 1, Slot(d.current + k) = s
        PROVE  slots[s] \in Data
    <3> HIDE DEF slots
    <3>1. slots[Slot(d.current + k)] = <<f, d.current + k>>
      BY <1>4
    <3>2. slots[s] = <<f, d.current + k>>
      BY <2>1, <3>1, Zenon
    <3>3. d.current + k \in Nat
      BY <1>2, <1>3
    <3>4. QED
      BY <3>2, <3>3 DEF Data
  <2>2. QED
    BY <1>2, <2>1
<1> HIDE DEF slots
<1>7. /\ Read(d) \in DlType /\ Longer(d, Read(d))
      /\ Read(d).slots = slots /\ Read(d).current = d.current + n /\ Read(d).count = d.count + n
      /\ Read(d).eof = d.eof
  <2>1. PICK current \in Nat, count \in Nat : current = d.current + n /\ count = d.count + n
    BY <1>2, <1>3
  <2>2. Read(d) = [d EXCEPT !.slots = slots, !.current = current, !.count = count]
    BY <1>1, <2>1
  <2>3. /\ Read(d) \in DlType /\ Read(d).slots = slots /\ Read(d).current = current
        /\ Read(d).count = count /\ Read(d).eof = d.eof /\ Read(d).name = d.name
        /\ Read(d).open = d.open /\ Read(d).broken = d.broken
        /\ Read(d).client = d.client /\ Read(d).xmit = d.xmit
    BY <1>6, <2>2 DEF DlType
  <2>4. QED
    BY <1>2, <1>3, <2>1, <2>3 DEF Longer
<1>8. \A i \in 0 .. Read(d).current - 1 :
        Read(d).current <= i + W => Read(d).slots[Slot(i)] = Datum(f, i)
  <2>1. SUFFICES ASSUME NEW i \in 0 .. (d.current + n) - 1, d.current + n <= i + W
                 PROVE  slots[Slot(i)] = Datum(f, i)
    BY <1>7
  <2>2. CASE i < d.current
    <3>1. i \in 0 .. d.current - 1 /\ d.current <= i + W
      BY <1>2, <1>3, <2>1, <2>2
    <3>2. QED
      BY <1>5, <2>1, <3>1 DEF Window
  <2>3. CASE i >= d.current
    <3>1. /\ i - d.current \in 0 .. n - 1 /\ i = d.current + (i - d.current)
          /\ i < Files[f]
      BY <1>2, <1>3, <2>1, <2>3
    <3>2. slots[Slot(i)] = <<f, i>>
      BY <1>4, <3>1
    <3>3. QED
      BY <1>2, <3>1, <3>2 DEF Datum
  <2>4. QED
    BY <1>2, <1>3, <2>2, <2>3
<1>9. /\ Read(d).client <= Files[f] /\ Read(d).client <= Read(d).current
      /\ Read(d).xmit <= Read(d).current /\ Read(d).current <= Files[f] + 1
      /\ Read(d).current <= Read(d).client + W
      /\ Read(d).count = IF Read(d).eof THEN Files[f] ELSE Read(d).current
      /\ Read(d).eof <=> Read(d).current = Files[f] + 1
      /\ Read(d).current < Files[f] => Read(d).current = d.client + W
  <2>1. d.xmit \in Nat
    BY DlFields
  <2>2. QED
    BY <1>2, <1>3, <1>7, <2>1 DEF Window, Longer
<1>10. QED
  BY <1>7, <1>8, <1>9 DEF Window

\* The writer adds the empty block when it has read the whole file and has room.
Full(d, f) == d.current >= W \/ d.current = Files[f] + 1

LEMMA EndedWindow ==
  ASSUME NEW d \in DlType, NEW f \in File, d.name = f, Window(d, f),
         d.current < Files[f] => d.current = d.client + W
  PROVE  /\ WithEOF(d) \in DlType /\ Window(WithEOF(d), f) /\ Longer(d, WithEOF(d))
         /\ Full(WithEOF(d), f)
<1>1. /\ d.current \in Nat /\ d.client \in Nat /\ d.count \in Nat /\ d.eof \in BOOLEAN
      /\ d.xmit \in Nat /\ d.slots \in [Slots -> Data] /\ W \in Nat /\ W # 0
      /\ Files[f] \in Nat /\ Room(d) = W - (d.current - d.client)
  BY DlFields, Sizes DEF Room, W
<1>2. CASE d.count = Files[f] /\ ~d.eof /\ Room(d) > 0
  <2> DEFINE slots == [d.slots EXCEPT ![Slot(d.current)] = EOF]
             e == [d EXCEPT !.slots = slots, !.current = @ + 1, !.eof = TRUE]
  <2>1. WithEOF(d) = e
    BY <1>2 DEF WithEOF
  <2>2. d.current = Files[f] /\ d.current + 1 <= d.client + W
    BY <1>1, <1>2 DEF Window
  <2>3. Slot(d.current) \in Slots /\ slots \in [Slots -> Data] /\ slots[Slot(d.current)] = EOF
    BY <1>1, Places DEF Data
  <2>4. ASSUME NEW i \in 0 .. d.current, d.current + 1 <= i + W
        PROVE  slots[Slot(i)] = Datum(f, i)
    <3>1. CASE i = d.current
      BY <2>2, <2>3, <3>1 DEF Datum
    <3>2. CASE i # d.current
      <4>1. i \in 0 .. d.current - 1 /\ i \in Nat /\ i < d.current /\ d.current <= i + W
        BY <1>1, <2>4, <3>2
      <4>2. Slot(i) # Slot(d.current) /\ Slot(i) \in Slots
        BY <1>1, <2>4, <4>1, Places
      <4>3. QED
        BY <1>1, <4>1, <4>2 DEF Window
    <3>3. QED
      BY <3>1, <3>2
  <2> HIDE DEF slots
  <2>5. PICK current \in Nat : current = d.current + 1
    BY <1>1
  <2>6. e = [d EXCEPT !.slots = slots, !.current = current, !.eof = TRUE]
    BY <2>5
  <2>7. /\ e \in DlType /\ e.current = d.current + 1 /\ e.eof = TRUE /\ e.slots = slots
        /\ e.count = d.count /\ e.client = d.client /\ e.xmit = d.xmit
        /\ e.name = d.name /\ e.open = d.open /\ e.broken = d.broken
    BY <2>3, <2>5, <2>6 DEF DlType
  <2> HIDE DEF e
  <2>8. /\ e.client <= Files[f] /\ e.client <= e.current /\ e.xmit <= e.current
        /\ e.current <= Files[f] + 1 /\ e.current <= e.client + W
        /\ e.count = IF e.eof THEN Files[f] ELSE e.current
        /\ e.eof <=> e.current = Files[f] + 1
    BY <1>1, <1>2, <2>2, <2>7 DEF Window
  <2>9. \A i \in 0 .. e.current - 1 : e.current <= i + W => e.slots[Slot(i)] = Datum(f, i)
    BY <1>1, <2>4, <2>7
  <2>10. QED
    BY <1>1, <2>1, <2>2, <2>7, <2>8, <2>9 DEF Window, Longer, Full
<1>3. CASE ~(d.count = Files[f] /\ ~d.eof /\ Room(d) > 0)
  <2>1. WithEOF(d) = d
    BY <1>3 DEF WithEOF
  <2>2. d.current <= Files[f] + 1 /\ (d.eof <=> d.current = Files[f] + 1)
        /\ d.count = (IF d.eof THEN Files[f] ELSE d.current) /\ d.current <= d.client + W
    BY DEF Window
  <2>3. d.current >= W \/ d.current = Files[f] + 1
    BY <1>1, <1>3, <2>2
  <2>4. QED
    BY <1>1, <2>1, <2>3 DEF Longer, Full
<1>4. QED
  BY <1>2, <1>3

\* The block that is sent next, if there is one that is not acknowledged.
LEMMA NextToSend ==
  ASSUME NEW d \in DlType, NEW f \in File, d.name = f, Window(d, f),
         NEW e, e = Resend(WithEOF(Read(d)))
  PROVE  /\ e \in DlType /\ Window(e, f) /\ Full(e, f) /\ d.current <= e.current
         /\ e.name = d.name /\ e.open = d.open /\ e.broken = d.broken /\ e.client = d.client
         /\ e.xmit = d.xmit \/ e.xmit = e.client
         /\ e.client # e.current => e.xmit < e.current
<1> DEFINE r == Read(d)
           w == WithEOF(r)
<1>1. r \in DlType /\ Window(r, f) /\ Longer(d, r) /\ (r.current < Files[f] => r.current = d.client + W)
  BY ReadWindow
<1>2. r.name = f /\ (r.current < Files[f] => r.current = r.client + W)
  BY <1>1 DEF Longer
<1> HIDE DEF r
<1>3. w \in DlType /\ Window(w, f) /\ Longer(r, w) /\ Full(w, f)
  BY <1>1, <1>2, EndedWindow
<1> HIDE DEF w
<1>4. e = [w EXCEPT !.xmit = IF w.xmit = w.current THEN w.client ELSE w.xmit]
  BY DEF Resend, w, r
<1>5. w.current \in Nat /\ w.client \in Nat /\ w.xmit \in Nat /\ r.current \in Nat /\ d.current \in Nat
  BY <1>1, <1>3, DlFields
<1>6. PICK x \in Nat : x = IF w.xmit = w.current THEN w.client ELSE w.xmit
  BY <1>5
<1>7. e = [w EXCEPT !.xmit = x]
  BY <1>4, <1>6
<1>8. /\ e \in DlType /\ e.xmit = x /\ e.current = w.current /\ e.client = w.client
      /\ e.count = w.count /\ e.eof = w.eof /\ e.slots = w.slots
      /\ e.name = w.name /\ e.open = w.open /\ e.broken = w.broken
  BY <1>3, <1>7 DEF DlType
<1>9. w.client <= w.current /\ w.xmit <= w.current
  BY <1>3 DEF Window
<1>10. x <= w.current /\ (w.client # w.current => x < w.current)
  BY <1>5, <1>6, <1>9
<1>11. Window(e, f)
  BY <1>3, <1>8, <1>10 DEF Window
<1>12. d.current <= e.current /\ e.client = d.client /\ (e.xmit = d.xmit \/ e.xmit = e.client)
  BY <1>1, <1>3, <1>5, <1>6, <1>8 DEF Longer
<1>13. QED
  BY <1>1, <1>3, <1>8, <1>10, <1>11, <1>12 DEF Longer, Full

-----------------------------------------------------------------------------
(***************************************************************************)
(* The inductive invariant.                                                *)
(***************************************************************************)
SentType == [file : File, number : Nat]

DlTypes == /\ dl \in DlType /\ dl.client <= dl.current /\ dl.xmit <= dl.current
           /\ dl.open => dl.name # None

Types ==
  /\ DlTypes
  /\ downloading \in 0 .. N /\ downloadBlock \in Nat /\ gone \in BOOLEAN
  /\ written \in Seq(File \X Nat) /\ Len(written) = downloadBlock
  /\ \A i \in DOMAIN written : written[i][2] = i - 1
  /\ completed = At - 1 /\ (downloading = None => downloadBlock = 0)
  /\ blocks \in Seq(BlockType) /\ commands \in Seq(CommandType)

\* A stale block is one of the file before the client's; without one the client
\* has nothing but the file.
StaleOnlyOfLast ==
  /\ Stale => downloading # None /\ At > 1 /\ Files[At - 1] > 0
  /\ ~Stale /\ downloading # None => downloadBlock <= Files[downloading]

\* From position s, the reader of a command gets to position t.
Leads(s, command, t) ==
  \/ /\ command.name = "nextdl" /\ s.file # 0
     /\ command.arg = s.next /\ t = [file |-> s.file, next |-> s.next + 1]
  \/ /\ command.name = "download"
     /\ command.arg = s.file + 1 /\ t = [file |-> s.file + 1, next |-> 0]
     /\ s.file # 0 => s.next = Files[s.file] + 1
  \/ /\ command.name \in {"donedl", "stopdl"}
     /\ t = s /\ s.file = N /\ s.next = Files[s.file] + 1

\* Position s is passed before q is.
Before(s, q) == /\ s.file <= q.file
                /\ s.file = q.file => s.next <= q.next
                /\ s.file # 0 /\ s.file < q.file => s.next <= Files[s.file] + 1

Path(T, c) == /\ Len(T) = Len(c) + 1
              /\ \A k \in 1 .. Len(c) : Leads(T[k], c[k], T[k + 1])
              /\ \A k \in 1 .. Len(T) : Before(T[k], T[Len(T)])

\* The position the client has got to.
ClientAt(q) ==
  IF downloading = None THEN q = [file |-> N, next |-> Files[N] + 1]
  ELSE /\ q.file = downloading
       /\ q.next = downloadBlock \/ (gone /\ q.next = downloadBlock + 1)

\* Block b was sent as g.  If it had lost its place the client has it already.
SentAs(b, g) ==
  /\ g.number <= Files[g.file]
  /\ b.block = g.number % BLOCK_WRAP /\ b.withSize = (g.number = 0)
  /\ \/ b.data = Datum(g.file, g.number)
     \/ /\ g.number + W <= Files[g.file]
        /\ g.file = At /\ ~gone => g.number < downloadBlock

\* It is of the client's file and not far from what the client expects, or of a
\* file before it, which then is small, as are those between them.
NearClient(g) ==
  /\ g.file <= At
  /\ g.file = At /\ ~gone => downloadBlock <= g.number + W /\ g.number < downloadBlock + W
  /\ g.file < At /\ g.number = 0 => Files[g.file] < W
  /\ g.file < At /\ downloadBlock > 0 =>
       Stale /\ downloadBlock <= Files[g.file] /\ Files[g.file] < W
  /\ \A f \in g.file + 1 .. At - 1 : Files[f] = 0 /\ Files[g.file] = 0

Waiting == dl.name # None /\ ~dl.open

\* It was sent by the server, which is at file L.
SentAt(g, L) ==
  /\ g.file <= L /\ (Waiting => g.file < L)
  /\ dl.open /\ g.file = L => g.number < dl.xmit + W /\ g.number < dl.current

InOrder(g, h) == g.file <= h.file /\ (g.file = h.file => g.number < h.number + W)

Flight(G, L) ==
  /\ Len(G) = Len(blocks)
  /\ \A k \in 1 .. Len(G) : SentAs(blocks[k], G[k]) /\ NearClient(G[k]) /\ SentAt(G[k], L)
  /\ \A j, k \in 1 .. Len(G) : j < k => InOrder(G[j], G[k])

\* File f was closed after its empty block was acknowledged.
LastClosed(f) == f # 0 => dl.client = Files[f] /\ (Files[f] = 0 => dl.slots[0] = EOF)

\* The server is at position p.
ServerAt(p) ==
  /\ dl.name # None => dl.name = p.file
  /\ dl.open => /\ Window(dl, p.file) /\ (~dl.broken => dl.client = p.next)
                /\ Full(dl, p.file)
  /\ Waiting /\ ~dl.broken => p.next = 0 /\ LastClosed(p.file - 1)
  /\ dl.name = None /\ ~dl.broken =>
       \/ p.file = 0 /\ downloadBlock = 0
       \/ p.file # 0 /\ p.next = Files[p.file] + 1 /\ LastClosed(p.file)
       \/ gone /\ commands = <<>>

Unopened(L, f) == f > L \/ (f = L /\ Waiting)

\* The client is not at the server's file L: it took late blocks of a file before.
ClientAhead(L) ==
  /\ \A f \in L + 1 .. At - 1 : Files[f] = 0 /\ (dl.name # None => Files[L] = 0)
  /\ dl.name # None /\ L < At =>
       /\ Files[L] # 0 => dl.open /\ dl.current = Files[L] + 1 /\ Files[L] < dl.xmit + W
       /\ downloadBlock > 0 => downloadBlock <= Files[L] /\ Files[L] < W
  /\ Unopened(L, At) /\ downloadBlock > 0 => Stale
  /\ downloadBlock >= W => L = At /\ ~Waiting

\* Both are at file L.
SameFile(L, q) ==
  dl.open /\ L = At => /\ downloadBlock <= dl.xmit + W
                       /\ q.next <= dl.current \/ q.next <= W
                       /\ ~gone => dl.client <= downloadBlock

\* A block of a file that was not opened is acknowledged only for a late one of
\* the file before.
NotYetOpened(L, q) ==
  \A f \in File : Unopened(L, f) /\ (f < q.file \/ (f = q.file /\ q.next > 0)) =>
    (f = At /\ Stale) \/ (f > 1 /\ Files[f - 1] = 0)

Server(p, q) == /\ dl.broken => Stale
                /\ ServerAt(p) /\ ClientAhead(p.file) /\ SameFile(p.file, q)
                /\ NotYetOpened(p.file, q)

Agree(G, T) == /\ Path(T, commands) /\ ClientAt(T[Len(T)])
               /\ Flight(G, T[1].file) /\ Server(T[1], T[Len(T)])

Ghosts == \E G \in Seq(SentType), T \in Seq(PositionType) : Agree(G, T)

IInv == Types /\ StaleOnlyOfLast /\ Ghosts
-----------------------------------------------------------------------------
\* The commands under way.

LEMMA PositionFields ==
  ASSUME NEW p \in PositionType
  PROVE  /\ p.file \in 0 .. N /\ p.file \in Nat /\ p.next \in Nat
         /\ p = [file |-> p.file, next |-> p.next]
         /\ p.file # 0 => p.file \in File /\ Files[p.file] \in Nat
BY Sizes DEF PositionType, File

LEMMA PassedBefore ==
  ASSUME NEW s \in PositionType, NEW q \in PositionType, NEW t \in PositionType,
         NEW command, Before(s, q), Leads(q, command, t)
  PROVE  Before(s, t)
<1>1. /\ s.file \in Nat /\ q.file \in Nat /\ s.next \in Nat /\ q.next \in Nat
      /\ s.file # 0 => Files[s.file] \in Nat
      /\ q.file # 0 => Files[q.file] \in Nat
  BY PositionFields
<1>2. \/ t.file = q.file /\ t.next = q.next + 1
      \/ t.file = q.file + 1 /\ t.next = 0 /\ (q.file # 0 => q.next = Files[q.file] + 1)
      \/ t.file = q.file /\ t.next = q.next
  BY DEF Leads
<1>3. QED
  BY <1>1, <1>2 DEF Before

LEMMA PathGrows ==
  ASSUME NEW T \in Seq(PositionType), NEW C \in Seq(CommandType), Path(T, C),
         NEW command \in CommandType, NEW t \in PositionType,
         Leads(T[Len(T)], command, t)
  PROVE  /\ Append(T, t) \in Seq(PositionType) /\ Path(Append(T, t), Append(C, command))
         /\ Append(T, t)[1] = T[1] /\ Append(T, t)[Len(Append(T, t))] = t
<1> DEFINE S == Append(T, t)
           D == Append(C, command)
<1>1. Len(T) = Len(C) + 1 /\ Len(C) \in Nat /\ Len(T) \in Nat
  BY DEF Path
<1>2. /\ S \in Seq(PositionType) /\ Len(S) = Len(T) + 1 /\ S[Len(T) + 1] = t
      /\ \A k \in 1 .. Len(T) : S[k] = T[k]
  OBVIOUS
<1>3. Len(D) = Len(C) + 1 /\ D[Len(C) + 1] = command /\ \A k \in 1 .. Len(C) : D[k] = C[k]
  OBVIOUS
<1> HIDE DEF S, D
<1>4. ASSUME NEW k \in 1 .. Len(D)
      PROVE  Leads(S[k], D[k], S[k + 1])
  <2>1. CASE k \in 1 .. Len(C)
    <3>1. S[k] = T[k] /\ S[k + 1] = T[k + 1] /\ D[k] = C[k]
      BY <1>1, <1>2, <1>3, <2>1
    <3>2. QED
      BY <2>1, <3>1 DEF Path
  <2>2. CASE k = Len(C) + 1
    <3>1. S[k] = T[Len(T)] /\ S[k + 1] = t /\ D[k] = command
      BY <1>1, <1>2, <1>3, <2>2
    <3>2. QED
      BY <3>1
  <2>3. QED
    BY <1>1, <1>3, <2>1, <2>2
<1>5. ASSUME NEW k \in 1 .. Len(S)
      PROVE  Before(S[k], t)
  <2>1. CASE k \in 1 .. Len(T)
    <3>1. S[k] = T[k] /\ T[k] \in PositionType /\ T[Len(T)] \in PositionType
      BY <1>1, <1>2, <2>1
    <3>2. Before(T[k], T[Len(T)])
      BY <2>1 DEF Path
    <3>3. QED
      BY <3>1, <3>2, PassedBefore
  <2>2. CASE k = Len(T) + 1
    <3>1. S[k] = t /\ t.file \in Nat /\ t.next \in Nat
      BY <1>2, <2>2, PositionFields
    <3>2. QED
      BY <3>1 DEF Before
  <2>3. QED
    BY <1>1, <1>2, <2>1, <2>2
<1>6. Path(S, D) /\ S[1] = T[1] /\ S[Len(S)] = t
  BY <1>1, <1>2, <1>3, <1>4, <1>5 DEF Path
<1>7. QED
  BY <1>2, <1>6 DEF S, D

LEMMA PathShrinks ==
  ASSUME NEW T \in Seq(PositionType), NEW C \in Seq(CommandType), Path(T, C), C # <<>>
  PROVE  /\ Tail(T) \in Seq(PositionType) /\ Path(Tail(T), Tail(C))
         /\ Tail(T)[Len(Tail(T))] = T[Len(T)] /\ Tail(T)[1] = T[2]
         /\ T[1] \in PositionType /\ T[2] \in PositionType /\ T[Len(T)] \in PositionType
         /\ Leads(T[1], Head(C), T[2])
         /\ Before(T[1], T[Len(T)]) /\ Before(T[2], T[Len(T)])
         /\ Tail(C) # <<>> => \E t \in PositionType :
                                Leads(T[2], C[2], t) /\ Before(t, T[Len(T)])
<1>1. Len(T) = Len(C) + 1 /\ Len(C) \in Nat /\ Len(C) # 0 /\ Head(C) = C[1]
  BY DEF Path
<1>2. /\ Tail(T) \in Seq(PositionType) /\ Len(Tail(T)) = Len(C)
      /\ \A k \in 1 .. Len(C) : Tail(T)[k] = T[k + 1]
  BY <1>1
<1>3. /\ Len(Tail(C)) = Len(C) - 1
      /\ \A k \in 1 .. Len(C) - 1 : Tail(C)[k] = C[k + 1]
  BY <1>1
<1>4. \A k \in 1 .. Len(T) : T[k] \in PositionType /\ Before(T[k], T[Len(T)])
  BY DEF Path
<1>5. \A k \in 1 .. Len(C) : Leads(T[k], C[k], T[k + 1])
  BY DEF Path
<1>6. Tail(T)[Len(Tail(T))] = T[Len(T)] /\ Tail(T)[1] = T[2]
  BY <1>1, <1>2
<1>7. ASSUME NEW k \in 1 .. Len(Tail(C))
      PROVE  Leads(Tail(T)[k], Tail(C)[k], Tail(T)[k + 1])
  <2>1. /\ k + 1 \in 1 .. Len(C) /\ Tail(T)[k] = T[k + 1] /\ Tail(T)[k + 1] = T[k + 2]
        /\ Tail(C)[k] = C[k + 1] /\ (k + 1) + 1 = k + 2
    BY <1>1, <1>2, <1>3
  <2>2. QED
    BY <1>5, <2>1
<1>8. \A k \in 1 .. Len(Tail(T)) : Before(Tail(T)[k], T[Len(T)])
  <2>1. SUFFICES ASSUME NEW k \in 1 .. Len(Tail(T))
                 PROVE  Before(Tail(T)[k], T[Len(T)])
    OBVIOUS
  <2>2. k + 1 \in 1 .. Len(T) /\ Tail(T)[k] = T[k + 1]
    BY <1>1, <1>2
  <2>3. QED
    BY <1>4, <2>2
<1>9. Path(Tail(T), Tail(C))
  BY <1>1, <1>2, <1>3, <1>6, <1>7, <1>8 DEF Path
<1>10. ASSUME Tail(C) # <<>>
       PROVE  \E t \in PositionType : Leads(T[2], C[2], t) /\ Before(t, T[Len(T)])
  <2>1. 2 \in 1 .. Len(C) /\ 3 \in 1 .. Len(T) /\ 2 + 1 = 3
    BY <1>1, <1>3, <1>10
  <2>2. T[3] \in PositionType /\ Leads(T[2], C[2], T[3]) /\ Before(T[3], T[Len(T)])
    BY <1>4, <1>5, <2>1, Zenon
  <2>3. QED
    BY <2>2, Zenon
<1>11. /\ T[1] \in PositionType /\ T[2] \in PositionType /\ T[Len(T)] \in PositionType
       /\ Leads(T[1], Head(C), T[2])
       /\ Before(T[1], T[Len(T)]) /\ Before(T[2], T[Len(T)])
  <2>1. 1 \in 1 .. Len(C) /\ 1 + 1 = 2
        /\ 1 \in 1 .. Len(T) /\ 2 \in 1 .. Len(T) /\ Len(T) \in 1 .. Len(T)
    BY <1>1
  <2>2. QED
    BY <1>1, <1>4, <1>5, <2>1
<1>12. QED
  BY <1>2, <1>6, <1>9, <1>10, <1>11, Zenon

-----------------------------------------------------------------------------
\* The blocks under way.

LEMMA SentFields ==
  ASSUME NEW g \in SentType
  PROVE  g.file \in File /\ g.file \in Nat /\ g.number \in Nat /\ Files[g.file] \in Nat
BY Sizes DEF SentType, File

LEMMA FirstBlock ==
  ASSUME Types, NEW L, NEW G \in Seq(SentType), Flight(G, L), blocks # <<>>
  PROVE  /\ G[1] \in SentType /\ Head(blocks) \in BlockType
         /\ SentAs(Head(blocks), G[1]) /\ NearClient(G[1]) /\ SentAt(G[1], L)
<1>1. blocks \in Seq(BlockType) /\ Len(G) = Len(blocks)
  BY DEF Types, Flight
<1>2. 1 \in 1 .. Len(G) /\ Head(blocks) = blocks[1] /\ blocks[1] \in BlockType
  BY <1>1
<1>3. QED
  BY <1>2 DEF Flight

\* When the first block has arrived or is lost, what holds of those after it must
\* still hold.
LEMMA LaterBlocks ==
  ASSUME Types, NEW L, NEW G \in Seq(SentType), Flight(G, L), blocks # <<>>,
         blocks' = Tail(blocks), dl' = dl,
         \A b \in BlockType, g \in SentType :
           InOrder(G[1], g) /\ SentAs(b, g) /\ NearClient(g) /\ SentAt(g, L)
             => SentAs(b, g)' /\ NearClient(g)'
  PROVE  Tail(G) \in Seq(SentType) /\ Flight(Tail(G), L)'
<1>1. blocks \in Seq(BlockType) /\ Len(G) = Len(blocks) /\ Len(G) \in Nat /\ Len(G) # 0
  BY DEF Types, Flight
<1>2. /\ Tail(G) \in Seq(SentType) /\ Len(Tail(G)) = Len(G) - 1
      /\ \A k \in 1 .. Len(G) - 1 : Tail(G)[k] = G[k + 1] /\ G[k + 1] \in SentType
  BY <1>1
<1>3. /\ Len(blocks') = Len(G) - 1
      /\ \A k \in 1 .. Len(G) - 1 : blocks'[k] = blocks[k + 1] /\ blocks[k + 1] \in BlockType
  BY <1>1
<1>4. ASSUME NEW k \in 1 .. Len(G) - 1
      PROVE  SentAs(blocks[k], Tail(G)[k])' /\ NearClient(Tail(G)[k])' /\ SentAt(Tail(G)[k], L)'
  <2>1. PICK b \in BlockType, g \in SentType : b = blocks[k + 1] /\ g = G[k + 1]
    BY <1>2, <1>3
  <2>2. k + 1 \in 1 .. Len(G) /\ 1 \in 1 .. Len(G) /\ 1 < k + 1
    BY <1>1
  <2>3. SentAs(b, g) /\ NearClient(g) /\ SentAt(g, L) /\ InOrder(G[1], g)
    BY <2>1, <2>2, Zenon DEF Flight
  <2>4. SentAs(b, g)' /\ NearClient(g)'
    BY <2>3, Zenon
  <2>5. SentAt(g, L)'
    BY <2>3 DEF SentAt, Waiting
  <2>6. blocks'[k] = b /\ Tail(G)[k] = g
    BY <1>2, <1>3, <2>1
  <2>7. SentAs(blocks[k], Tail(G)[k])'
    BY <2>4, <2>6 DEF SentAs
  <2>8. QED
    BY <2>4, <2>5, <2>6, <2>7
<1>5. ASSUME NEW j \in 1 .. Len(G) - 1, NEW k \in 1 .. Len(G) - 1, j < k
      PROVE  InOrder(Tail(G)[j], Tail(G)[k])
  <2>1. j + 1 \in 1 .. Len(G) /\ k + 1 \in 1 .. Len(G) /\ j + 1 < k + 1
    BY <1>1, <1>5
  <2>2. InOrder(G[j + 1], G[k + 1])
    BY <2>1, Zenon DEF Flight
  <2>3. QED
    BY <1>2, <2>2
<1>6. QED
  BY <1>2, <1>3, <1>4, <1>5 DEF Flight
\* Numbers less than BLOCK_WRAP apart are told apart.
LEMMA SameNumber ==
  ASSUME NEW i \in Nat, NEW j \in Nat, i % BLOCK_WRAP = j % BLOCK_WRAP,
         i < j + BLOCK_WRAP, j < i + BLOCK_WRAP
  PROVE  i = j
<1>1. i \in Int /\ j \in Int /\ BLOCK_WRAP \in Nat \ {0}
  BY Sizes
<1>2. CASE i < j
  <2>1. i + BLOCK_WRAP <= j
    BY <1>1, <1>2, SameSlotTurnApart
  <2>2. QED
    BY <1>1, <2>1
<1>3. CASE j < i
  <2>1. j + BLOCK_WRAP <= i
    BY <1>1, <1>3, SameSlotTurnApart
  <2>2. QED
    BY <1>1, <2>1
<1>4. QED
  BY <1>1, <1>2, <1>3

LEMMA ClientFile ==
  ASSUME Types
  PROVE  /\ At \in 1 .. N + 1 /\ At \in Nat /\ downloadBlock \in Nat /\ gone \in BOOLEAN
         /\ downloading # None => At = downloading /\ downloading \in File
                                  /\ Files[downloading] \in Nat
         /\ downloading = None => At = N + 1 /\ downloadBlock = 0
<1>1. /\ downloading \in 0 .. N /\ downloadBlock \in Nat /\ gone \in BOOLEAN
      /\ downloading = None => downloadBlock = 0
  BY DEF Types
<1>2. QED
  BY <1>1, Sizes DEF At, File, None

\* What the client takes for the block it expects has that block's number, but is
\* perhaps of the file before.
Fitting(b, g) ==
  /\ g.number = downloadBlock /\ downloadBlock <= Files[g.file]
  /\ b.data = Datum(g.file, downloadBlock)
  /\ g.file < At => Files[g.file] < W /\ (downloadBlock > 0 => Stale)

LEMMA ExpectedFits ==
  ASSUME Types, NEW b \in BlockType, NEW g \in SentType, SentAs(b, g), NearClient(g),
         ~gone, downloading # None, ~Misread(b), Expected(b)
  PROVE  Fitting(b, g)
<1>1. /\ g.file \in Nat /\ g.number \in Nat /\ Files[g.file] \in Nat /\ downloadBlock \in Nat
      /\ W \in Nat /\ BLOCK_WRAP \in Nat /\ BLOCK_WRAP > W /\ At \in Nat
  BY Sizes, SentFields, ClientFile
<1>2. g.number % BLOCK_WRAP = downloadBlock % BLOCK_WRAP
  BY DEF SentAs, Expected
<1>3. g.number <= Files[g.file] /\ g.file <= At
  BY DEF SentAs, NearClient
<1>4. g.number = downloadBlock
  <2>1. CASE g.file = At
    <3>1. downloadBlock <= g.number + W /\ g.number < downloadBlock + W
      BY <2>1 DEF NearClient
    <3>2. downloadBlock < g.number + BLOCK_WRAP /\ g.number < downloadBlock + BLOCK_WRAP
      BY <1>1, <3>1
    <3>3. QED
      BY <1>1, <1>2, <3>2, SameNumber
  <2>2. CASE g.file < At /\ downloadBlock = 0
    <3>1. 0 % BLOCK_WRAP = 0
      <4>1. BLOCK_WRAP \in Nat \ {0} /\ 0 \in 0 .. BLOCK_WRAP - 1
        BY <1>1
      <4>2. QED
        BY <4>1, ModSmall
    <3>2. b.block = 0
      BY <2>2, <3>1 DEF Expected
    <3>3. b.withSize = TRUE
      BY <2>2, <3>2 DEF Misread
    <3>4. QED
      BY <2>2, <3>3 DEF SentAs
  <2>3. CASE g.file < At /\ downloadBlock # 0
    <3>1. downloadBlock <= Files[g.file] /\ Files[g.file] < W
      BY <1>1, <2>3 DEF NearClient
    <3>2. downloadBlock < g.number + BLOCK_WRAP /\ g.number < downloadBlock + BLOCK_WRAP
      BY <1>1, <1>3, <3>1
    <3>3. QED
      BY <1>1, <1>2, <3>2, SameNumber
  <2>4. QED
    BY <1>1, <1>3, <2>1, <2>2, <2>3
<1>5. g.file < At => Files[g.file] < W /\ (downloadBlock > 0 => Stale)
  BY <1>1, <1>4 DEF NearClient
<1>6. ~(g.number + W <= Files[g.file] /\ (g.file = At => g.number < downloadBlock))
  BY <1>1, <1>3, <1>4, <1>5
<1>7. b.data = Datum(g.file, g.number)
  BY <1>6 DEF SentAs
<1>8. QED
  BY <1>3, <1>4, <1>5, <1>7 DEF Fitting
-----------------------------------------------------------------------------
\* The steps.

LEMMA ClientStays ==
  ASSUME UNCHANGED cl
  PROVE  /\ At' = At /\ Stale' = Stale /\ (StaleOnlyOfLast => StaleOnlyOfLast')
         /\ downloading' = downloading /\ downloadBlock' = downloadBlock
         /\ written' = written /\ completed' = completed /\ gone' = gone
         /\ \A q : ClientAt(q) => ClientAt(q)'
         /\ \A b, g : SentAs(b, g) => SentAs(b, g)'
         /\ \A g : NearClient(g) => NearClient(g)'
<1>1. /\ downloading' = downloading /\ downloadBlock' = downloadBlock
      /\ written' = written /\ completed' = completed /\ gone' = gone
  BY DEF cl
<1>2. At' = At /\ Stale' = Stale
  BY <1>1 DEF At, Stale
<1>3. StaleOnlyOfLast => StaleOnlyOfLast'
  BY <1>1, <1>2 DEF StaleOnlyOfLast
<1>4. \A q : ClientAt(q) => ClientAt(q)'
  BY <1>1 DEF ClientAt
<1>5. \A b, g : SentAs(b, g) => SentAs(b, g)'
  BY <1>1, <1>2 DEF SentAs
<1>6. \A g : NearClient(g) => NearClient(g)'
  BY <1>1, <1>2 DEF NearClient
<1>7. QED
  BY <1>1, <1>2, <1>3, <1>4, <1>5, <1>6

LEMMA TailTyped ==
  ASSUME NEW S, NEW q \in Seq(S), q # <<>>
  PROVE  Tail(q) \in Seq(S) /\ Head(q) \in S
OBVIOUS

LEMMA LoseStep ==
  ASSUME IInv, Lose
  PROVE  IInv'
<1>1. PICK G \in Seq(SentType), T \in Seq(PositionType) : Agree(G, T)
  BY DEF IInv, Ghosts
<1>2. /\ blocks # <<>> /\ blocks' = Tail(blocks)
      /\ dl' = dl /\ UNCHANGED cl /\ commands' = commands
  BY DEF Lose
<1>3. Types
  BY DEF IInv
<1>4. Types'
  <2>1. blocks' \in Seq(BlockType)
    BY <1>2, <1>3, TailTyped DEF Types
  <2>2. QED
    BY <1>2, <1>3, <2>1, ClientStays DEF Types, DlTypes
<1>5. StaleOnlyOfLast'
  BY <1>2, ClientStays DEF IInv
<1>6. Path(T, commands)' /\ ClientAt(T[Len(T)])'
  BY <1>1, <1>2, ClientStays DEF Agree
<1>7. Tail(G) \in Seq(SentType) /\ Flight(Tail(G), T[1].file)'
  <2>1. Flight(G, T[1].file)
    BY <1>1 DEF Agree
  <2>2. \A b, g : SentAs(b, g) /\ NearClient(g) => SentAs(b, g)' /\ NearClient(g)'
    BY <1>2, ClientStays
  <2>3. QED
    BY <1>2, <1>3, <2>1, <2>2, LaterBlocks
<1>8. Server(T[1], T[Len(T)])'
  <2>1. Server(T[1], T[Len(T)])
    BY <1>1 DEF Agree
  <2>2. QED
    BY <1>2, <2>1, ClientStays DEF Server, ServerAt, ClientAhead, SameFile, NotYetOpened,
       Unopened, Waiting, LastClosed
<1>9. Agree(Tail(G), T)'
  BY <1>6, <1>7, <1>8 DEF Agree
<1>10. QED
  BY <1>4, <1>5, <1>7, <1>9 DEF IInv, Ghosts
-----------------------------------------------------------------------------
\* A command arrives: the server moves from position p to position t.

\* The client was dropped, and that must not happen unless a block is stale.
LEMMA ServerBreaks ==
  ASSUME Types, NEW p \in PositionType, NEW t \in PositionType, NEW q \in PositionType,
         Server(p, q), Stale, UNCHANGED cl, t.file = p.file,
         dl' = [dl EXCEPT !.broken = TRUE]
  PROVE  DlTypes' /\ Server(t, q)' /\ \A g \in SentType : SentAt(g, p.file) => SentAt(g, t.file)'
<1>1. /\ dl' \in DlType /\ dl'.broken = TRUE
      /\ dl'.name = dl.name /\ dl'.open = dl.open /\ dl'.slots = dl.slots
      /\ dl'.current = dl.current /\ dl'.client = dl.client /\ dl'.xmit = dl.xmit
      /\ dl'.count = dl.count /\ dl'.eof = dl.eof
  BY DEF Types, DlTypes, DlType
<1>2. DlTypes'
  BY <1>1 DEF Types, DlTypes
<1>3. Waiting' = Waiting /\ At' = At /\ Stale' = Stale /\ downloadBlock' = downloadBlock
      /\ gone' = gone
  BY <1>1, ClientStays DEF Waiting
<1>4. ServerAt(t)'
  BY <1>1 DEF Server, ServerAt, Window, Full
<1>5. ClientAhead(t.file)' /\ SameFile(t.file, q)' /\ NotYetOpened(t.file, q)'
  BY <1>1, <1>3 DEF Server, ClientAhead, SameFile, NotYetOpened, Unopened
<1>6. \A g \in SentType : SentAt(g, p.file) => SentAt(g, t.file)'
  BY <1>1, <1>3 DEF SentAt
<1>7. QED
  BY <1>2, <1>3, <1>4, <1>5, <1>6 DEF Server

\* The file was closed.
LEMMA ServerCloses ==
  ASSUME Types, NEW p \in PositionType, NEW t \in PositionType, NEW q \in PositionType,
         Server(p, q), ~dl.broken, UNCHANGED cl, t.file = p.file, p.file # 0,
         dl' = SV_CloseDownload(dl),
         \/ t.next = Files[p.file] + 1 /\ LastClosed(p.file)
         \/ gone /\ commands' = <<>>
  PROVE  DlTypes' /\ Server(t, q)' /\ \A g \in SentType : SentAt(g, p.file) => SentAt(g, t.file)'
<1>1. /\ dl' \in DlType /\ dl'.name = None /\ dl'.open = FALSE /\ dl'.broken = dl.broken
      /\ dl'.slots = dl.slots /\ dl'.current = dl.current /\ dl'.client = dl.client
      /\ dl'.xmit = dl.xmit /\ dl'.count = dl.count /\ dl'.eof = dl.eof
  <2>1. dl \in DlType /\ None \in 0 .. N
    BY Sizes DEF Types, DlTypes, None
  <2>2. dl' = [dl EXCEPT !.name = None, !.open = FALSE]
    BY DEF SV_CloseDownload
  <2>3. QED
    BY <2>1, <2>2 DEF DlType
<1>2. DlTypes'
  BY <1>1 DEF Types, DlTypes
<1>3. ~Waiting' /\ At' = At /\ Stale' = Stale /\ downloadBlock' = downloadBlock /\ gone' = gone
  BY <1>1, ClientStays DEF Waiting
<1>4. ServerAt(t)'
  <2>1. LastClosed(p.file) => LastClosed(t.file)'
    BY <1>1 DEF LastClosed
  <2>2. QED
    BY <1>1, <1>3, <2>1 DEF ServerAt
<1>5. ClientAhead(t.file)'
  BY <1>1, <1>3 DEF Server, ClientAhead, Unopened
<1>6. SameFile(t.file, q)' /\ NotYetOpened(t.file, q)'
  BY <1>1, <1>3 DEF Server, SameFile, NotYetOpened, Unopened
<1>7. \A g \in SentType : SentAt(g, p.file) => SentAt(g, t.file)'
  BY <1>1, <1>3 DEF SentAt
<1>8. QED
  BY <1>1, <1>2, <1>4, <1>5, <1>6, <1>7 DEF Server
\* The next block was acknowledged.
LEMMA ClientPosition ==
  ASSUME Types, NEW q \in PositionType, ClientAt(q)
  PROVE  /\ q.file \in Nat /\ q.file <= At /\ q.file # 0 /\ At <= q.file + 1
         /\ At = N + 1 => q.file = N
         /\ q.file = At => /\ downloading # None /\ downloading = q.file
                           /\ q.next = downloadBlock \/ (gone /\ q.next = downloadBlock + 1)
BY ClientFile, Sizes, PositionFields DEF ClientAt, None, File

LEMMA AcknowledgedWasRead ==
  ASSUME Types, NEW p \in PositionType, NEW t \in PositionType, NEW q \in PositionType,
         Server(p, q), ClientAt(q), dl.open, dl.client = p.next,
         t.file = p.file, t.next = p.next + 1, Before(t, q)
  PROVE  /\ dl.client < dl.current /\ dl.slots[Slot(dl.client)] = Datum(p.file, dl.client)
         /\ p.file \in File /\ dl.name = p.file
<1>1. /\ dl.current \in Nat /\ dl.client \in Nat /\ dl.xmit \in Nat /\ W \in Nat /\ W # 0
      /\ p.file \in Nat /\ p.next \in Nat /\ q.file \in Nat /\ q.next \in Nat /\ At \in Nat
      /\ downloadBlock \in Nat
  BY DlFields, Sizes, PositionFields, ClientFile DEF Types, DlTypes
<1>2. dl.name # None /\ dl.name = p.file /\ p.file # 0 /\ Window(dl, p.file) /\ Full(dl, p.file)
  BY DEF Server, ServerAt, Types, DlTypes, None
<1>3. p.file \in File /\ Files[p.file] \in Nat
  BY <1>2, PositionFields
<1>4. /\ dl.client <= Files[p.file] /\ dl.current <= Files[p.file] + 1
      /\ dl.current <= dl.client + W
      /\ dl.current >= W \/ dl.current = Files[p.file] + 1
  BY <1>2 DEF Window, Full
<1>5. p.file <= q.file /\ q.file <= At /\ (p.file = q.file => p.next + 1 <= q.next)
  BY ClientPosition DEF Before
<1>6. dl.client < dl.current
  <2>1. CASE p.file < At
    <3>1. Files[p.file] # 0 => dl.current = Files[p.file] + 1
      BY <1>2, <2>1 DEF Server, ClientAhead
    <3>2. QED
      BY <1>1, <1>3, <1>4, <3>1
  <2>2. CASE p.file = At
    <3>1. q.next <= dl.current \/ q.next <= W
      BY <2>2 DEF Server, SameFile
    <3>2. p.next + 1 <= q.next
      BY <1>1, <1>5, <2>2
    <3>3. QED
      BY <1>1, <1>3, <1>4, <3>1, <3>2
  <2>3. QED
    BY <1>1, <1>5, <2>1, <2>2
<1>7. dl.slots[Slot(dl.client)] = Datum(p.file, dl.client)
  <2>1. dl.client \in 0 .. dl.current - 1
    BY <1>1, <1>6
  <2>2. QED
    BY <1>2, <1>4, <2>1 DEF Window
<1>8. QED
  BY <1>2, <1>3, <1>6, <1>7

LEMMA ServerAdvances ==
  ASSUME Types, NEW p \in PositionType, NEW t \in PositionType, NEW q \in PositionType,
         Server(p, q), ClientAt(q), ~dl.broken, UNCHANGED cl, dl.open,
         t.file = p.file, t.next = p.next + 1, Before(t, q), p.file \in File,
         dl.client < Files[p.file], dl.client < dl.current,
         dl' = [dl EXCEPT !.client = @ + 1]
  PROVE  DlTypes' /\ Server(t, q)' /\ \A g \in SentType : SentAt(g, p.file) => SentAt(g, t.file)'
<1>1. /\ dl.current \in Nat /\ dl.client \in Nat /\ dl.xmit \in Nat /\ W \in Nat
      /\ p.next \in Nat /\ q.next \in Nat /\ At \in Nat /\ Files[p.file] \in Nat
      /\ dl \in DlType /\ dl.xmit <= dl.current /\ dl.name # None
  BY DlFields, Sizes, PositionFields, ClientFile DEF Types, DlTypes
<1>2. PICK client \in Nat : client = dl.client + 1
  BY <1>1
<1>3. dl' = [dl EXCEPT !.client = client]
  BY <1>2
<1>4. /\ dl' \in DlType /\ dl'.client = client
      /\ dl'.name = dl.name /\ dl'.open = dl.open /\ dl'.broken = dl.broken
      /\ dl'.slots = dl.slots /\ dl'.current = dl.current
      /\ dl'.xmit = dl.xmit /\ dl'.count = dl.count /\ dl'.eof = dl.eof
  BY <1>1, <1>3 DEF DlType
<1>5. DlTypes'
  BY <1>1, <1>2, <1>4 DEF DlTypes
<1>6. Waiting' = Waiting /\ ~Waiting /\ At' = At /\ Stale' = Stale
      /\ downloadBlock' = downloadBlock /\ gone' = gone
  BY <1>4, ClientStays DEF Waiting
<1>7. dl.name = p.file /\ Window(dl, p.file) /\ Full(dl, p.file) /\ dl.client = p.next
  BY <1>1 DEF Server, ServerAt
<1>8. ServerAt(t)'
  <2>1. client <= Files[p.file] /\ client <= dl.current /\ dl.current <= client + W /\ client = t.next
    BY <1>1, <1>2, <1>7 DEF Window
  <2>2. Window(dl, t.file)' /\ Full(dl, t.file)'
    BY <1>4, <1>7, <2>1 DEF Window, Full
  <2>3. QED
    BY <1>1, <1>4, <1>6, <1>7, <2>1, <2>2 DEF ServerAt
<1>9. ClientAhead(t.file)' /\ NotYetOpened(t.file, q)'
  BY <1>4, <1>6 DEF Server, ClientAhead, NotYetOpened, Unopened
<1>10. SameFile(t.file, q)'
  <2>1. SUFFICES ASSUME p.file = At
                 PROVE  /\ downloadBlock <= dl.xmit + W
                        /\ q.next <= dl.current \/ q.next <= W
                        /\ ~gone => client <= downloadBlock
    BY <1>4, <1>6 DEF SameFile
  <2>2. q.file = At /\ t.next <= q.next
    <3>1. q.file <= At /\ p.file <= q.file /\ q.file \in Nat
      BY ClientPosition DEF Before
    <3>2. q.file = At
      BY <1>1, <2>1, <3>1
    <3>3. QED
      BY <2>1, <3>2 DEF Before
  <2>3. ~gone => client <= downloadBlock
    BY <1>1, <1>2, <1>7, <2>2, ClientPosition
  <2>4. QED
    BY <2>1, <2>3 DEF Server, SameFile
<1>11. \A g \in SentType : SentAt(g, p.file) => SentAt(g, t.file)'
  BY <1>4, <1>6 DEF SentAt
<1>12. QED
  BY <1>4, <1>5, <1>6, <1>8, <1>9, <1>10, <1>11 DEF Server
\* nextdl: the client has written a block, or found that its file is complete.
LEMMA NextdlArrives ==
  ASSUME Types, StaleOnlyOfLast,
         NEW p \in PositionType, NEW t \in PositionType, NEW q \in PositionType,
         Server(p, q), ClientAt(q), ~dl.broken, UNCHANGED cl,
         NEW command, Leads(p, command, t), Before(p, q), Before(t, q),
         commands # <<>>, commands' = Tail(commands),
         Tail(commands) # <<>> => \E u \in PositionType : Leads(t, commands[2], u) /\ Before(u, q),
         command.name = "nextdl", dl' = SV_NextDownload_f(dl, command.arg)
  PROVE  DlTypes' /\ Server(t, q)' /\ \A g \in SentType : SentAt(g, p.file) => SentAt(g, t.file)'
<1>1. /\ p.file # 0 /\ p.file \in File /\ p.file \in Nat /\ p.next \in Nat /\ Files[p.file] \in Nat
      /\ command.arg = p.next /\ t.file = p.file /\ t.next = p.next + 1
      /\ t.file \in Nat /\ t.next \in Nat /\ q.file \in Nat /\ q.next \in Nat
  BY PositionFields DEF Leads
<1>2. At \in Nat /\ downloadBlock \in Nat /\ dl.client \in Nat
  BY ClientFile, DlFields DEF Types, DlTypes
<1>3. p.file <= q.file /\ q.file <= At /\ (t.file = q.file => t.next <= q.next)
  BY <1>1, ClientPosition DEF Before
<1>4. CASE dl.open
  <2>1. dl.client = p.next
    BY <1>4 DEF Server, ServerAt
  <2>2. dl.client < dl.current /\ dl.slots[Slot(dl.client)] = Datum(p.file, dl.client)
    BY <1>1, <1>4, <2>1, AcknowledgedWasRead
  <2>3. dl.client <= Files[p.file] /\ Slot(0) = 0
    BY <1>4, Places DEF Server, ServerAt, Window
  <2>4. CASE dl.client = Files[p.file]
    <3>1. dl.slots[Slot(dl.client)] = EOF
      BY <2>2, <2>4 DEF Datum
    <3>2. dl' = SV_CloseDownload(dl)
      BY <1>1, <2>1, <3>1 DEF SV_NextDownload_f
    <3>3. t.next = Files[p.file] + 1 /\ LastClosed(p.file)
      BY <1>1, <2>1, <2>3, <2>4, <3>1 DEF LastClosed
    <3>4. QED
      BY <1>1, <3>2, <3>3, ServerCloses
  <2>5. CASE dl.client < Files[p.file]
    <3>1. dl.slots[Slot(dl.client)] # EOF
      BY <1>1, <1>2, <2>2, <2>5, DatumType
    <3>2. dl' = [dl EXCEPT !.client = @ + 1]
      BY <1>1, <2>1, <3>1 DEF SV_NextDownload_f
    <3>3. QED
      BY <1>1, <1>4, <2>2, <2>5, <3>2, ServerAdvances
  <2>6. QED
    BY <1>1, <1>2, <2>3, <2>4, <2>5
<1>5. CASE Waiting
  <2>1. p.next = 0 /\ LastClosed(p.file - 1) /\ dl.name = p.file
    BY <1>5 DEF Server, ServerAt, Waiting
  <2>2. p.file < q.file \/ (p.file = q.file /\ q.next > 0)
    BY <1>1, <1>3, <2>1
  <2>3. (p.file = At /\ Stale) \/ (p.file > 1 /\ Files[p.file - 1] = 0)
    BY <1>1, <1>5, <2>2 DEF Server, NotYetOpened, Unopened
  <2>4. CASE p.file > 1 /\ Files[p.file - 1] = 0
    <3>1. dl.client = 0 /\ dl.slots[0] = EOF /\ Slot(0) = 0
      BY <1>1, <2>1, <2>4, Places DEF LastClosed
    <3>2. dl' = SV_CloseDownload(dl)
      BY <1>1, <2>1, <3>1 DEF SV_NextDownload_f
    <3>3. CASE Files[p.file] = 0
      <4>1. t.next = Files[p.file] + 1 /\ LastClosed(p.file)
        BY <1>1, <2>1, <3>1, <3>3 DEF LastClosed
      <4>2. QED
        BY <1>1, <3>2, <4>1, ServerCloses
    <3>4. CASE Files[p.file] # 0
      <4>1. p.file = At
        <5>1. ~(p.file < At)
          BY <1>5, <3>4 DEF Server, ClientAhead, Waiting
        <5>2. QED
          BY <1>1, <1>2, <1>3, <5>1
      <4>2. downloadBlock = 0
        <5>1. Unopened(p.file, At)
          BY <1>5, <4>1 DEF Unopened
        <5>2. ~Stale
          BY <2>4, <4>1 DEF StaleOnlyOfLast
        <5>3. QED
          BY <1>2, <5>1, <5>2 DEF Server, ClientAhead
      <4>3. q.file = p.file /\ q.next = 1 /\ gone
        <5>1. q.file = p.file
          BY <1>1, <1>2, <1>3, <4>1
        <5>2. q.next = 0 \/ (gone /\ q.next = 1)
          BY <4>1, <4>2, <5>1, ClientPosition
        <5>3. QED
          BY <1>1, <1>3, <2>1, <5>1, <5>2
      <4>4. ASSUME Tail(commands) # <<>>
            PROVE  FALSE
        <5>1. PICK u \in PositionType : Leads(t, commands[2], u) /\ Before(u, q)
          BY <4>4
        <5>2. \/ u.file = t.file /\ u.next = t.next + 1
              \/ u.file = t.file + 1
              \/ t.file = N /\ t.next = Files[t.file] + 1
          BY <5>1 DEF Leads
        <5>3. u.file <= q.file /\ (u.file = q.file => u.next <= q.next)
          BY <5>1 DEF Before
        <5>4. QED
          BY <1>1, <2>1, <3>4, <4>3, <5>2, <5>3
      <4>5. gone /\ commands' = <<>>
        BY <4>3, <4>4
      <4>6. QED
        BY <1>1, <3>2, <4>5, ServerCloses
    <3>5. QED
      BY <3>3, <3>4
  <2>5. CASE ~(p.file > 1 /\ Files[p.file - 1] = 0)
    <3>1. p.file = At /\ Stale
      BY <2>3, <2>5
    <3>2. p.file > 1 /\ Files[p.file - 1] > 0
      BY <3>1 DEF StaleOnlyOfLast
    <3>3. dl.client # 0
      BY <1>1, <2>1, <3>2 DEF LastClosed
    <3>4. dl' = [dl EXCEPT !.broken = TRUE]
      BY <1>1, <2>1, <3>3 DEF SV_NextDownload_f
    <3>5. QED
      BY <1>1, <3>1, <3>4, ServerBreaks
  <2>6. QED
    BY <2>4, <2>5
<1>6. CASE ~dl.open /\ ~Waiting
  <2>1. dl.name = None
    BY <1>6 DEF Waiting
  <2>2. CASE gone /\ commands = <<>>
    BY <2>2
  <2>3. CASE p.next = Files[p.file] + 1 /\ LastClosed(p.file)
    <3>1. dl.client = Files[p.file]
      BY <1>1, <2>3 DEF LastClosed
    <3>2. q.file = p.file /\ q.next >= Files[p.file] + 2
      BY <1>1, <1>3, <2>3 DEF Before
    <3>3. downloading # None /\ q.file = downloading /\ q.next <= downloadBlock + 1
      <4>1. downloading = None => q.next = Files[q.file] + 1
        BY DEF ClientAt
      <4>2. downloading # None
        BY <1>1, <3>2, <4>1
      <4>3. QED
        BY <1>2, <4>2 DEF ClientAt
    <3>4. Stale
      BY <1>1, <1>2, <3>2, <3>3 DEF StaleOnlyOfLast
    <3>5. dl' = [dl EXCEPT !.broken = TRUE]
      BY <1>1, <2>3, <3>1 DEF SV_NextDownload_f
    <3>6. QED
      BY <1>1, <3>4, <3>5, ServerBreaks
  <2>4. QED
    BY <1>1, <2>1, <2>2, <2>3 DEF Server, ServerAt
<1>7. QED
  BY <1>4, <1>5, <1>6
\* Where the last file was closed there is no other way on than to the next one.
LEMMA NothingOpen ==
  ASSUME Types, NEW p \in PositionType, NEW q \in PositionType, Server(p, q), ~dl.broken,
         commands # <<>>, p.file # 0 => p.next = Files[p.file] + 1
  PROVE  dl.name = None /\ ~dl.open /\ LastClosed(p.file)
<1>1. /\ p.next \in Nat /\ dl.open => dl.name # None
      /\ p.file # 0 => Files[p.file] \in Nat
      /\ dl.name # None => dl.name = p.file
  BY PositionFields DEF Types, DlTypes, Server, ServerAt
<1>2. ~dl.open
  <2>1. SUFFICES ASSUME dl.open PROVE FALSE
    OBVIOUS
  <2>2. p.file # 0 /\ dl.client = p.next /\ dl.client <= Files[p.file]
    BY <1>1, <2>1 DEF Server, ServerAt, Window, Types, DlTypes, None
  <2>3. QED
    BY <1>1, <2>2
<1>3. dl.name = None
  <2>1. SUFFICES ASSUME dl.name # None PROVE FALSE
    OBVIOUS
  <2>2. p.file # 0 /\ p.next = 0
    BY <1>1, <1>2, <2>1 DEF Server, ServerAt, Waiting, None
  <2>3. QED
    BY <1>1, <2>2
<1>4. LastClosed(p.file)
  BY <1>3 DEF Server, ServerAt, LastClosed
<1>5. QED
  BY <1>2, <1>3, <1>4

\* download: the client asks for the next file.
LEMMA DownloadArrives ==
  ASSUME Types, StaleOnlyOfLast,
         NEW p \in PositionType, NEW t \in PositionType, NEW q \in PositionType,
         Server(p, q), ClientAt(q), ~dl.broken, UNCHANGED cl,
         NEW command, Leads(p, command, t), Before(t, q), commands # <<>>,
         command.name = "download", dl' = SV_BeginDownload_f(dl, command.arg)
  PROVE  DlTypes' /\ Server(t, q)' /\ \A g \in SentType : SentAt(g, p.file) => SentAt(g, t.file)'
<1>1. /\ p.file \in Nat /\ command.arg = p.file + 1 /\ t.file = p.file + 1 /\ t.next = 0
      /\ p.file # 0 => p.next = Files[p.file] + 1
      /\ t.file \in 1 .. N /\ q.file \in Nat /\ t.file <= q.file /\ q.file <= At
  BY PositionFields, ClientPosition DEF Leads, Before
<1>2. At \in Nat /\ downloadBlock \in Nat /\ W \in Nat /\ W # 0 /\ \A f \in File : Files[f] \in Nat
  BY ClientFile, Sizes
<1>3. dl.name = None /\ ~dl.open /\ LastClosed(p.file)
  BY <1>1, NothingOpen
<1>4. /\ dl' \in DlType /\ dl'.name = t.file /\ dl'.open = FALSE /\ dl'.broken = dl.broken
      /\ dl'.slots = dl.slots /\ dl'.current = dl.current /\ dl'.client = dl.client
      /\ dl'.xmit = dl.xmit /\ dl'.count = dl.count /\ dl'.eof = dl.eof
  <2>1. dl' = [[dl EXCEPT !.name = None, !.open = FALSE] EXCEPT !.name = t.file]
    BY <1>1 DEF SV_BeginDownload_f, SV_CloseDownload
  <2>2. dl \in DlType /\ t.file \in 0 .. N /\ None \in 0 .. N
    BY <1>1, Sizes DEF Types, DlTypes, None
  <2>3. QED
    BY <2>1, <2>2 DEF DlType
<1>5. DlTypes' /\ Waiting' /\ ~Waiting
  BY <1>1, <1>3, <1>4 DEF Types, DlTypes, Waiting, None
<1>6. At' = At /\ Stale' = Stale /\ downloadBlock' = downloadBlock /\ gone' = gone
  BY ClientStays
<1>7. ServerAt(t)'
  <2>1. t.file - 1 = p.file
    BY <1>1
  <2>2. LastClosed(t.file - 1)'
    BY <1>3, <1>4, <2>1 DEF LastClosed
  <2>3. QED
    BY <1>1, <1>4, <1>5, <2>2 DEF ServerAt, None
<1>8. ClientAhead(t.file)'
  <2>1. \A f \in p.file + 1 .. At - 1 : Files[f] = 0
    BY DEF Server, ClientAhead
  <2>2. ASSUME NEW f \in t.file + 1 .. At - 1
        PROVE  Files[f] = 0 /\ Files[t.file] = 0
    <3>1. f \in p.file + 1 .. At - 1 /\ t.file \in p.file + 1 .. At - 1
      BY <1>1, <1>2
    <3>2. QED
      BY <2>1, <3>1
  <2>3. ASSUME t.file < At
        PROVE  Files[t.file] = 0 /\ downloadBlock = 0
    <3>1. t.file \in p.file + 1 .. At - 1 /\ At - 1 \in p.file + 1 .. At - 1 /\ At > p.file
      BY <1>1, <1>2, <2>3
    <3>2. Files[t.file] = 0 /\ Files[At - 1] = 0
      BY <2>1, <3>1
    <3>3. ~Stale
      BY <3>2 DEF StaleOnlyOfLast
    <3>4. QED
      BY <1>2, <3>1, <3>2, <3>3 DEF Server, ClientAhead, Unopened
  <2>4. Unopened(t.file, At)' /\ downloadBlock > 0 => Stale
    <3>1. At >= t.file /\ At > p.file
      BY <1>1, <1>2
    <3>2. QED
      BY <1>2, <3>1 DEF Server, ClientAhead, Unopened
  <2>5. ~(downloadBlock >= W)
    <3>1. p.file # At
      BY <1>1, <1>2
    <3>2. QED
      BY <3>1 DEF Server, ClientAhead
  <2>6. QED
    BY <1>2, <1>4, <1>6, <2>2, <2>3, <2>4, <2>5 DEF ClientAhead
<1>9. SameFile(t.file, q)'
  BY <1>4 DEF SameFile
<1>10. NotYetOpened(t.file, q)'
  <2>1. \A f \in File : Unopened(t.file, f)' => Unopened(p.file, f)
    BY <1>1, Sizes DEF Unopened, File
  <2>2. QED
    BY <1>6, <2>1 DEF Server, NotYetOpened
<1>11. \A g \in SentType : SentAt(g, p.file) => SentAt(g, t.file)'
  <2>1. SUFFICES ASSUME NEW g \in SentType, SentAt(g, p.file)
                 PROVE  g.file <= t.file /\ g.file < t.file
    BY <1>4 DEF SentAt
  <2>2. g.file <= p.file /\ g.file \in Nat
    BY <2>1, SentFields DEF SentAt
  <2>3. QED
    BY <1>1, <2>2
<1>12. QED
  BY <1>4, <1>5, <1>6, <1>7, <1>8, <1>9, <1>10, <1>11 DEF Server

\* stopdl and donedl: the client has all the files.
LEMMA EndArrives ==
  ASSUME Types, NEW p \in PositionType, NEW t \in PositionType, NEW q \in PositionType,
         Server(p, q), ~dl.broken, UNCHANGED cl,
         NEW command, Leads(p, command, t), commands # <<>>,
         command.name \in {"stopdl", "donedl"},
         dl' = SV_CloseDownload(dl) \/ dl' = dl
  PROVE  DlTypes' /\ Server(t, q)' /\ \A g \in SentType : SentAt(g, p.file) => SentAt(g, t.file)'
<1>1. t = p /\ p.next = Files[p.file] + 1 /\ p.file # 0
  BY Sizes DEF Leads
<1>2. dl.name = None /\ ~dl.open /\ LastClosed(p.file)
  BY <1>1, NothingOpen
<1>3. dl' = dl
  <2>1. dl \in DlType /\ dl.open = FALSE /\ dl.name = None
    BY <1>2 DEF Types, DlTypes, DlType
  <2>2. [dl EXCEPT !.name = None, !.open = FALSE] = dl
    BY <2>1 DEF DlType
  <2>3. QED
    BY <2>2 DEF SV_CloseDownload
<1>4. At' = At /\ Stale' = Stale /\ downloadBlock' = downloadBlock /\ gone' = gone
      /\ Waiting' = Waiting
  BY <1>3, ClientStays DEF Waiting
<1>5. DlTypes'
  BY <1>3 DEF Types, DlTypes
<1>6. ServerAt(t)'
  BY <1>1, <1>2, <1>3, <1>4 DEF ServerAt, LastClosed, Waiting
<1>7. ClientAhead(t.file)' /\ SameFile(t.file, q)' /\ NotYetOpened(t.file, q)'
  BY <1>1, <1>3, <1>4 DEF Server, ClientAhead, SameFile, NotYetOpened, Unopened
<1>8. \A g \in SentType : SentAt(g, p.file) => SentAt(g, t.file)'
  BY <1>1, <1>3, <1>4 DEF SentAt
<1>9. QED
  BY <1>3, <1>4, <1>5, <1>6, <1>7, <1>8 DEF Server
LEMMA CommandStep ==
  ASSUME IInv, SV_ClientCommand
  PROVE  IInv'
<1>1. PICK G \in Seq(SentType), T \in Seq(PositionType) : Agree(G, T)
  BY DEF IInv, Ghosts
<1>2. Types /\ StaleOnlyOfLast
  BY DEF IInv
<1>3. /\ commands # <<>> /\ ~dl.broken /\ commands' = Tail(commands)
      /\ UNCHANGED cl /\ blocks' = blocks
  BY DEF SV_ClientCommand
<1>4. Path(T, commands) /\ ClientAt(T[Len(T)]) /\ commands \in Seq(CommandType)
  BY <1>1, <1>2 DEF Agree, Types
<1>5. PICK p \in PositionType, t \in PositionType, q \in PositionType :
        p = T[1] /\ t = T[2] /\ q = T[Len(T)]
  BY <1>3, <1>4, PathShrinks
<1>6. /\ Tail(T) \in Seq(PositionType) /\ Path(Tail(T), Tail(commands))
      /\ Tail(T)[Len(Tail(T))] = q /\ Tail(T)[1] = t
      /\ Leads(p, Head(commands), t) /\ Before(p, q) /\ Before(t, q)
      /\ Tail(commands) # <<>> => \E u \in PositionType :
                                    Leads(t, commands[2], u) /\ Before(u, q)
  BY <1>3, <1>4, <1>5, PathShrinks
<1>7. Server(p, q) /\ ClientAt(q) /\ Flight(G, p.file)
  BY <1>1, <1>4, <1>5 DEF Agree
<1>8. PICK command \in CommandType : command = Head(commands)
  BY <1>3, <1>4, TailTyped
<1>9. Leads(p, command, t)
  BY <1>6, <1>8
<1>10. dl' = CASE command.name = "download" -> SV_BeginDownload_f(dl, command.arg)
               [] command.name = "nextdl" -> SV_NextDownload_f(dl, command.arg)
               [] command.name = "stopdl" -> SV_CloseDownload(dl)
               [] command.name = "donedl" -> dl
  BY <1>8 DEF SV_ClientCommand
<1>11. DlTypes' /\ Server(t, q)' /\ \A g \in SentType : SentAt(g, p.file) => SentAt(g, t.file)'
  <2>1. CASE command.name = "download"
    <3>1. dl' = SV_BeginDownload_f(dl, command.arg)
      BY <1>10, <2>1
    <3>2. QED
      BY <1>2, <1>3, <1>6, <1>7, <1>9, <2>1, <3>1, DownloadArrives
  <2>2. CASE command.name = "nextdl"
    <3>1. dl' = SV_NextDownload_f(dl, command.arg)
      BY <1>10, <2>2
    <3>2. QED
      BY <1>2, <1>3, <1>6, <1>7, <1>9, <2>2, <3>1, NextdlArrives
  <2>3. CASE command.name \in {"stopdl", "donedl"}
    <3>1. dl' = SV_CloseDownload(dl) \/ dl' = dl
      BY <1>10, <2>3
    <3>2. QED
      BY <1>2, <1>3, <1>7, <1>9, <2>3, <3>1, EndArrives
  <2>4. QED
    BY <1>8, <2>1, <2>2, <2>3 DEF CommandType
<1>12. Types' /\ StaleOnlyOfLast'
  <2>1. commands' \in Seq(CommandType)
    BY <1>3, <1>4, TailTyped
  <2>2. QED
    BY <1>2, <1>3, <1>11, <2>1, ClientStays DEF Types
<1>13. Flight(G, t.file)'
  <2>1. \A k \in 1 .. Len(G) : /\ G[k] \in SentType
                               /\ SentAs(blocks[k], G[k]) /\ NearClient(G[k])
                               /\ SentAt(G[k], p.file)
    BY <1>7 DEF Flight
  <2>2. ASSUME NEW k \in 1 .. Len(G)
        PROVE  SentAs(blocks[k], G[k])' /\ NearClient(G[k])' /\ SentAt(G[k], t.file)'
    <3>1. PICK g \in SentType : g = G[k]
      BY <2>1
    <3>2. SentAt(g, t.file)' /\ NearClient(g)'
      BY <1>3, <1>11, <2>1, <3>1, ClientStays
    <3>3. SentAs(blocks[k], G[k])'
      BY <1>3, <2>1, ClientStays DEF SentAs
    <3>4. QED
      BY <3>1, <3>2, <3>3
  <2>3. QED
    BY <1>3, <1>7, <2>2 DEF Flight
<1>14. Agree(G, Tail(T))'
  <2>1. Path(Tail(T), commands)' /\ ClientAt(q)'
    BY <1>3, <1>6, <1>7, ClientStays
  <2>2. QED
    BY <1>6, <1>11, <1>13, <2>1 DEF Agree
<1>15. QED
  BY <1>6, <1>12, <1>14 DEF IInv, Ghosts
-----------------------------------------------------------------------------
\* A block is sent.

\* What the server has in its hands, e, before it counts the block as sent.
LEMMA InHand ==
  ASSUME Types, NEW p \in PositionType, NEW q \in PositionType, Server(p, q),
         dl.name # None, ~dl.broken,
         NEW e, e = Resend(WithEOF(Read(Opened(dl)))), e.client # e.current
  PROVE  /\ p.file \in File /\ e \in DlType /\ Window(e, p.file) /\ Full(e, p.file)
         /\ e.name = p.file /\ e.open /\ ~e.broken /\ e.client = p.next /\ e.xmit < e.current
         /\ dl.open => dl.current <= e.current /\ e.client = dl.client
                       /\ e.xmit \in {dl.xmit, e.client}
         /\ ~dl.open => e.client = 0 /\ e.xmit = 0
<1> DEFINE d == Opened(dl)
<1>1. p.file \in File /\ dl.name = p.file /\ dl \in DlType /\ (dl.open => Window(dl, p.file))
  BY PositionFields DEF Types, DlTypes, Server, ServerAt, None
<1>2. /\ d \in DlType /\ Window(d, p.file) /\ d.name = p.file /\ d.open /\ d.broken = dl.broken
      /\ dl.open => d = dl
      /\ ~dl.open => d.client = 0 /\ d.xmit = 0
  BY <1>1, OpenedWindow
<1> HIDE DEF d
<1>3. e = Resend(WithEOF(Read(d)))
  BY DEF d
<1>4. /\ e \in DlType /\ Window(e, p.file) /\ Full(e, p.file) /\ d.current <= e.current
      /\ e.name = d.name /\ e.open = d.open /\ e.broken = d.broken /\ e.client = d.client
      /\ e.xmit = d.xmit \/ e.xmit = e.client
      /\ e.xmit < e.current
  BY <1>1, <1>2, <1>3, NextToSend
<1>5. e.client = p.next
  <2>1. dl.open => dl.client = p.next
    BY DEF Server, ServerAt
  <2>2. ~dl.open => p.next = 0
    BY DEF Server, ServerAt, Waiting
  <2>3. QED
    BY <1>2, <1>4, <2>1, <2>2
<1>6. QED
  BY <1>1, <1>2, <1>4, <1>5

LEMMA InHandNear ==
  ASSUME Types, NEW p \in PositionType, NEW q \in PositionType,
         Server(p, q), ClientAt(q), Before(p, q), dl.name # None, ~dl.broken,
         NEW e, e = Resend(WithEOF(Read(Opened(dl)))), e.client # e.current
  PROVE  /\ p.file <= At /\ NearClient([file |-> p.file, number |-> e.xmit])
         /\ p.file < At /\ Files[p.file] # 0 =>
              e.current = Files[p.file] + 1 /\ Files[p.file] < e.xmit + W
         /\ p.file = At => /\ downloadBlock <= e.xmit + W
                           /\ q.next <= e.current \/ q.next <= W
                           /\ ~gone => e.client <= downloadBlock
         /\ \A g \in SentType : SentAt(g, p.file) /\ g.file = p.file =>
              g.number < e.xmit + W /\ g.number < e.current
<1> DEFINE L == p.file
<1>1. /\ L \in File /\ e \in DlType /\ Window(e, L) /\ Full(e, L) /\ e.client = p.next
      /\ e.xmit < e.current
      /\ dl.open => dl.current <= e.current /\ e.client = dl.client
                    /\ e.xmit \in {dl.xmit, e.client}
      /\ ~dl.open => e.client = 0 /\ e.xmit = 0
  BY InHand
<1>2. /\ L \in Nat /\ p.next \in Nat /\ Files[L] \in Nat /\ W \in Nat /\ W # 0
      /\ At \in Nat /\ downloadBlock \in Nat /\ q.next \in Nat /\ q.file \in Nat
      /\ e.client \in Nat /\ e.current \in Nat /\ e.xmit \in Nat
      /\ dl.client \in Nat /\ dl.current \in Nat /\ dl.xmit \in Nat
  BY <1>1, PositionFields, ClientFile, DlFields, Sizes DEF Types, DlTypes
<1>3. L <= At /\ (L = At => q.file = At /\ downloading # None /\ q.next <= downloadBlock + 1
                            /\ downloadBlock <= q.next /\ (~gone => q.next = downloadBlock))
  <2>1. L <= q.file /\ q.file <= At
    BY ClientPosition DEF Before
  <2>2. L = At => q.file = At
    BY <1>2, <2>1
  <2>3. QED
    BY <1>2, <2>1, <2>2, ClientPosition
<1>4. e.client <= Files[L] /\ e.current <= Files[L] + 1 /\ e.current <= e.client + W
  BY <1>1 DEF Window
<1>5. ~dl.open => downloadBlock < W
  <2>1. ~dl.open => Waiting
    BY DEF Waiting
  <2>2. QED
    BY <1>2, <2>1 DEF Server, ClientAhead
<1>6. ASSUME L = At
      PROVE  /\ downloadBlock <= e.xmit + W
             /\ q.next <= e.current \/ q.next <= W
             /\ ~gone => e.client <= downloadBlock
  <2>1. CASE dl.open
    <3>1. /\ downloadBlock <= dl.xmit + W
          /\ q.next <= dl.current \/ q.next <= W
          /\ ~gone => dl.client <= downloadBlock
      BY <1>6, <2>1 DEF Server, SameFile
    <3>2. QED
      BY <1>1, <1>2, <1>3, <1>4, <1>6, <2>1, <3>1
  <2>2. CASE ~dl.open
    BY <1>1, <1>2, <1>3, <1>5, <1>6, <2>2
  <2>3. QED
    BY <2>1, <2>2
<1>7. ASSUME L < At
      PROVE  /\ Files[L] # 0 => dl.open /\ e.current = Files[L] + 1 /\ Files[L] < e.xmit + W
             /\ downloadBlock > 0 => Stale /\ downloadBlock <= Files[L] /\ Files[L] < W
  <2>1. /\ Files[L] # 0 => dl.open /\ dl.current = Files[L] + 1 /\ Files[L] < dl.xmit + W
        /\ downloadBlock > 0 => downloadBlock <= Files[L] /\ Files[L] < W
    BY <1>7 DEF Server, ClientAhead
  <2>2. downloadBlock > 0 => Stale
    BY <1>2, <1>7 DEF Server, ClientAhead, Unopened
  <2>3. QED
    BY <1>1, <1>2, <1>4, <2>1, <2>2
<1>8. NearClient([file |-> L, number |-> e.xmit])
  <2>1. L = At /\ ~gone => e.xmit < downloadBlock + W
    BY <1>1, <1>2, <1>4, <1>6
  <2>2. L < At /\ e.xmit = 0 => Files[L] < W
    BY <1>2, <1>7
  <2>3. \A f \in L + 1 .. At - 1 : Files[f] = 0 /\ Files[L] = 0
    BY DEF Server, ClientAhead
  <2> HIDE DEF L
  <2>4. QED
    BY <1>3, <1>6, <1>7, <2>1, <2>2, <2>3 DEF NearClient
<1>9. ASSUME NEW g \in SentType, SentAt(g, L), g.file = L
      PROVE  g.number < e.xmit + W /\ g.number < e.current
  <2>1. g.number \in Nat /\ g.file \in Nat
    BY SentFields
  <2>2. dl.open
    BY <1>2, <1>9 DEF SentAt, Waiting
  <2>3. g.number < dl.xmit + W /\ g.number < dl.current
    BY <1>9, <2>2 DEF SentAt
  <2>4. QED
    BY <1>1, <1>2, <1>4, <2>1, <2>2, <2>3
<1>10. QED
  BY <1>3, <1>6, <1>7, <1>8, <1>9
LEMMA MoreBlocks ==
  ASSUME Types, NEW L, NEW G \in Seq(SentType), Flight(G, L), UNCHANGED cl,
         NEW b \in BlockType, NEW g \in SentType, blocks' = Append(blocks, b),
         SentAs(b, g), NearClient(g), SentAt(g, L)',
         \A h \in SentType : SentAt(h, L) => InOrder(h, g) /\ SentAt(h, L)'
  PROVE  Append(G, g) \in Seq(SentType) /\ Flight(Append(G, g), L)'
<1> DEFINE H == Append(G, g)
<1>1. blocks \in Seq(BlockType) /\ Len(G) = Len(blocks) /\ Len(G) \in Nat
  BY DEF Types, Flight
<1>2. /\ H \in Seq(SentType) /\ Len(H) = Len(G) + 1 /\ H[Len(G) + 1] = g
      /\ \A k \in 1 .. Len(G) : H[k] = G[k] /\ G[k] \in SentType
  OBVIOUS
<1>3. /\ Len(blocks') = Len(G) + 1 /\ blocks'[Len(G) + 1] = b
      /\ \A k \in 1 .. Len(G) : blocks'[k] = blocks[k] /\ blocks[k] \in BlockType
  BY <1>1
<1> HIDE DEF H
<1>4. ASSUME NEW k \in 1 .. Len(G) + 1
      PROVE  SentAs(blocks[k], H[k])' /\ NearClient(H[k])' /\ SentAt(H[k], L)'
  <2>1. CASE k \in 1 .. Len(G)
    <3>1. PICK a \in BlockType, h \in SentType : a = blocks[k] /\ h = G[k]
      BY <1>2, <1>3, <2>1
    <3>2. SentAs(a, h) /\ NearClient(h) /\ SentAt(h, L)
      BY <2>1, <3>1, Zenon DEF Flight
    <3>3. SentAs(a, h)' /\ NearClient(h)' /\ SentAt(h, L)'
      BY <3>2, ClientStays
    <3>4. blocks'[k] = a /\ H[k] = h
      BY <1>2, <1>3, <2>1, <3>1
    <3>5. SentAs(blocks[k], H[k])'
      BY <3>3, <3>4 DEF SentAs
    <3>6. QED
      BY <3>3, <3>4, <3>5
  <2>2. CASE k = Len(G) + 1
    <3>1. blocks'[k] = b /\ H[k] = g
      BY <1>2, <1>3, <2>2
    <3>2. SentAs(b, g)' /\ NearClient(g)'
      BY ClientStays
    <3>3. SentAs(blocks[k], H[k])'
      BY <3>1, <3>2 DEF SentAs
    <3>4. QED
      BY <3>1, <3>2, <3>3
  <2>3. QED
    BY <1>1, <2>1, <2>2
<1>5. ASSUME NEW j \in 1 .. Len(G) + 1, NEW k \in 1 .. Len(G) + 1, j < k
      PROVE  InOrder(H[j], H[k])
  <2>1. j \in 1 .. Len(G) /\ H[j] = G[j] /\ G[j] \in SentType
    BY <1>1, <1>2, <1>5
  <2>2. CASE k \in 1 .. Len(G)
    <3>1. InOrder(G[j], G[k])
      BY <1>5, <2>1, <2>2, Zenon DEF Flight
    <3>2. QED
      BY <1>2, <2>1, <2>2, <3>1
  <2>3. CASE k = Len(G) + 1
    <3>1. SentAt(G[j], L)
      BY <2>1, Zenon DEF Flight
    <3>2. InOrder(G[j], g)
      BY <2>1, <3>1
    <3>3. QED
      BY <1>2, <2>1, <2>3, <3>2
  <2>4. QED
    BY <1>1, <2>2, <2>3
<1>6. Flight(H, L)'
  BY <1>1, <1>2, <1>3, <1>4, <1>5 DEF Flight
<1>7. QED
  BY <1>2, <1>6 DEF H

\* The block that is sent is that of its number, or has lost its place.
LEMMA InHandSentAs ==
  ASSUME NEW f \in File, NEW e \in DlType, Window(e, f), e.xmit < e.current,
         f = At /\ ~gone => e.client <= downloadBlock, downloadBlock \in Nat,
         NEW b, b = [block |-> e.xmit % BLOCK_WRAP, withSize |-> e.xmit = 0,
                     data |-> e.slots[Slot(e.xmit)]]
  PROVE  b \in BlockType /\ SentAs(b, [file |-> f, number |-> e.xmit])
<1>1. /\ e.xmit \in Nat /\ e.current \in Nat /\ e.client \in Nat /\ e.slots \in [Slots -> Data]
      /\ W \in Nat /\ Files[f] \in Nat
  BY DlFields, Sizes
<1>2. e.xmit % BLOCK_WRAP \in Nat
  <2>1. BLOCK_WRAP \in Nat \ {0} /\ e.xmit \in Int
    BY <1>1, Sizes
  <2>2. e.xmit % BLOCK_WRAP \in 0 .. BLOCK_WRAP - 1
    BY <2>1, ModRange
  <2>3. QED
    BY <2>1, <2>2
<1>3. Slot(e.xmit) \in Slots /\ e.slots[Slot(e.xmit)] \in Data
  BY <1>1, Places
<1>4. b \in BlockType
  BY <1>2, <1>3 DEF BlockType
<1>5. e.current <= Files[f] + 1 /\ e.current <= e.client + W
  BY DEF Window
<1>6. CASE e.current <= e.xmit + W
  <2>1. e.xmit \in 0 .. e.current - 1
    BY <1>1
  <2>2. e.slots[Slot(e.xmit)] = Datum(f, e.xmit)
    BY <1>6, <2>1 DEF Window
  <2>3. e.xmit <= Files[f]
    BY <1>1, <1>5
  <2>4. QED
    BY <1>4, <2>2, <2>3 DEF SentAs
<1>7. CASE e.xmit + W < e.current
  <2>1. e.xmit + W <= Files[f] /\ e.xmit <= Files[f] /\ e.xmit < e.client
    BY <1>1, <1>5, <1>7
  <2>2. f = At /\ ~gone => e.xmit < downloadBlock
    BY <1>1, <2>1
  <2>3. QED
    BY <1>4, <2>1, <2>2 DEF SentAs
<1>8. QED
  BY <1>1, <1>6, <1>7

LEMMA SendStep ==
  ASSUME IInv, SV_WriteDownloadToClient
  PROVE  IInv'
<1>1. PICK G \in Seq(SentType), T \in Seq(PositionType) : Agree(G, T)
  BY DEF IInv, Ghosts
<1>2. Types /\ StaleOnlyOfLast
  BY DEF IInv
<1>3. dl.name # None /\ ~dl.broken /\ UNCHANGED cl /\ commands' = commands
  BY DEF SV_WriteDownloadToClient
<1>4. PICK e : e = Resend(WithEOF(Read(Opened(dl))))
  OBVIOUS
<1>5. PICK b : b = [block |-> e.xmit % BLOCK_WRAP, withSize |-> e.xmit = 0,
                    data |-> e.slots[Slot(e.xmit)]]
  OBVIOUS
<1>6. e.client # e.current /\ blocks' = Append(blocks, b) /\ dl' = [e EXCEPT !.xmit = @ + 1]
  BY <1>4, <1>5 DEF SV_WriteDownloadToClient
<1>7. PICK p \in PositionType, q \in PositionType : p = T[1] /\ q = T[Len(T)] /\ Before(p, q)
  <2>1. Len(T) = Len(commands) + 1 /\ Len(commands) \in Nat
    BY <1>1, <1>2 DEF Agree, Path, Types
  <2>2. 1 \in 1 .. Len(T) /\ Len(T) \in 1 .. Len(T)
    BY <2>1
  <2>3. QED
    BY <1>1, <2>2 DEF Agree, Path
<1>8. Server(p, q) /\ ClientAt(q) /\ Flight(G, p.file)
  BY <1>1, <1>7 DEF Agree
<1>9. /\ p.file \in File /\ e \in DlType /\ Window(e, p.file) /\ Full(e, p.file)
      /\ e.name = p.file /\ e.open /\ ~e.broken /\ e.client = p.next /\ e.xmit < e.current
      /\ dl.open => dl.current <= e.current
  BY <1>2, <1>3, <1>4, <1>6, <1>8, InHand
<1>10. /\ p.file <= At /\ NearClient([file |-> p.file, number |-> e.xmit])
       /\ p.file < At /\ Files[p.file] # 0 =>
            e.current = Files[p.file] + 1 /\ Files[p.file] < e.xmit + W
       /\ p.file = At => /\ downloadBlock <= e.xmit + W
                         /\ q.next <= e.current \/ q.next <= W
                         /\ ~gone => e.client <= downloadBlock
       /\ \A g \in SentType : SentAt(g, p.file) /\ g.file = p.file =>
            g.number < e.xmit + W /\ g.number < e.current
  BY <1>2, <1>3, <1>4, <1>6, <1>7, <1>8, InHandNear
<1>11. /\ p.file \in Nat /\ p.file # 0 /\ Files[p.file] \in Nat /\ W \in Nat /\ W # 0
       /\ e.xmit \in Nat /\ e.current \in Nat /\ e.client \in Nat
       /\ At \in Nat /\ downloadBlock \in Nat /\ q.next \in Nat
  BY <1>2, <1>9, PositionFields, DlFields, ClientFile, Sizes DEF File
<1>12. PICK x \in Nat : x = e.xmit + 1
  BY <1>11
<1>13. /\ dl' \in DlType /\ dl'.xmit = x /\ dl'.current = e.current /\ dl'.client = e.client
       /\ dl'.name = p.file /\ dl'.open = TRUE /\ dl'.broken = FALSE
       /\ dl'.slots = e.slots /\ dl'.count = e.count /\ dl'.eof = e.eof
  <2>1. dl' = [e EXCEPT !.xmit = x]
    BY <1>6, <1>12
  <2>2. e.open = TRUE /\ e.broken = FALSE
    BY <1>9, DlFields
  <2>3. QED
    BY <1>9, <2>1, <2>2 DEF DlType
<1>14. ~Waiting' /\ At' = At /\ Stale' = Stale /\ downloadBlock' = downloadBlock /\ gone' = gone
  BY <1>3, <1>13, ClientStays DEF Waiting
<1>15. PICK g \in SentType : g = [file |-> p.file, number |-> e.xmit]
  BY <1>9, <1>11 DEF SentType
<1>16. g.file = p.file /\ g.number = e.xmit
  BY <1>15
<1>17. b \in BlockType /\ SentAs(b, g) /\ NearClient(g)
  BY <1>5, <1>9, <1>10, <1>11, <1>15, InHandSentAs
<1>18. SentAt(g, p.file)'
  BY <1>9, <1>11, <1>12, <1>13, <1>14, <1>16 DEF SentAt
<1>19. ASSUME NEW h \in SentType, SentAt(h, p.file)
       PROVE  InOrder(h, g) /\ SentAt(h, p.file)'
  <2>1. h.file <= p.file /\ h.file \in Nat /\ h.number \in Nat
    BY <1>19, SentFields DEF SentAt
  <2>2. h.file = p.file => h.number < e.xmit + W /\ h.number < e.current
    BY <1>10, <1>19
  <2>3. InOrder(h, g)
    BY <1>16, <2>1, <2>2 DEF InOrder
  <2>4. h.file = p.file => h.number < x + W
    BY <1>11, <1>12, <2>1, <2>2
  <2>5. SentAt(h, p.file)'
    BY <1>13, <1>14, <2>1, <2>2, <2>4 DEF SentAt
  <2>6. QED
    BY <2>3, <2>5
<1>20. Append(G, g) \in Seq(SentType) /\ Flight(Append(G, g), p.file)'
  BY <1>2, <1>3, <1>6, <1>8, <1>17, <1>18, <1>19, MoreBlocks
<1>21. ServerAt(p)'
  <2>1. x <= e.current
    BY <1>9, <1>11, <1>12
  <2>2. Window(dl, p.file)' /\ Full(dl, p.file)'
    BY <1>9, <1>13, <2>1 DEF Window, Full
  <2>3. QED
    BY <1>9, <1>11, <1>13, <1>14, <2>2 DEF ServerAt, None
<1>22. ClientAhead(p.file)'
  <2>1. \A f \in p.file + 1 .. At - 1 : Files[f] = 0 /\ Files[p.file] = 0
    BY <1>3, <1>8 DEF Server, ClientAhead
  <2>2. p.file < At => /\ Files[p.file] # 0 => e.current = Files[p.file] + 1 /\ Files[p.file] < x + W
                       /\ downloadBlock > 0 => downloadBlock <= Files[p.file] /\ Files[p.file] < W
    BY <1>3, <1>8, <1>10, <1>11, <1>12 DEF Server, ClientAhead
  <2>3. At > p.file /\ downloadBlock > 0 => Stale
    BY <1>8 DEF Server, ClientAhead, Unopened
  <2>4. downloadBlock >= W => p.file = At
    BY <1>8 DEF Server, ClientAhead
  <2>5. QED
    BY <1>13, <1>14, <2>1, <2>2, <2>3, <2>4 DEF ClientAhead, Unopened
<1>23. SameFile(p.file, q)'
  <2>1. p.file = At => downloadBlock <= x + W
    BY <1>10, <1>11, <1>12
  <2>2. QED
    BY <1>10, <1>13, <1>14, <2>1 DEF SameFile
<1>24. NotYetOpened(p.file, q)'
  BY <1>8, <1>14 DEF Server, NotYetOpened, Unopened
<1>25. Server(p, q)'
  BY <1>13, <1>21, <1>22, <1>23, <1>24 DEF Server
<1>26. Types' /\ StaleOnlyOfLast'
  <2>1. DlTypes'
    BY <1>9, <1>11, <1>12, <1>13 DEF DlTypes, Window, None
  <2>2. blocks' \in Seq(BlockType)
    BY <1>2, <1>6, <1>17 DEF Types
  <2>3. QED
    BY <1>2, <1>3, <2>1, <2>2, ClientStays DEF Types
<1>27. Agree(Append(G, g), T)'
  <2>1. Path(T, commands)' /\ ClientAt(T[Len(T)])'
    BY <1>1, <1>3, ClientStays DEF Agree
  <2>2. QED
    BY <1>7, <1>20, <1>25, <2>1 DEF Agree
<1>28. QED
  BY <1>20, <1>26, <1>27 DEF IInv, Ghosts
-----------------------------------------------------------------------------
\* A block arrives.  The command that answers it leads to where the client is then.

\* The commands under way lead from position p to the client's.
Reached(p) == \E S \in Seq(PositionType) :
                /\ Path(S, commands) /\ S[1] = p
                /\ ClientAt(S[Len(S)]) /\ Server(p, S[Len(S)])

\* Block m, which was sent as g, arrives at a client at position q; the server is
\* at position p.
Arriving(T, p, q, m, g) ==
  /\ Types /\ StaleOnlyOfLast /\ ~gone
  /\ Path(T, commands) /\ p = T[1] /\ q = T[Len(T)] /\ Before(p, q)
  /\ ClientAt(q) /\ Server(p, q)
  /\ SentAs(m, g) /\ NearClient(g) /\ SentAt(g, p.file)

LEMMA ReachedByOneMore ==
  ASSUME NEW T \in Seq(PositionType), NEW p, NEW q \in PositionType, Path(T, commands),
         p = T[1], q = T[Len(T)], commands \in Seq(CommandType),
         NEW command \in CommandType, NEW t \in PositionType, Leads(q, command, t),
         commands' = Append(commands, command), ClientAt(t)', Server(p, t)'
  PROVE  Reached(p)'
<1> DEFINE S == Append(T, t)
<1>1. S \in Seq(PositionType) /\ Path(S, Append(commands, command)) /\ S[1] = p /\ S[Len(S)] = t
  BY PathGrows
<1> HIDE DEF S
<1>2. Path(S, commands)' /\ ClientAt(S[Len(S)])' /\ Server(p, S[Len(S)])'
  BY <1>1
<1>3. QED
  BY <1>1, <1>2 DEF Reached

\* A client that is gone, or has all the files, writes nothing; nor does one that
\* expects another block.
LEMMA NothingWritten ==
  ASSUME NEW T \in Seq(PositionType), NEW p \in PositionType, NEW q \in PositionType,
         NEW m \in BlockType, NEW g \in SentType, Arriving(T, p, q, m, g),
         dl' = dl, blocks' = Tail(blocks), blocks # <<>>,
         UNCHANGED <<downloading, downloadBlock, written, completed>>,
         \/ commands' = commands /\ gone' \in BOOLEAN
         \/ /\ commands' = Append(commands, [name |-> "stopdl", arg |-> 0])
            /\ downloading = None /\ gone' = gone
  PROVE  /\ Types' /\ StaleOnlyOfLast' /\ Reached(p)'
         /\ \A b, h : SentAs(b, h) /\ NearClient(h) => SentAs(b, h)' /\ NearClient(h)'
<1>1. /\ Types /\ StaleOnlyOfLast /\ ~gone /\ Path(T, commands) /\ p = T[1] /\ q = T[Len(T)]
      /\ ClientAt(q) /\ Server(p, q)
  BY DEF Arriving
<1>2. At' = At /\ Stale' = Stale /\ Waiting' = Waiting
  BY DEF At, Stale, Waiting
<1>3. StaleOnlyOfLast'
  BY <1>1, <1>2 DEF StaleOnlyOfLast
<1>4. \A b, h : SentAs(b, h) /\ NearClient(h) => SentAs(b, h)' /\ NearClient(h)'
  BY <1>1, <1>2 DEF SentAs, NearClient
<1>5. ClientAt(q)'
  BY <1>1 DEF ClientAt
<1>6. Server(p, q)'
  <2>1. ServerAt(p)'
    BY <1>1, <1>2 DEF Server, ServerAt, LastClosed
  <2>2. ClientAhead(p.file)' /\ SameFile(p.file, q)' /\ NotYetOpened(p.file, q)'
    BY <1>1, <1>2 DEF Server, ClientAhead, SameFile, NotYetOpened, Unopened
  <2>3. QED
    BY <1>1, <1>2, <2>1, <2>2 DEF Server
<1>7. blocks' \in Seq(BlockType)
  BY <1>1, TailTyped DEF Types
<1>8. CASE commands' = commands /\ gone' \in BOOLEAN
  <2>1. Path(T, commands)'
    BY <1>1, <1>8
  <2>2. Reached(p)'
    BY <1>1, <1>5, <1>6, <2>1 DEF Reached
  <2>3. Types'
    BY <1>1, <1>2, <1>7, <1>8 DEF Types, DlTypes
  <2>4. QED
    BY <1>3, <1>4, <2>2, <2>3
<1>9. CASE /\ commands' = Append(commands, [name |-> "stopdl", arg |-> 0])
           /\ downloading = None /\ gone' = gone
  <2>1. PICK command \in CommandType : command = [name |-> "stopdl", arg |-> 0]
    BY DEF CommandType
  <2>2. Leads(q, command, q)
    <3>1. q = [file |-> N, next |-> Files[N] + 1]
      BY <1>1, <1>9 DEF ClientAt
    <3>2. q.file = N /\ q.next = Files[N] + 1
      BY <3>1
    <3>3. QED
      BY <2>1, <3>2 DEF Leads
  <2>3. commands \in Seq(CommandType) /\ commands' = Append(commands, command)
    BY <1>1, <1>9, <2>1 DEF Types
  <2>4. Reached(p)'
    BY <1>1, <1>5, <1>6, <2>2, <2>3, ReachedByOneMore
  <2>5. commands' \in Seq(CommandType)
    BY <2>3
  <2>6. Types'
    BY <1>1, <1>2, <1>7, <1>9, <2>5 DEF Types, DlTypes
  <2>7. QED
    BY <1>3, <1>4, <2>4, <2>6
<1>10. QED
  BY <1>8, <1>9
\* What is written is the expected block of the client's file, or of the one before.
LEMMA DataFits ==
  ASSUME Types, NEW m \in BlockType, NEW g \in SentType, SentAs(m, g), NearClient(g),
         ~gone, downloading # None, ~Misread(m), Expected(m), m.data # EOF
  PROVE  /\ m.data = <<g.file, downloadBlock>> /\ m.data \in File \X Nat
         /\ g.number = downloadBlock /\ downloadBlock < Files[g.file] /\ g.file <= At
         /\ g.file < At => /\ g.file = At - 1 /\ Files[g.file] < W
                           /\ downloadBlock > 0 => Stale
<1>1. Fitting(m, g)
  BY ExpectedFits
<1>2. /\ g.file \in File /\ g.file \in Nat /\ g.number \in Nat /\ Files[g.file] \in Nat
      /\ downloadBlock \in Nat /\ At \in Nat
  BY SentFields, ClientFile
<1>3. downloadBlock # Files[g.file] /\ m.data = <<g.file, downloadBlock>>
  BY <1>1 DEF Fitting, Datum
<1>4. downloadBlock < Files[g.file]
  BY <1>1, <1>2, <1>3 DEF Fitting
<1>5. g.file <= At
  BY DEF NearClient
<1>6. g.file < At => g.file = At - 1
  <2>1. SUFFICES ASSUME g.file < At, g.file # At - 1 PROVE FALSE
    OBVIOUS
  <2>2. At - 1 \in g.file + 1 .. At - 1
    BY <1>2, <2>1
  <2>3. Files[g.file] = 0
    BY <2>2 DEF NearClient
  <2>4. QED
    BY <1>2, <1>4, <2>3
<1>7. QED
  BY <1>1, <1>2, <1>3, <1>4, <1>5, <1>6 DEF Fitting

\* A file on the way to be file d has a block of another.
OtherIn(w, d) == \E k \in DOMAIN w : w[k][1] # d

\* v is w with block i of file f behind it.
OneMore(v, w, f, i, d) ==
  /\ v \in Seq(File \X Nat) /\ Len(v) = Len(w) + 1
  /\ OtherIn(v, d) <=> OtherIn(w, d) \/ f # d
  /\ \A k \in DOMAIN v : (k \in DOMAIN w /\ v[k] = w[k]) \/ (k = Len(w) + 1 /\ v[k] = <<f, i>>)

LEMMA OneMoreWritten ==
  ASSUME NEW w \in Seq(File \X Nat), NEW f \in File, NEW i \in Nat, NEW d
  PROVE  OneMore(Append(w, <<f, i>>), w, f, i, d)
<1> DEFINE a == <<f, i>>
           v == Append(w, a)
<1>1. a \in File \X Nat /\ a[1] = f
  OBVIOUS
<1> HIDE DEF a
<1>2. /\ v \in Seq(File \X Nat) /\ Len(v) = Len(w) + 1 /\ Len(w) \in Nat
      /\ DOMAIN v = 1 .. Len(w) + 1 /\ DOMAIN w = 1 .. Len(w)
      /\ v[Len(w) + 1] = a /\ \A k \in 1 .. Len(w) : v[k] = w[k]
  BY <1>1
<1> HIDE DEF v
<1>3. \A k \in DOMAIN v : (k \in DOMAIN w /\ v[k] = w[k]) \/ (k = Len(w) + 1 /\ v[k] = a)
  BY <1>2
<1>4. DOMAIN w \subseteq DOMAIN v /\ Len(w) + 1 \in DOMAIN v /\ v[Len(w) + 1][1] = f
      /\ \A k \in DOMAIN w : v[k] = w[k]
  BY <1>1, <1>2
<1>5. OtherIn(v, d) <=> OtherIn(w, d) \/ f # d
  BY <1>1, <1>3, <1>4 DEF OtherIn
<1>6. QED
  BY <1>2, <1>3, <1>5 DEF v, a, OneMore

LEMMA DataWritten ==
  ASSUME NEW T \in Seq(PositionType), NEW p \in PositionType, NEW q \in PositionType,
         NEW m \in BlockType, NEW g \in SentType, Arriving(T, p, q, m, g),
         dl' = dl, blocks' = Tail(blocks), blocks # <<>>,
         downloading # None, ~Misread(m), Expected(m), m.data # EOF,
         written' = Append(written, m.data), downloadBlock' = downloadBlock + 1,
         commands' = Append(commands, NextDownload), UNCHANGED <<downloading, completed, gone>>
  PROVE  /\ Types' /\ StaleOnlyOfLast' /\ Reached(p)'
         /\ \A b \in BlockType, h \in SentType :
              InOrder(g, h) /\ SentAs(b, h) /\ NearClient(h) => SentAs(b, h)' /\ NearClient(h)'
<1> DEFINE n == downloadBlock
<1>1. /\ Types /\ StaleOnlyOfLast /\ ~gone /\ Path(T, commands) /\ p = T[1] /\ q = T[Len(T)]
      /\ Before(p, q) /\ ClientAt(q) /\ Server(p, q)
      /\ SentAs(m, g) /\ NearClient(g) /\ SentAt(g, p.file)
  BY DEF Arriving
<1>2. /\ m.data = <<g.file, n>> /\ m.data \in File \X Nat
      /\ g.number = n /\ n < Files[g.file] /\ g.file <= At
      /\ g.file < At => g.file = At - 1 /\ Files[g.file] < W /\ (n > 0 => Stale)
  BY <1>1, DataFits
<1>3. /\ g.file \in File /\ g.file \in Nat /\ Files[g.file] \in Nat /\ n \in Nat /\ At \in Nat
      /\ W \in Nat /\ W # 0 /\ At = downloading /\ downloading \in File /\ At # 0
      /\ p.file \in Nat /\ q.file \in Nat /\ q.next \in Nat
  BY <1>1, SentFields, ClientFile, PositionFields, Sizes DEF None
<1>4. /\ written \in Seq(File \X Nat) /\ Len(written) = n
      /\ \A i \in DOMAIN written : written[i][2] = i - 1
  BY <1>1 DEF Types
<1>5. /\ written' \in Seq(File \X Nat) /\ Len(written') = n + 1
      /\ \A i \in DOMAIN written' : written'[i][2] = i - 1
      /\ Stale' <=> Stale \/ g.file # At
  <2>1. written' = Append(written, <<g.file, n>>)
    BY <1>2
  <2>2. /\ written' \in Seq(File \X Nat) /\ Len(written') = Len(written) + 1
        /\ OtherIn(written', downloading) <=> OtherIn(written, downloading) \/ g.file # downloading
        /\ \A k \in DOMAIN written' : \/ k \in DOMAIN written /\ written'[k] = written[k]
                                      \/ k = Len(written) + 1 /\ written'[k] = <<g.file, n>>
    <3>1. n \in Nat /\ g.file \in File /\ written \in Seq(File \X Nat)
      BY <1>3, <1>4
    <3> HIDE DEF n
    <3>2. OneMore(Append(written, <<g.file, n>>), written, g.file, n, downloading)
      BY <3>1, OneMoreWritten
    <3>3. \A v : v = Append(written, <<g.file, n>>) => OneMore(v, written, g.file, n, downloading)
      BY <3>2
    <3>4. QED
      BY <2>1, <3>3 DEF OneMore
  <2>3. ASSUME NEW i \in DOMAIN written' PROVE written'[i][2] = i - 1
    <3>1. CASE i \in DOMAIN written /\ written'[i] = written[i]
      BY <1>4, <3>1
    <3>2. CASE i = Len(written) + 1 /\ written'[i] = <<g.file, n>>
      <4>1. written'[i][2] = n
        BY <3>2
      <4>2. QED
        BY <1>3, <1>4, <3>2, <4>1
    <3>3. QED
      BY <2>2, <3>1, <3>2
  <2>4. QED
    BY <1>3, <1>4, <2>2, <2>3 DEF Stale, OtherIn
<1>6. At' = At /\ Waiting' = Waiting
  BY DEF At, Waiting
<1>7. q.file = At /\ q.next = n
  BY <1>1, <1>3 DEF ClientAt
<1>8. PICK command \in CommandType : command = NextDownload
  BY <1>3 DEF CommandType, NextDownload
<1>9. PICK t \in PositionType : t = [file |-> q.file, next |-> q.next + 1]
  <2>1. q.file \in 0 .. N /\ q.next + 1 \in Nat
    BY <1>3, PositionFields
  <2>2. QED
    BY <2>1 DEF PositionType
<1>10. Leads(q, command, t) /\ t.file = At /\ t.next = n + 1
  BY <1>3, <1>7, <1>8, <1>9 DEF Leads, NextDownload
<1>11. commands' = Append(commands, command) /\ commands \in Seq(CommandType)
  BY <1>1, <1>8 DEF Types
<1>12. ClientAt(t)'
  BY <1>3, <1>10 DEF ClientAt
<1>13. StaleOnlyOfLast'
  <2>1. CASE g.file = At
    BY <1>1, <1>2, <1>3, <1>5, <1>6, <2>1 DEF StaleOnlyOfLast
  <2>2. CASE g.file < At
    <3>1. g.file = At - 1 /\ Files[At - 1] > 0 /\ At > 1 /\ Stale'
      <4>1. g.file = At - 1 /\ g.file # At /\ n < Files[g.file]
        BY <1>2, <1>3, <2>2
      <4>2. Stale' /\ g.file >= 1
        BY <1>3, <1>5, <4>1 DEF File
      <4> HIDE DEF n
      <4>3. QED
        BY <1>3, <4>1, <4>2
    <3>2. QED
      BY <1>3, <1>6, <3>1 DEF StaleOnlyOfLast
  <2>3. QED
    BY <1>2, <1>3, <2>1, <2>2
<1>14. Types'
  <2>1. blocks' \in Seq(BlockType) /\ commands' \in Seq(CommandType)
    BY <1>1, <1>11, TailTyped DEF Types
  <2>2. n + 1 \in Nat
    BY <1>3
  <2>3. completed' = At' - 1 /\ downloading' # None
    BY <1>1, <1>6 DEF Types
  <2>4. QED
    BY <1>1, <1>5, <2>1, <2>2, <2>3 DEF Types, DlTypes
<1>15. ASSUME NEW b \in BlockType, NEW h \in SentType,
              InOrder(g, h), SentAs(b, h), NearClient(h)
       PROVE  SentAs(b, h)' /\ NearClient(h)'
  <2>1. h.file \in Nat /\ h.number \in Nat /\ Files[h.file] \in Nat
    BY SentFields
  <2>2. SentAs(b, h)'
    <3>1. h.number < n => h.number < n + 1
      BY <1>3, <2>1
    <3>2. QED
      BY <1>6, <1>15, <3>1 DEF SentAs
  <2>3. h.file <= At /\ g.file <= h.file /\ (h.file = g.file => n < h.number + W)
    BY <1>2, <1>15 DEF NearClient, InOrder
  <2>4. h.file = At => n + 1 <= h.number + W /\ h.number < (n + 1) + W
    <3>1. SUFFICES ASSUME h.file = At
                   PROVE  n + 1 <= h.number + W /\ h.number < (n + 1) + W
      OBVIOUS
    <3>2. h.number < n + W
      BY <1>1, <1>15, <3>1 DEF NearClient
    <3>3. n + 1 <= h.number + W
      <4>1. n < W \/ n < h.number + W
        BY <1>2, <1>3, <2>1, <2>3, <3>1
      <4> HIDE DEF n
      <4>2. QED
        BY <1>3, <2>1, <4>1
    <3>4. QED
      BY <1>3, <2>1, <3>2, <3>3
  <2>5. h.file < At => Stale' /\ n + 1 <= Files[h.file] /\ Files[h.file] < W
    <3>1. SUFFICES ASSUME h.file < At
                   PROVE  Stale' /\ n + 1 <= Files[h.file] /\ Files[h.file] < W
      OBVIOUS
    <3>2. h.file = g.file /\ g.file < At
      BY <1>2, <1>3, <2>1, <2>3, <3>1
    <3>3. QED
      BY <1>2, <1>3, <1>5, <3>2
  <2>6. NearClient(h)'
    BY <1>6, <1>15, <2>3, <2>4, <2>5 DEF NearClient
  <2>7. QED
    BY <2>2, <2>6
<1>16. g.file <= p.file /\ p.file <= At /\ (Waiting => g.file < p.file)
  <2>1. p.file <= q.file
    BY <1>1 DEF Before
  <2>2. QED
    BY <1>1, <1>7, <2>1 DEF SentAt
<1>17. Server(p, t)'
  <2>1. ServerAt(p)'
    <3>1. ~(p.file = 0)
      BY <1>3, <1>16, Sizes DEF File
    <3>2. QED
      BY <1>1, <1>6, <3>1 DEF Server, ServerAt, LastClosed
  <2>2. ClientAhead(p.file)'
    <3>1. p.file < At => g.file = p.file
      BY <1>2, <1>3, <1>16
    <3>2. p.file < At => n + 1 <= Files[p.file] /\ Files[p.file] < W
      BY <1>2, <1>3, <3>1
    <3>3. Unopened(p.file, At) => Stale'
      BY <1>3, <1>5, <1>16 DEF Unopened
    <3>4. n + 1 >= W => p.file = At /\ ~Waiting
      <4>1. g.file < At => n + 1 < W
        BY <1>2, <1>3
      <4>2. g.file \in Nat /\ At \in Nat /\ p.file \in Nat /\ n + 1 \in Nat /\ W \in Nat
        BY <1>3
      <4> HIDE DEF n
      <4>3. QED
        BY <1>16, <4>1, <4>2
    <3>5. \A f \in p.file + 1 .. At - 1 : Files[f] = 0 /\ (dl.name # None => Files[p.file] = 0)
      BY <1>1 DEF Server, ClientAhead
    <3>6. dl.name # None /\ p.file < At =>
            (Files[p.file] # 0 => dl.open /\ dl.current = Files[p.file] + 1
                                          /\ Files[p.file] < dl.xmit + W)
      BY <1>1 DEF Server, ClientAhead
    <3>7. QED
      BY <1>6, <3>2, <3>3, <3>4, <3>5, <3>6 DEF ClientAhead, Unopened
  <2>3. SameFile(p.file, t)'
    <3>1. SUFFICES ASSUME dl.open, p.file = At
                   PROVE  /\ n + 1 <= dl.xmit + W
                          /\ n + 1 <= dl.current \/ n + 1 <= W
                          /\ dl.client <= n + 1
      BY <1>6, <1>10 DEF SameFile
    <3>2. dl.xmit \in Nat /\ dl.current \in Nat /\ dl.client \in Nat
      BY <1>1, DlFields DEF Types, DlTypes
    <3>3. dl.client <= n
      BY <1>1, <3>1 DEF Server, SameFile
    <3>4. g.file = At => n < dl.xmit + W /\ n < dl.current
      BY <1>1, <1>2, <3>1 DEF SentAt
    <3>5. n < W \/ (n < dl.xmit + W /\ n < dl.current)
      BY <1>2, <1>3, <3>4
    <3>6. n \in Nat /\ W \in Nat
      BY <1>3
    <3> HIDE DEF n
    <3>7. n + 1 <= W \/ (n + 1 <= dl.xmit + W /\ n + 1 <= dl.current)
      BY <3>2, <3>5, <3>6
    <3>8. QED
      BY <3>2, <3>3, <3>6, <3>7
  <2>4. NotYetOpened(p.file, t)'
    <3>1. SUFFICES ASSUME NEW f \in File, Unopened(p.file, f), f < At \/ f = At
                   PROVE  (f = At /\ Stale') \/ (f > 1 /\ Files[f - 1] = 0)
      BY <1>6, <1>10 DEF NotYetOpened, Unopened
    <3>2. CASE f < At
      <4>1. (f = At /\ Stale) \/ (f > 1 /\ Files[f - 1] = 0)
        BY <1>1, <1>7, <3>1, <3>2 DEF Server, NotYetOpened
      <4>2. QED
        BY <1>5, <4>1
    <3>3. CASE f = At
      <4>1. g.file < At
        BY <1>3, <1>16, <3>1, <3>3 DEF Unopened
      <4>2. QED
        BY <1>3, <1>5, <3>3, <4>1
    <3>4. QED
      BY <3>1, <3>2, <3>3
  <2>5. QED
    BY <1>1, <1>5, <2>1, <2>2, <2>3, <2>4 DEF Server
<1>18. Reached(p)'
  BY <1>1, <1>10, <1>11, <1>12, <1>17, ReachedByOneMore
<1>19. QED
  BY <1>13, <1>14, <1>15, <1>18
\* The empty block of the client's file, or of a smaller one before it.
LEMMA EndFits ==
  ASSUME Types, NEW m \in BlockType, NEW g \in SentType, SentAs(m, g), NearClient(g),
         ~gone, downloading # None, ~Misread(m), Expected(m), m.data = EOF
  PROVE  /\ g.number = downloadBlock /\ downloadBlock = Files[g.file] /\ g.file <= At
         /\ g.file < At => Files[g.file] < W /\ (downloadBlock > 0 => Stale)
         /\ g.file < At /\ downloadBlock = 0 =>
              /\ At > 1 /\ Files[At - 1] = 0
              /\ \A f \in g.file .. At - 1 : Files[f] = 0
<1>1. Fitting(m, g)
  BY ExpectedFits
<1>2. /\ g.file \in File /\ g.file \in Nat /\ g.number \in Nat /\ Files[g.file] \in Nat
      /\ downloadBlock \in Nat /\ At \in Nat /\ g.file # 0
  BY SentFields, ClientFile DEF File
<1>3. downloadBlock = Files[g.file]
  <2>1. Datum(g.file, downloadBlock) = EOF
    BY <1>1 DEF Fitting
  <2>2. QED
    BY <1>2, <2>1, DatumType
<1>4. g.file <= At
  BY DEF NearClient
<1>5. ASSUME g.file < At, downloadBlock = 0
      PROVE  /\ At > 1 /\ Files[At - 1] = 0
             /\ \A f \in g.file .. At - 1 : Files[f] = 0
  <2>1. \A f \in g.file + 1 .. At - 1 : Files[f] = 0
    BY DEF NearClient
  <2>2. ASSUME NEW f \in g.file .. At - 1 PROVE Files[f] = 0
    <3>1. f = g.file \/ f \in g.file + 1 .. At - 1
      BY <1>2
    <3>2. QED
      BY <1>3, <1>5, <2>1, <3>1
  <2>3. At - 1 \in g.file .. At - 1 /\ At > 1
    BY <1>2, <1>5
  <2>4. QED
    BY <2>2, <2>3
<1>6. QED
  BY <1>1, <1>3, <1>4, <1>5 DEF Fitting

LEMMA EndRefused ==
  ASSUME NEW T \in Seq(PositionType), NEW p \in PositionType, NEW q \in PositionType,
         NEW m \in BlockType, NEW g \in SentType, Arriving(T, p, q, m, g),
         dl' = dl, blocks' = Tail(blocks), blocks # <<>>,
         downloading # None, ~Misread(m), Expected(m), m.data = EOF,
         gone' = TRUE, commands' = Append(commands, NextDownload),
         UNCHANGED <<downloading, downloadBlock, written, completed>>
  PROVE  /\ Types' /\ StaleOnlyOfLast' /\ Reached(p)'
         /\ \A b, h : SentAs(b, h) /\ NearClient(h) => SentAs(b, h)' /\ NearClient(h)'
<1> DEFINE n == downloadBlock
<1>1. /\ Types /\ StaleOnlyOfLast /\ ~gone /\ Path(T, commands) /\ p = T[1] /\ q = T[Len(T)]
      /\ Before(p, q) /\ ClientAt(q) /\ Server(p, q)
      /\ SentAs(m, g) /\ NearClient(g) /\ SentAt(g, p.file)
  BY DEF Arriving
<1>2. /\ g.number = n /\ n = Files[g.file] /\ g.file <= At
      /\ g.file < At => Files[g.file] < W
      /\ g.file < At /\ n = 0 => At > 1 /\ Files[At - 1] = 0
  BY <1>1, EndFits
<1>3. /\ g.file \in Nat /\ n \in Nat /\ At \in Nat /\ W \in Nat /\ W # 0 /\ At = downloading
      /\ At # 0 /\ p.file \in Nat /\ q.file \in Nat /\ q.next \in Nat /\ g.file # 0
  BY <1>1, SentFields, ClientFile, PositionFields, Sizes DEF None, File
<1>4. At' = At /\ Stale' = Stale /\ Waiting' = Waiting
  BY DEF At, Stale, Waiting
<1>5. q.file = At /\ q.next = n
  BY <1>1, <1>3 DEF ClientAt
<1>6. PICK command \in CommandType : command = NextDownload
  BY <1>3 DEF CommandType, NextDownload
<1>7. PICK t \in PositionType : t = [file |-> q.file, next |-> q.next + 1]
  <2>1. q.file \in 0 .. N /\ q.next + 1 \in Nat
    BY <1>3, PositionFields
  <2>2. QED
    BY <2>1 DEF PositionType
<1>8. Leads(q, command, t) /\ t.file = At /\ t.next = n + 1
  BY <1>3, <1>5, <1>6, <1>7 DEF Leads, NextDownload
<1>9. commands' = Append(commands, command) /\ commands \in Seq(CommandType)
  BY <1>1, <1>6 DEF Types
<1>10. ClientAt(t)'
  BY <1>3, <1>8 DEF ClientAt
<1>11. StaleOnlyOfLast'
  BY <1>1, <1>4 DEF StaleOnlyOfLast
<1>12. Types'
  <2>1. blocks' \in Seq(BlockType) /\ commands' \in Seq(CommandType)
    BY <1>1, <1>9, TailTyped DEF Types
  <2>2. QED
    BY <1>1, <1>4, <2>1 DEF Types, DlTypes
<1>13. \A b, h : SentAs(b, h) /\ NearClient(h) => SentAs(b, h)' /\ NearClient(h)'
  BY <1>1, <1>4 DEF SentAs, NearClient
<1>14. Server(p, t)'
  <2>1. ServerAt(p)'
    BY <1>1, <1>4 DEF Server, ServerAt, LastClosed
  <2>2. ClientAhead(p.file)'
    BY <1>1, <1>4 DEF Server, ClientAhead, Unopened
  <2>3. SameFile(p.file, t)'
    <3>1. SUFFICES ASSUME dl.open, p.file = At
                   PROVE  n <= dl.xmit + W /\ (n + 1 <= dl.current \/ n + 1 <= W)
      BY <1>4, <1>8 DEF SameFile
    <3>2. n <= dl.xmit + W
      BY <1>1, <3>1 DEF Server, SameFile
    <3>3. g.file = At => n < dl.current
      BY <1>1, <1>2, <3>1 DEF SentAt
    <3>4. dl.current \in Nat
      BY <1>1, DlFields DEF Types, DlTypes
    <3>5. n < W \/ n < dl.current
      BY <1>2, <1>3, <3>3
    <3> HIDE DEF n
    <3>6. QED
      BY <1>3, <3>2, <3>4, <3>5
  <2>4. NotYetOpened(p.file, t)'
    <3>1. SUFFICES ASSUME NEW f \in File, Unopened(p.file, f), f < At \/ f = At
                   PROVE  (f = At /\ Stale) \/ (f > 1 /\ Files[f - 1] = 0)
      BY <1>4, <1>8 DEF NotYetOpened, Unopened
    <3>2. CASE f < At \/ n > 0
      BY <1>1, <1>5, <3>1, <3>2 DEF Server, NotYetOpened
    <3>3. CASE f = At /\ n = 0
      <4>1. g.file < At
        BY <1>1, <1>2, <1>3, <3>1, <3>3 DEF Unopened, SentAt
      <4>2. QED
        BY <1>2, <3>3, <4>1
    <3>4. QED
      BY <1>3, <3>1, <3>2, <3>3
  <2>5. QED
    BY <1>1, <1>4, <2>1, <2>2, <2>3, <2>4 DEF Server
<1>15. Reached(p)'
  BY <1>1, <1>8, <1>9, <1>10, <1>14, ReachedByOneMore
<1>16. QED
  BY <1>11, <1>12, <1>13, <1>15
LEMMA CorrectIsFresh ==
  ASSUME Types, downloading # None, CorrectChecksum
  PROVE  ~Stale /\ downloadBlock = Files[downloading]
<1>1. written \in Seq(File \X Nat) /\ Len(written) = downloadBlock /\ Files[downloading] \in Nat
  BY ClientFile DEF Types
<1>2. written = [i \in 1 .. Files[downloading] |-> <<downloading, i - 1>>]
  BY DEF CorrectChecksum
<1>3. DOMAIN written = 1 .. Files[downloading] /\ DOMAIN written = 1 .. Len(written)
      /\ \A i \in DOMAIN written : written[i] = <<downloading, i - 1>>
  <2>1. DOMAIN written = 1 .. Len(written)
    BY <1>1
  <2>2. QED
    BY <1>2, <2>1
<1>4. Len(written) = Files[downloading]
  <2>1. 1 .. Len(written) = 1 .. Files[downloading] /\ Len(written) \in Nat
    BY <1>1, <1>3
  <2>2. QED
    BY <1>1, <2>1
<1>5. ~Stale
  BY <1>3 DEF Stale
<1>6. QED
  BY <1>1, <1>4, <1>5

LEMMA ReachedByTwoMore ==
  ASSUME NEW T \in Seq(PositionType), NEW p, NEW q \in PositionType, Path(T, commands),
         p = T[1], q = T[Len(T)], commands \in Seq(CommandType),
         NEW c \in CommandType, NEW t \in PositionType, Leads(q, c, t),
         NEW d \in CommandType, NEW u \in PositionType, Leads(t, d, u),
         commands' = commands \o <<c, d>>, ClientAt(u)', Server(p, u)'
  PROVE  Reached(p)' /\ commands' \in Seq(CommandType)
<1> DEFINE S == Append(T, t)
           C == Append(commands, c)
           R == Append(S, u)
<1>1. S \in Seq(PositionType) /\ Path(S, C) /\ S[1] = p /\ S[Len(S)] = t
  BY PathGrows
<1>2. C \in Seq(CommandType) /\ commands' = Append(C, d)
  OBVIOUS
<1> HIDE DEF S, C
<1>3. R \in Seq(PositionType) /\ Path(R, Append(C, d)) /\ R[1] = S[1] /\ R[Len(R)] = u
  BY <1>1, <1>2, PathGrows
<1> HIDE DEF R
<1>4. Path(R, commands)' /\ ClientAt(R[Len(R)])' /\ Server(p, R[Len(R)])'
  BY <1>2, <1>3
<1>5. Reached(p)'
  BY <1>1, <1>3, <1>4 DEF Reached
<1>6. commands' \in Seq(CommandType)
  BY <1>2
<1>7. QED
  BY <1>5, <1>6

LEMMA EndAccepted ==
  ASSUME NEW T \in Seq(PositionType), NEW p \in PositionType, NEW q \in PositionType,
         NEW m \in BlockType, NEW g \in SentType, Arriving(T, p, q, m, g),
         dl' = dl, blocks' = Tail(blocks), blocks # <<>>,
         downloading # None, ~Misread(m), Expected(m), m.data = EOF, CorrectChecksum,
         completed' = completed + 1, written' = <<>>, downloadBlock' = 0, gone' = gone,
         IF downloading < Len(Files)
         THEN /\ downloading' = downloading + 1
              /\ commands' = commands \o <<NextDownload, [name |-> "download",
                                                         arg |-> downloading + 1]>>
         ELSE /\ downloading' = None
              /\ commands' = commands \o <<NextDownload, [name |-> "donedl", arg |-> 0]>>
  PROVE  /\ Types' /\ StaleOnlyOfLast' /\ Reached(p)'
         /\ \A b \in BlockType, h \in SentType :
              InOrder(g, h) /\ SentAs(b, h) /\ NearClient(h) => SentAs(b, h)' /\ NearClient(h)'
<1> DEFINE n == downloadBlock
           a == At
<1>1. /\ Types /\ StaleOnlyOfLast /\ ~gone /\ Path(T, commands) /\ p = T[1] /\ q = T[Len(T)]
      /\ Before(p, q) /\ ClientAt(q) /\ Server(p, q)
      /\ SentAs(m, g) /\ NearClient(g) /\ SentAt(g, p.file)
  BY DEF Arriving
<1>2. /\ g.number = n /\ n = Files[g.file] /\ g.file <= a
      /\ ~Stale /\ n = Files[a]
      /\ g.file < a => n = 0 /\ a > 1 /\ Files[a - 1] = 0
                       /\ \A f \in g.file .. a - 1 : Files[f] = 0
  <2>1. ~Stale /\ n = Files[downloading] /\ a = downloading /\ n \in Nat
    BY <1>1, CorrectIsFresh, ClientFile
  <2>2. QED
    BY <1>1, <2>1, EndFits
<1>3. /\ g.file \in Nat /\ g.file # 0 /\ n \in Nat /\ a \in Nat /\ a # 0 /\ a \in 1 .. N
      /\ W \in Nat /\ W # 0 /\ N \in Nat /\ a = downloading /\ N = Len(Files)
      /\ p.file \in Nat /\ q.file \in Nat /\ q.next \in Nat
      /\ \A f \in File : Files[f] \in Nat
  <2>1. /\ n \in Nat /\ a \in Nat /\ a = downloading /\ a \in File /\ a # 0
    BY <1>1, ClientFile DEF None
  <2>2. g.file \in Nat /\ g.file # 0 /\ p.file \in Nat /\ q.file \in Nat /\ q.next \in Nat
    BY SentFields, PositionFields DEF File
  <2>3. a \in 1 .. N
    BY <2>1 DEF File
  <2>4. /\ W \in Nat /\ W # 0 /\ N \in Nat /\ N = Len(Files)
        /\ \A f \in File : Files[f] \in Nat
    BY Sizes DEF N
  <2>5. QED
    BY <2>1, <2>2, <2>3, <2>4
<1>4. At' = a + 1 /\ ~Stale' /\ Waiting' = Waiting
  <2>1. At' = a + 1
    BY <1>3 DEF At, None
  <2>2. ~Stale'
    BY DEF Stale
  <2>3. QED
    BY <2>1, <2>2 DEF Waiting
<1>5. q.file = a /\ q.next = n
  BY <1>1, <1>3 DEF ClientAt
<1>6. g.file <= p.file /\ p.file <= a /\ (Waiting => g.file < p.file) /\ p.file # 0
  <2>1. p.file <= q.file
    BY <1>1 DEF Before
  <2>2. g.file <= p.file /\ (Waiting => g.file < p.file)
    BY <1>1 DEF SentAt
  <2>3. QED
    BY <1>3, <1>5, <2>1, <2>2
<1>7. PICK t \in PositionType : t = [file |-> a, next |-> n + 1]
  <2>1. a \in 0 .. N /\ n + 1 \in Nat
    BY <1>3
  <2>2. [file |-> a, next |-> n + 1] \in PositionType
    BY <2>1 DEF PositionType
  <2>3. QED
    BY <2>2
<1>8. PICK u \in PositionType : u = IF a < N THEN [file |-> a + 1, next |-> 0] ELSE t
  <2>1. a < N => a + 1 \in 0 .. N
    BY <1>3
  <2>2. QED
    BY <2>1 DEF PositionType
<1>9. PICK c \in CommandType : c = NextDownload
  BY <1>3 DEF CommandType, NextDownload
<1>10. PICK d \in CommandType : d = IF a < N THEN [name |-> "download", arg |-> a + 1]
                                    ELSE [name |-> "donedl", arg |-> 0]
  BY <1>3 DEF CommandType
<1>11. commands' = commands \o <<c, d>> /\ commands \in Seq(CommandType)
  BY <1>1, <1>3, <1>9, <1>10 DEF Types
<1>12. Leads(q, c, t)
  BY <1>3, <1>5, <1>7, <1>9 DEF Leads, NextDownload
<1>13. Leads(t, d, u)
  <2>1. t.file = a /\ t.next = n + 1
    BY <1>7
  <2>2. CASE a < N
    BY <1>2, <1>8, <1>10, <2>1, <2>2 DEF Leads
  <2>3. CASE a = N
    BY <1>2, <1>3, <1>8, <1>10, <2>1, <2>3 DEF Leads
  <2>4. QED
    BY <1>3, <2>2, <2>3
<1>14. ClientAt(u)'
  <2>1. CASE a < N
    <3>1. u.file = a + 1 /\ u.next = 0 /\ downloading' = a + 1 /\ a + 1 # None
      BY <1>3, <1>8, <2>1 DEF None
    <3>2. QED
      BY <3>1 DEF ClientAt
  <2>2. CASE a = N
    <3>1. downloading' = None /\ u = [file |-> N, next |-> Files[N] + 1]
      BY <1>2, <1>3, <1>7, <1>8, <2>2
    <3>2. QED
      BY <3>1 DEF ClientAt
  <2>3. QED
    BY <1>3, <2>1, <2>2
<1>15. u.file <= a + 1 /\ (u.file = a + 1 => u.next = 0)
  BY <1>3, <1>7, <1>8
<1>16. ASSUME NEW b \in BlockType, NEW h \in SentType,
              InOrder(g, h), SentAs(b, h), NearClient(h)
       PROVE  SentAs(b, h)' /\ NearClient(h)'
  <2>1. h.file \in Nat /\ h.number \in Nat /\ Files[h.file] \in Nat
    BY SentFields
  <2>2. h.file <= a /\ g.file <= h.file /\ (h.file = g.file => n < h.number + W)
    BY <1>2, <1>16 DEF NearClient, InOrder
  <2>3. SentAs(b, h)'
    BY <1>3, <1>4, <1>16, <2>1, <2>2 DEF SentAs
  <2>4. h.number = 0 => Files[h.file] < W
    <3>1. CASE h.file < a
      BY <1>16, <3>1 DEF NearClient
    <3>2. CASE h.file = a
      BY <1>2, <1>3, <2>1, <2>2, <3>2
    <3>3. QED
      BY <1>3, <2>1, <2>2, <3>1, <3>2
  <2>5. \A f \in h.file + 1 .. a : Files[f] = 0 /\ Files[h.file] = 0
    <3>1. SUFFICES ASSUME NEW f \in h.file + 1 .. a
                   PROVE  Files[f] = 0 /\ Files[h.file] = 0
      OBVIOUS
    <3> HIDE DEF a
    <3>2. /\ a \in Nat /\ g.file \in Nat /\ h.file \in Nat
          /\ f \in Nat /\ h.file + 1 <= f /\ f <= a /\ g.file <= h.file
      BY <1>3, <2>1, <2>2
    <3>3. g.file < a /\ h.file \in g.file .. a - 1 /\ (f = a \/ f \in g.file .. a - 1)
      BY <3>2
    <3>4. QED
      BY <1>2, <3>3
  <2>6. (a + 1) - 1 = a /\ h.file <= a + 1 /\ h.file # a + 1
    BY <1>3, <2>1, <2>2
  <2> HIDE DEF a
  <2>7. NearClient(h)'
    BY <1>4, <2>4, <2>5, <2>6 DEF NearClient
  <2>8. QED
    BY <2>3, <2>7
<1>17. p.file < a => n = 0 /\ Files[p.file] = 0
  <2>1. SUFFICES ASSUME p.file < a PROVE n = 0 /\ Files[p.file] = 0
    OBVIOUS
  <2>2. g.file < a /\ p.file \in g.file .. a - 1
    BY <1>3, <1>6, <2>1
  <2>3. QED
    BY <1>2, <2>2
<1>18. ServerAt(p)'
  BY <1>1, <1>4, <1>6 DEF Server, ServerAt, LastClosed
<1>19. ClientAhead(p.file)'
  <2>1. ASSUME NEW f \in p.file + 1 .. a
        PROVE  Files[f] = 0 /\ (dl.name # None => Files[p.file] = 0)
    <3>1. p.file < a /\ (f = a \/ f \in p.file + 1 .. a - 1)
      BY <1>3, <1>6
    <3>2. CASE f = a
      BY <1>2, <1>17, <3>1, <3>2
    <3>3. CASE f \in p.file + 1 .. a - 1
      BY <1>1, <3>3 DEF Server, ClientAhead
    <3>4. QED
      BY <3>1, <3>2, <3>3
  <2>2. ASSUME dl.name # None, Files[p.file] # 0
        PROVE  dl.open /\ dl.current = Files[p.file] + 1 /\ Files[p.file] < dl.xmit + W
    <3>1. p.file = a
      BY <1>3, <1>6, <1>17, <2>2
    <3>2. g.file = a
      BY <1>2, <1>3, <2>2, <3>1
    <3>3. dl.open
      BY <1>3, <1>6, <2>2, <3>1, <3>2 DEF Waiting
    <3>4. n < dl.xmit + W /\ n < dl.current
      BY <1>1, <1>2, <3>1, <3>2, <3>3 DEF SentAt
    <3>5. dl.current <= Files[p.file] + 1 /\ dl.current \in Nat
      BY <1>1, <3>3, DlFields DEF Server, ServerAt, Window, Types, DlTypes
    <3>6. QED
      BY <1>2, <1>3, <3>1, <3>3, <3>4, <3>5
  <2>3. (a + 1) - 1 = a /\ ~(0 >= W) /\ ~(0 > 0)
    BY <1>3
  <2> HIDE DEF a
  <2>4. QED
    BY <1>4, <2>1, <2>2, <2>3 DEF ClientAhead
<1>20. SameFile(p.file, u)'
  <2>1. p.file # a + 1
    BY <1>3, <1>6
  <2>2. QED
    BY <1>4, <2>1 DEF SameFile
<1>21. NotYetOpened(p.file, u)'
  <2>1. SUFFICES ASSUME NEW f \in File, Unopened(p.file, f),
                        f < u.file \/ (f = u.file /\ u.next > 0)
                 PROVE  f > 1 /\ Files[f - 1] = 0
    BY <1>4 DEF NotYetOpened, Unopened
  <2>2. f \in Nat /\ f <= a /\ u.file \in Nat /\ u.next \in Nat
    <3>1. f \in Nat /\ u.file \in Nat /\ u.next \in Nat
      BY PositionFields DEF File
    <3>2. QED
      BY <1>3, <1>15, <2>1, <3>1
  <2>3. CASE f < a \/ n > 0
    <3>1. f < q.file \/ (f = q.file /\ q.next > 0)
      BY <1>3, <1>5, <2>2, <2>3
    <3>2. QED
      BY <1>1, <1>2, <2>1, <3>1 DEF Server, NotYetOpened
  <2>4. CASE f = a /\ n = 0
    <3>1. g.file < a
      BY <1>3, <1>6, <2>1, <2>4 DEF Unopened
    <3>2. QED
      BY <1>2, <2>4, <3>1
  <2>5. QED
    BY <1>3, <2>2, <2>3, <2>4
<1>22. Server(p, u)'
  BY <1>1, <1>2, <1>18, <1>19, <1>20, <1>21 DEF Server
<1>23. Reached(p)' /\ commands' \in Seq(CommandType)
  BY <1>1, <1>11, <1>12, <1>13, <1>14, <1>22, ReachedByTwoMore
<1>24. StaleOnlyOfLast'
  <2>1. downloading' # None => Files[downloading'] >= 0
    BY <1>3 DEF File, None
  <2>2. QED
    BY <1>4, <2>1 DEF StaleOnlyOfLast
<1>25. Types'
  <2>1. blocks' \in Seq(BlockType)
    BY <1>1, TailTyped DEF Types
  <2>2. completed' = At' - 1
    BY <1>1, <1>3, <1>4 DEF Types
  <2>3. downloading' \in 0 .. N
    BY <1>3 DEF None
  <2>4. written' \in Seq(File \X Nat) /\ Len(written') = 0
        /\ \A i \in DOMAIN written' : written'[i][2] = i - 1
    OBVIOUS
  <2>5. QED
    BY <1>1, <1>23, <2>1, <2>2, <2>3, <2>4 DEF Types, DlTypes
<1>26. QED
  BY <1>16, <1>23, <1>24, <1>25
LEMMA ParseStep ==
  ASSUME IInv, CL_ParseDownload
  PROVE  IInv'
<1>1. PICK G \in Seq(SentType), T \in Seq(PositionType) : Agree(G, T)
  BY DEF IInv, Ghosts
<1>2. Types /\ StaleOnlyOfLast /\ ~gone /\ blocks # <<>> /\ blocks' = Tail(blocks) /\ dl' = dl
  BY DEF IInv, CL_ParseDownload
<1>3. PICK p \in PositionType, q \in PositionType : p = T[1] /\ q = T[Len(T)] /\ Before(p, q)
  <2>1. Len(T) = Len(commands) + 1 /\ Len(commands) \in Nat
    BY <1>1, <1>2 DEF Agree, Path, Types
  <2>2. 1 \in 1 .. Len(T) /\ Len(T) \in 1 .. Len(T)
    BY <2>1
  <2>3. QED
    BY <1>1, <2>2 DEF Agree, Path
<1>4. Path(T, commands) /\ Server(p, q) /\ ClientAt(q) /\ Flight(G, p.file)
  BY <1>1, <1>3 DEF Agree
<1>5. PICK m \in BlockType, g \in SentType :
        /\ m = Head(blocks) /\ g = G[1]
        /\ SentAs(m, g) /\ NearClient(g) /\ SentAt(g, p.file)
  BY <1>2, <1>4, FirstBlock
<1>6. Arriving(T, p, q, m, g)
  BY <1>2, <1>3, <1>4, <1>5 DEF Arriving
<1>7. /\ Types' /\ StaleOnlyOfLast' /\ Reached(p)'
      /\ \A b \in BlockType, h \in SentType :
           InOrder(g, h) /\ SentAs(b, h) /\ NearClient(h) => SentAs(b, h)' /\ NearClient(h)'
  <2>1. CASE /\ downloading = None
             /\ commands' = Append(commands, [name |-> "stopdl", arg |-> 0])
             /\ UNCHANGED cl
    BY <1>2, <1>6, <2>1, NothingWritten DEF cl
  <2>2. CASE /\ downloading # None /\ Misread(m)
             /\ gone' = TRUE
             /\ UNCHANGED <<downloading, downloadBlock, written, completed, commands>>
    BY <1>2, <1>6, <2>2, NothingWritten
  <2>3. CASE /\ downloading # None /\ ~Misread(m) /\ ~Expected(m)
             /\ UNCHANGED <<cl, commands>>
    <3>1. gone' \in BOOLEAN
      BY <1>2, <2>3 DEF cl, Types
    <3>2. QED
      BY <1>2, <1>6, <2>3, <3>1, NothingWritten DEF cl
  <2>4. CASE /\ downloading # None /\ ~Misread(m) /\ Expected(m) /\ m.data = EOF
             /\ CL_NextDownload
    <3>1. CASE /\ ~CorrectChecksum
               /\ gone' = TRUE
               /\ commands' = Append(commands, NextDownload)
               /\ UNCHANGED <<downloading, downloadBlock, written, completed>>
      BY <1>2, <1>6, <2>4, <3>1, EndRefused
    <3>2. CASE /\ CorrectChecksum
               /\ completed' = completed + 1
               /\ written' = <<>>
               /\ downloadBlock' = 0
               /\ IF downloading < Len(Files)
                  THEN /\ downloading' = downloading + 1
                       /\ commands' = commands \o <<NextDownload, [name |-> "download",
                                                                  arg |-> downloading + 1]>>
                  ELSE /\ downloading' = None
                       /\ commands' = commands \o <<NextDownload,
                                                    [name |-> "donedl", arg |-> 0]>>
               /\ UNCHANGED gone
      BY <1>2, <1>6, <2>4, <3>2, EndAccepted
    <3>3. QED
      BY <2>4, <3>1, <3>2 DEF CL_NextDownload
  <2>5. CASE /\ downloading # None /\ ~Misread(m) /\ Expected(m) /\ m.data # EOF
             /\ written' = Append(written, m.data)
             /\ downloadBlock' = downloadBlock + 1
             /\ commands' = Append(commands, NextDownload)
             /\ UNCHANGED <<downloading, completed, gone>>
    BY <1>2, <1>6, <2>5, DataWritten
  <2>6. QED
    BY <1>5, <2>1, <2>2, <2>3, <2>4, <2>5 DEF CL_ParseDownload
<1>8. Tail(G) \in Seq(SentType) /\ Flight(Tail(G), p.file)'
  <2>1. \A b \in BlockType, h \in SentType :
          InOrder(G[1], h) /\ SentAs(b, h) /\ NearClient(h) /\ SentAt(h, p.file)
            => SentAs(b, h)' /\ NearClient(h)'
    BY <1>5, <1>7
  <2>2. QED
    BY <1>2, <1>4, <2>1, LaterBlocks
<1>9. PICK S \in Seq(PositionType) :
        Path(S, commands)' /\ S[1] = p /\ ClientAt(S[Len(S)])' /\ Server(p, S[Len(S)])'
  BY <1>7 DEF Reached
<1>10. Agree(Tail(G), S)'
  BY <1>8, <1>9 DEF Agree
<1>11. QED
  BY <1>7, <1>8, <1>9, <1>10 DEF IInv, Ghosts
-----------------------------------------------------------------------------
LEMMA InitHolds ==
  ASSUME Init
  PROVE  IInv
<1> DEFINE s == [file |-> 0, next |-> 0]
           t == [file |-> 1, next |-> 0]
           T == <<s, t>>
           c == [name |-> "download", arg |-> 1]
<1>1. /\ N \in Nat /\ N # 0 /\ W \in Nat /\ W # 0 /\ 1 \in File /\ \A f \in File : Files[f] \in Nat
  BY Sizes DEF File
<1>2. downloading = 1 /\ downloadBlock = 0 /\ written = <<>> /\ completed = 0 /\ gone = FALSE
      /\ blocks = <<>> /\ commands = <<c>>
  BY DEF Init
<1>3. dl \in DlType /\ dl.name = None /\ dl.open = FALSE /\ dl.broken = FALSE
      /\ dl.client = 0 /\ dl.current = 0 /\ dl.xmit = 0
  <2>1. [k \in Slots |-> EOF] \in [Slots -> Data] /\ None \in 0 .. N
    BY <1>1 DEF Data, None
  <2>2. QED
    BY <2>1 DEF Init, DlType
<1>4. c \in CommandType /\ s \in PositionType /\ t \in PositionType
  BY <1>1 DEF CommandType, PositionType
<1>5. At = 1 /\ ~Stale /\ ~Waiting
  BY <1>2, <1>3 DEF At, Stale, Waiting, None
<1>6. commands \in Seq(CommandType) /\ Len(commands) = 1 /\ commands[1] = c
  <2> HIDE DEF c
  <2>1. QED
    BY <1>2, <1>4
<1>7. T \in Seq(PositionType) /\ Len(T) = 2 /\ T[1] = s /\ T[2] = t
  <2> HIDE DEF s, t
  <2>1. QED
    BY <1>4
<1>8. Types
  <2>1. DlTypes
    BY <1>3 DEF DlTypes
  <2>2. written \in Seq(File \X Nat) /\ Len(written) = 0 /\ DOMAIN written = {}
    BY <1>2
  <2>3. blocks \in Seq(BlockType)
    BY <1>2
  <2>4. downloading \in 0 .. N /\ downloading # None /\ completed = At - 1
    BY <1>1, <1>2, <1>5 DEF None
  <2>5. /\ downloadBlock \in Nat /\ gone \in BOOLEAN /\ Len(written) = downloadBlock
        /\ \A i \in DOMAIN written : written[i][2] = i - 1
    BY <1>2, <2>2
  <2> HIDE DEF c
  <2>6. QED
    BY <1>6, <2>1, <2>2, <2>3, <2>4, <2>5 DEF Types
<1>9. StaleOnlyOfLast
  BY <1>1, <1>2, <1>5 DEF StaleOnlyOfLast
<1>10. Path(T, commands)
  <2>1. Leads(s, c, t)
    BY DEF Leads
  <2>2. Before(s, t) /\ Before(t, t)
    BY DEF Before
  <2> HIDE DEF s, t, c, T
  <2>3. \A k \in 1 .. 1 : Leads(T[k], commands[k], T[k + 1])
    BY <1>6, <1>7, <2>1
  <2>4. \A k \in 1 .. 2 : Before(T[k], T[2])
    BY <1>7, <2>2
  <2>5. QED
    BY <1>6, <1>7, <2>3, <2>4 DEF Path
<1>11. ClientAt(t)
  BY <1>2 DEF ClientAt, None
<1>12. <<>> \in Seq(SentType) /\ Flight(<<>>, 0)
  BY <1>2 DEF Flight
<1>13. Server(s, t)
  <2>1. ServerAt(s)
    BY <1>2, <1>3, <1>5 DEF ServerAt
  <2>2. ClientAhead(0)
    BY <1>1, <1>2, <1>3, <1>5 DEF ClientAhead
  <2>3. SameFile(0, t) /\ NotYetOpened(0, t)
    BY <1>1, <1>3, <1>5 DEF SameFile, NotYetOpened, File
  <2>4. QED
    BY <1>3, <2>1, <2>2, <2>3 DEF Server
<1>14. Agree(<<>>, T)
  <2>1. T[1] = s /\ T[Len(T)] = t /\ s.file = 0
    BY <1>7
  <2> HIDE DEF T, t
  <2>2. QED
    BY <1>10, <1>11, <1>12, <1>13, <2>1 DEF Agree
<1>15. QED
  BY <1>7, <1>8, <1>9, <1>12, <1>14 DEF IInv, Ghosts

LEMMA NextHolds ==
  ASSUME IInv, [Next]_vars
  PROVE  IInv'
<1>1. CASE UNCHANGED vars
  <2>1. dl' = dl /\ blocks' = blocks /\ commands' = commands /\ UNCHANGED cl
    BY <1>1 DEF vars
  <2>2. /\ At' = At /\ Stale' = Stale /\ StaleOnlyOfLast' /\ Waiting' = Waiting
        /\ downloading' = downloading /\ downloadBlock' = downloadBlock
        /\ written' = written /\ completed' = completed /\ gone' = gone
    BY <2>1, ClientStays DEF IInv, Waiting
  <2>3. Types'
    BY <2>1, <2>2 DEF IInv, Types, DlTypes
  <2>4. PICK G \in Seq(SentType), T \in Seq(PositionType) : Agree(G, T)
    BY DEF IInv, Ghosts
  <2>5. Path(T, commands)' /\ ClientAt(T[Len(T)])'
    BY <2>1, <2>2, <2>4 DEF Agree, ClientAt
  <2>6. Flight(G, T[1].file)'
    BY <2>1, <2>2, <2>4 DEF Agree, Flight, SentAs, NearClient, SentAt
  <2>7. Server(T[1], T[Len(T)])'
    BY <2>1, <2>2, <2>4 DEF Agree, Server, ServerAt, ClientAhead, SameFile, NotYetOpened,
       Unopened, LastClosed
  <2>8. Agree(G, T)'
    BY <2>5, <2>6, <2>7 DEF Agree
  <2>9. QED
    BY <2>2, <2>3, <2>4, <2>8 DEF IInv, Ghosts
<1>2. QED
  BY <1>1, SendStep, CommandStep, ParseStep, LoseStep DEF Next

-----------------------------------------------------------------------------
\* The inductive invariant: the blocks and commands under way are accounted for, and no
\* block is more than a window away from the one the client expects.
THEOREM Invariant == Spec => []IInv
<1>1. Init => IInv
  BY InitHolds
<1>2. IInv /\ [Next]_vars => IInv'
  BY NextHolds
<1>3. QED
  BY <1>1, <1>2, PTL DEF Spec

\* Both ends' fields keep their types: the window lies between what was read and what
\* was acknowledged, and the temporary file has as many blocks as were counted.
THEOREM TypeCorrect == Spec => []TypeOK
<1>1. ASSUME IInv PROVE TypeOK
  <2>1. Types /\ N = Len(Files)
    BY <1>1 DEF IInv, N
  <2>2. /\ dl.name \in 0 .. N /\ dl.xmit \in Nat /\ dl.current \in Nat
        /\ dl.client <= dl.current /\ dl.xmit <= dl.current /\ (dl.open => dl.name # None)
    BY <2>1, DlFields DEF Types, DlTypes
  <2>3. downloading \in 0 .. N /\ Len(written) = downloadBlock /\ completed = At - 1
        /\ At \in 1 .. N + 1 /\ N \in Nat
    BY <2>1, ClientFile, Sizes DEF Types
  <2>4. QED
    BY <2>1, <2>2, <2>3 DEF TypeOK
<1>2. QED
  BY <1>1, Invariant, PTL

\* CL_ParseDownload, SV_NextDownload_f: what the client has written is a beginning of
\* the file, unless a block of the file before got into it; and unless one did the
\* server never finds a download broken.
THEOREM Intact == Spec => []FileIntact
<1>1. ASSUME IInv PROVE FileIntact
  <2>1. \A i \in DOMAIN written : written[i][2] = i - 1
    BY <1>1 DEF IInv, Types
  <2>2. WrittenIsPrefix
    BY <2>1 DEF WrittenIsPrefix, Stale
  <2>3. dl.broken => Stale
    BY <1>1 DEF IInv, Ghosts, Agree, Server
  <2>4. QED
    BY <2>2, <2>3 DEF FileIntact, NextdlMatches
<1>2. QED
  BY <1>1, Invariant, PTL
=============================================================================
