------------------------------ MODULE Sessions ------------------------------
(***************************************************************************)
(* What reaches the disk, and when: the commands of src/fs/SecondFS.cpp    *)
(* that change the volume, as the sequence of the writes they make, the    *)
(* start and the end of a session, and the end of the process at any       *)
(* point.                                                                  *)
(*                                                                         *)
(* Blocks written by Bdwrite stay in the cache until they are evicted or   *)
(* flushed, inodes in core until they are put, and the bitmaps until a     *)
(* command saves them.  So there are two volumes: the one the calls see,   *)
(* and the one on the disk, from which the next session starts.            *)
(*                                                                         *)
(* A file or directory is a sequence of units, U to a block: a unit of a   *)
(* file says who wrote it, one of a directory is an entry.  A bitmap is    *)
(* its first zero bit (FreeSpace shows that in range it is a prefix, and   *)
(* that what is given back is not found again).  At most one descriptor    *)
(* is in use.  FileManager has the calls in full and with their failures,  *)
(* FileBlocks has positions and holes.                                     *)
(***************************************************************************)
EXTENDS Integers, Sequences, FiniteSets

CONSTANTS
    U,          \* units of a block
    NB,         \* bound: blocks of the data zone
    NI,         \* bound: the highest inode number
    Name,       \* what files and directories can be called
    Sub,        \* the name of the directory on a formatted volume
    Paths,      \* the directories and names that commands are given
    Zero,       \* a unit of a cleared block
    MaxSize,    \* bound: units of a file
    MaxCrash    \* bound: ends of the process without exit

ASSUME SizesAssumption ==
    /\ U \in Nat \ {0, 1} /\ NB \in Nat \ {0, 1} /\ NI \in Nat \ {0, 1}
    /\ Sub \in Name /\ Paths \subseteq [dir: 1 .. NI, name: Name]
    /\ MaxSize \in Nat /\ MaxCrash \in Nat

Block == 0 .. NB - 1
Ino   == 1 .. NI
Root  == 1
Path  == [dir: Ino, name: Name]
Entry == [tag: {"entry"}, name: Name, ino: Ino]
Dots  == [tag |-> "dots"]
Data  == [tag: {"data"}, path: Path]
Unit  == Entry \cup Data \cup {Dots, Zero}
Inode == [type: {"free", "file", "dir"}, addr: Seq(Block), size: Nat]

ASSUME ZeroAssumption == Zero \notin Entry \cup Data \cup {Dots}

VARIABLES
    core,       \* [Ino -> Inode]: the inodes as calls see them
    dinode,     \* the inodes on the disk
    cur,        \* [Block -> [0 .. U - 1 -> Unit]]: blocks as calls see them
    dur,        \* the blocks on the disk
    top, itop,      \* the first zero bits of the bitmaps in core: data, inodes
    saved, isaved,  \* and on the disk
    cwd,        \* the current directory
    made,       \* directories made in the session: mkdir never puts them
    stuck,      \* inodes left locked and referenced: mkdir of a name there is
    open,       \* the file the descriptor in use has, or NoFile
    cmd,        \* the command in progress
    crashes,    \* number of crashes
    kept,       \* history: files at the last exit, but those touched since
    torn,       \* history: a session began on an inconsistent volume
    loose       \* history: blocks creat took for a directory since a save

vars == <<core, dinode, cur, dur, top, itop, saved, isaved, cwd, made, stuck, open, cmd,
          crashes, kept, torn, loose>>
diskVars == <<dinode, dur, saved, isaved>>
seenVars == <<core, cur, top, itop>>
userVars == <<cwd, made, stuck, open>>
histVars == <<crashes, kept, torn, loose>>

NoFile == [ino |-> 0]
NoCmd  == [op |-> "none", ino |-> 0]
Off    == [op |-> "off", ino |-> 0]
Ready  == cmd = NoCmd
Free   == [type |-> "free", addr |-> << >>, size |-> 0]

-----------------------------------------------------------------------------
(* A volume: inodes I and blocks S.                                        *)

At(I, S, i, u) == S[I[i].addr[(u - 1) \div U + 1]][(u - 1) % U]
Text(I, S, i)  == [u \in 1 .. I[i].size |-> At(I, S, i, u)]
Units(I, S, i) == {At(I, S, i, u) : u \in 1 .. I[i].size}
Blocks(I, i)   == {I[i].addr[k] : k \in DOMAIN I[i].addr}

\* What a search of directory d can match.
Entries(I, S, d) == Units(I, S, d) \cap Entry
Names(I, S) ==
    UNION {{[dir |-> d, name |-> e.name, ino |-> e.ino] : e \in Entries(I, S, d)} :
              d \in {i \in Ino : I[i].type = "dir"}}

\* The directories that the paths from the root lead to, but for those through an
\* inode of X.
DirsBut(I, S, X) ==
    LET dirs  == {i \in Ino : I[i].type = "dir"}
        steps == {n \in Names(I, S) : n.ino \in dirs /\ {n.dir, n.ino} \cap X = {}}
    IN  {d \in dirs : \A R \in SUBSET dirs :
            (Root \in R /\ \A n \in steps : n.dir \in R => n.ino \in R) => d \in R}
Dirs(I, S) == DirsBut(I, S, {})

Found(p) == {e \in Entries(core, cur, p.dir) : e.name = p.name}
Target(p) == (CHOOSE e \in Found(p) : TRUE).ino

\* Where WriteDir puts an entry: the first free one, or behind the last.
FreeSlot(d) ==
    LET free == {u \in 1 .. core[d].size : At(core, cur, d, u) = Zero}
    IN  IF free = {} THEN core[d].size + 1 ELSE CHOOSE u \in free : \A v \in free : u <= v

\* WriteI of one unit at u: Bmap takes a block if there is none, cleared.  A write
\* that ends at the end of a block goes to the disk (Bwrite), any other waits.
WriteI(i, u, unit) ==
    LET k   == (u - 1) \div U + 1
        new == k > Len(core[i].addr)
        b   == IF new THEN top ELSE core[i].addr[k]
        now == [IF new THEN [x \in 0 .. U - 1 |-> Zero] ELSE cur[b]
                    EXCEPT ![(u - 1) % U] = unit]
    IN  /\ core' = [core EXCEPT ![i].addr = IF new THEN Append(@, b) ELSE @,
                                ![i].size = IF @ < u THEN u ELSE @]
        /\ top' = IF new THEN top + 1 ELSE top
        /\ cur' = [cur EXCEPT ![b] = now]
        /\ dur' = IF u % U = 0 THEN [dur EXCEPT ![b] = now] ELSE dur

\* ITrunc.
EmptiedKeepsSize(I, i) == [I EXCEPT ![i].addr = << >>]
Emptied(I, i) == [I EXCEPT ![i].addr = << >>, ![i].size = 0]

\* IUpdate.
IUpdate(i) == dinode' = [dinode EXCEPT ![i] = core[i]]

\* The inodes whose i_count does not fall to 0 when a call is done with them.  The
\* IPut of any other ends in IUpdate.
Pinned == {Root, cwd} \cup made \cup stuck
IPut(i) == IF i \in Pinned THEN UNCHANGED dinode ELSE IUpdate(i)

-----------------------------------------------------------------------------
Formatted ==
    [i \in Ino |->
        IF i \in {1, 2} THEN [type |-> "dir", addr |-> <<i - 1>>, size |-> 3 - i] ELSE Free]
FormattedBlocks ==
    [b \in Block |-> [x \in 0 .. U - 1 |->
        IF b \in {0, 1} /\ x = 0 THEN Dots
        ELSE IF b = 0 /\ x = 1 THEN [tag |-> "entry", name |-> Sub, ino |-> 2]
        ELSE Zero]]

\* A formatted volume, and no session.
Init ==
    /\ core = Formatted /\ dinode = Formatted
    /\ cur = FormattedBlocks /\ dur = FormattedBlocks
    /\ top = 2 /\ saved = 2 /\ itop = 3 /\ isaved = 3
    /\ cwd = Root /\ made = {} /\ stuck = {} /\ open = NoFile
    /\ cmd = Off
    /\ crashes = 0 /\ kept = {} /\ torn = FALSE /\ loose = {}

-----------------------------------------------------------------------------
(* creat, mkdir and load: steps that they share.                           *)

Goto(step) == cmd' = [cmd EXCEPT !.step = step]
Done == cmd' = NoCmd
Step(step) == cmd.op \in {"creat", "mkdir", "load", "write", "exit"} /\ cmd.step = step

\* The paths a command can be given: of the directories there are.  load goes by the
\* last component of the path it gets.  A command that comes to an inode left locked
\* never returns (FileManager shows it), and changes nothing.
Given(op) ==
    {p \in Paths :
        /\ p.dir \in (IF op = "load" THEN {cwd} ELSE Dirs(core, cur)) \ stuck
        /\ Found(p) = {} \/ Target(p) \notin stuck}

\* Bounds: no command begins that could use up the blocks or the inodes.
Room(op) ==
    /\ top + (IF op = "mkdir" THEN 2 ELSE 1) <= NB
    /\ \E i \in Ino : i >= itop /\ core[i].type = "free"
Longer == top + 1 <= NB /\ core[open.ino].size < MaxSize

\* NameI finds no such name.
BeginNew(op, p) ==
    /\ Ready /\ Room(op)
    /\ op = "mkdir" \/ open = NoFile
    /\ p \in Given(op) /\ Found(p) = {}
    /\ cmd' = [op |-> op, path |-> p, ino |-> 0, step |-> "ialloc"]
    /\ UNCHANGED <<diskVars, seenVars, userVars, histVars>>

\* NameI finds a file: creat and load empty and open it.  The blocks' bits stay set.
BeginOver(op, p) ==
    /\ Ready /\ open = NoFile
    /\ op \in {"creat", "load"} /\ p \in Given(op)
    /\ Found(p) # {} /\ core[Target(p)].type # "dir"
    /\ core' = [Emptied(core, Target(p)) EXCEPT ![Target(p)].type = "file"]
    /\ kept' = {k \in kept : k.path # p}
    /\ open' = [ino |-> Target(p), path |-> p]
    /\ cmd' = IF op = "creat" THEN NoCmd
              ELSE [op |-> op, path |-> p, ino |-> Target(p), step |-> "copy"]
    /\ UNCHANGED <<diskVars, cur, top, itop, cwd, made, stuck, crashes, torn, loose>>

\* mkdir of a name there is leaves its inode as NameI returned it, and saves the
\* bitmaps.
BeginTaken(p) ==
    /\ Ready
    /\ p \in Given("mkdir") /\ Found(p) # {}
    /\ stuck' = stuck \cup {Target(p)}
    /\ cmd' = [op |-> "mkdir", path |-> p, ino |-> 0, step |-> "savedata"]
    /\ UNCHANGED <<diskVars, seenVars, cwd, made, open, histVars>>

\* load of a name that a directory has: creat fails, and load goes on with what the
\* call before returned, which can be the descriptor in use.
BeginAstray(p) ==
    /\ Ready /\ open # NoFile
    /\ p \in Given("load") /\ Found(p) # {} /\ core[Target(p)].type = "dir"
    /\ kept' = {k \in kept : k.path # open.path}
    /\ cmd' = [op |-> "load", path |-> p, ino |-> open.ino, step |-> "copy"]
    /\ UNCHANGED <<diskVars, seenVars, userVars, crashes, torn, loose>>

\* What IAlloc asks of the inode it has found.
OccupiedNever(i) == FALSE
Occupied(i) == core[i].type # "free"

\* A turn of IAlloc: the next number; its inode may be in use, if the bitmap is of a
\* session that was cut off.
IAlloc ==
    /\ Step("ialloc")
    /\ itop' = itop + 1
    /\ IF Occupied(itop)
       THEN UNCHANGED <<core, cmd>>
       ELSE /\ core' = [core EXCEPT ![itop] =
                           [Free EXCEPT !.type = IF cmd.op = "mkdir" THEN "dir" ELSE "file"]]
            /\ cmd' = [cmd EXCEPT !.ino = itop, !.step = "entry"]
    /\ UNCHANGED <<diskVars, cur, top, userVars, histVars>>

WriteDir ==
    /\ Step("entry")
    /\ WriteI(cmd.path.dir, FreeSlot(cmd.path.dir),
              [tag |-> "entry", name |-> cmd.path.name, ino |-> cmd.ino])
    /\ loose' = IF cmd.op = "creat" THEN loose \cup (top .. top' - 1) ELSE loose
    /\ Goto("putdir")
    /\ UNCHANGED <<dinode, saved, isaved, itop, userVars, crashes, kept, torn>>

\* IPut of the directory.  creat and load then open the file: creat is done.
PutDir ==
    /\ Step("putdir")
    /\ IPut(cmd.path.dir)
    /\ IF cmd.op = "mkdir" THEN UNCHANGED open ELSE open' = [ino |-> cmd.ino, path |-> cmd.path]
    /\ CASE cmd.op = "mkdir" -> Goto("dots")
         [] cmd.op = "load"  -> Goto("copy")
         [] cmd.op = "creat" -> Done
    /\ UNCHANGED <<dur, saved, isaved, seenVars, cwd, made, stuck, histVars>>

\* mkdir writes "." and "..", and keeps its reference.
WriteDots ==
    /\ Step("dots")
    /\ WriteI(cmd.ino, 1, Dots)
    /\ made' = made \cup {cmd.ino}
    /\ Goto("savedata")
    /\ UNCHANGED <<dinode, saved, isaved, itop, cwd, stuck, open, histVars>>

\* load writes a piece of the file outside, or has come to its end and closes.
Copy ==
    /\ Step("copy") /\ Longer
    /\ WriteI(open.ino, core[open.ino].size + 1, [tag |-> "data", path |-> open.path])
    /\ UNCHANGED <<dinode, saved, isaved, itop, userVars, cmd, histVars>>
LoadClose ==
    /\ Step("copy")
    /\ IPut(open.ino)
    /\ open' = NoFile
    /\ Goto("savedata")
    /\ UNCHANGED <<dur, saved, isaved, seenVars, cwd, made, stuck, histVars>>

-----------------------------------------------------------------------------
(* The other commands.                                                     *)

Open(p) ==
    /\ Ready /\ open = NoFile
    /\ p \in Given("open") /\ Found(p) # {} /\ core[Target(p)].type # "dir"
    /\ open' = [ino |-> Target(p), path |-> p]
    /\ UNCHANGED <<diskVars, seenVars, cwd, made, stuck, cmd, histVars>>

\* The write of the call, behind the last unit.
WriteUnsaved ==
    /\ Ready /\ open # NoFile /\ Longer
    /\ WriteI(open.ino, core[open.ino].size + 1, [tag |-> "data", path |-> open.path])
    /\ kept' = {k \in kept : k.path # open.path}
    /\ UNCHANGED <<dinode, saved, isaved, itop, userVars, cmd, crashes, torn, loose>>
Write ==
    /\ Ready /\ open # NoFile /\ Longer
    /\ WriteI(open.ino, core[open.ino].size + 1, [tag |-> "data", path |-> open.path])
    /\ kept' = {k \in kept : k.path # open.path}
    /\ cmd' = [op |-> "write", ino |-> 0, step |-> "savedata"]
    /\ UNCHANGED <<dinode, saved, isaved, itop, userVars, crashes, torn, loose>>
CloseUnwritten ==
    /\ Ready /\ open # NoFile
    /\ open' = NoFile
    /\ UNCHANGED <<diskVars, seenVars, cwd, made, stuck, cmd, histVars>>
Close ==
    /\ Ready /\ open # NoFile
    /\ IPut(open.ino)
    /\ open' = NoFile
    /\ UNCHANGED <<dur, saved, isaved, seenVars, cwd, made, stuck, cmd, histVars>>

\* ChDir puts the directory it leaves.
Cd(d) ==
    /\ Ready /\ d \in Dirs(core, cur) \ ({cwd} \cup stuck)
    /\ cwd' = d
    /\ IF cwd \in {Root} \cup made \cup stuck THEN UNCHANGED dinode ELSE IUpdate(cwd)
    /\ UNCHANGED <<dur, saved, isaved, seenVars, made, stuck, open, cmd, histVars>>

-----------------------------------------------------------------------------
(* The bitmaps, and the end of a session: ~SecondFS.                       *)

SaveData ==
    /\ Step("savedata")
    /\ saved' = top
    /\ loose' = {}
    /\ IF cmd.op \in {"load", "write"} THEN Done ELSE Goto("saveinode")
    /\ UNCHANGED <<dinode, dur, isaved, seenVars, userVars, crashes, kept, torn>>

SaveInode ==
    /\ Step("saveinode")
    /\ isaved' = itop
    /\ IF cmd.op = "mkdir" THEN Done ELSE Goto("flush")
    /\ UNCHANGED <<dinode, dur, saved, seenVars, userVars, histVars>>

Exit ==
    /\ Ready
    /\ cmd' = [op |-> "exit", ino |-> 0, step |-> "savedata"]
    /\ UNCHANGED <<diskVars, seenVars, userVars, histVars>>

Bflush ==
    /\ Step("flush")
    /\ dur' = cur
    /\ Goto("update")
    /\ UNCHANGED <<dinode, saved, isaved, seenVars, userVars, histVars>>

\* Inodes in core, but those that are locked.
UpdateInodeTable ==
    /\ Step("update")
    /\ dinode' = [i \in Ino |-> IF i \in (Pinned \cup {open.ino}) \ stuck THEN core[i] ELSE dinode[i]]
    /\ Goto("close")
    /\ UNCHANGED <<dur, saved, isaved, seenVars, userVars, histVars>>

\* A process that is gone leaves what is on the disk.
Gone ==
    /\ core' = dinode' /\ cur' = dur' /\ top' = saved' /\ itop' = isaved'
    /\ cwd' = Root /\ made' = {} /\ stuck' = {} /\ open' = NoFile
    /\ cmd' = Off

\* Every file that a path leads to, with the path and what is in it; but those
\* that it leads to through an inode of X.
Files(I, S, X) ==
    {[path |-> [dir |-> n.dir, name |-> n.name], text |-> Text(I, S, n.ino)] :
        n \in {n \in Names(I, S) :
                    /\ n.dir \in DirsBut(I, S, X)
                    /\ I[n.ino].type = "file" /\ {n.dir, n.ino} \cap X = {}}}

\* The destructor closes what is open.  With that the session has ended.
CloseAll ==
    /\ Step("close")
    /\ IF open = NoFile THEN UNCHANGED dinode ELSE IPut(open.ino)
    /\ kept' = Files(core, cur, stuck)
    /\ UNCHANGED <<dur, saved, isaved, crashes, torn, loose>>
    /\ Gone

-----------------------------------------------------------------------------
(* What can happen at any time.                                            *)

\* The cache evicts a block.
Evict(b) ==
    /\ cmd # Off /\ cur[b] # dur[b]
    /\ dur' = [dur EXCEPT ![b] = cur[b]]
    /\ UNCHANGED <<dinode, saved, isaved, seenVars, userVars, cmd, histVars>>

\* The process ends.
Crash ==
    /\ cmd # Off
    /\ crashes < MaxCrash
    /\ crashes' = crashes + 1
    /\ UNCHANGED <<diskVars, kept, torn>>
    /\ loose' = {}
    /\ Gone

\* Blocks that inodes on the disk have, of which the saved bitmap does not know.
Exposed == UNION {{b \in Blocks(dinode, i) : b >= saved} : i \in Ino}

\* On the disk: every entry leads to an inode in use and no two to the same, no block
\* is in two inodes or free in the bitmap, and directories hold entries.
Consistent ==
    LET named == Names(dinode, dur)
    IN  /\ Exposed = {}
        /\ \A n \in named : dinode[n.ino].type # "free"
        /\ \A m, n \in named : m.ino = n.ino => m = n
        /\ \A i, j \in Ino : i # j => Blocks(dinode, i) \cap Blocks(dinode, j) = {}
        /\ \A d \in Ino : dinode[d].type = "dir" =>
              Units(dinode, dur, d) \subseteq Entry \cup {Dots, Zero}

\* SecondFS: the bitmaps are read; all else is read when it is wanted.
Start ==
    /\ cmd = Off
    /\ cmd' = NoCmd
    /\ torn' = (torn \/ ~ Consistent)
    /\ UNCHANGED <<diskVars, seenVars, userVars, crashes, kept, loose>>

Next ==
    \/ \E p \in Paths :
        \/ \E op \in {"creat", "mkdir", "load"} : BeginNew(op, p) \/ BeginOver(op, p)
        \/ BeginTaken(p) \/ BeginAstray(p)
        \/ Open(p)
    \/ IAlloc \/ WriteDir \/ PutDir \/ WriteDots \/ Copy \/ LoadClose
    \/ Write \/ Close
    \/ \E p \in Paths : Cd(p.dir)
    \/ SaveData \/ SaveInode
    \/ Exit \/ Bflush \/ UpdateInodeTable \/ CloseAll
    \/ \E b \in Block : Evict(b)
    \/ Crash \/ Start

Spec == Init /\ [][Next]_vars

-----------------------------------------------------------------------------
(* Properties.                                                             *)

\* Inodes, blocks and bitmaps stay in their types; a file has the blocks its size
\* says, and the bitmap in core has them.
TypeOK ==
    /\ \A I \in {core, dinode} :
        /\ I \in [Ino -> Inode]
        /\ \A i \in Ino : (I[i].size + U - 1) \div U = Len(I[i].addr)
    /\ \A S \in {cur, dur} : S \in [Block -> [0 .. U - 1 -> Unit]]
    /\ saved \in 0 .. NB /\ top \in saved .. NB
    /\ isaved \in 1 .. NI + 1 /\ itop \in isaved .. NI + 1
    /\ cwd \in Ino /\ made \cup stuck \subseteq Ino /\ loose \subseteq Block
    /\ open = NoFile \/ (open.ino \in Ino /\ open.path \in Path)
    /\ torn \in BOOLEAN

\* A file that was there at the last exit, on a path without a locked inode, and was
\* not written since, is there on its path and has what it had, after any number of
\* sessions that crash at any point and of evictions in any order - as long as no
\* session began on an inconsistent volume, which is what the two properties below
\* say of its causes.
KeptSurvives == ~ torn => kept \subseteq Files(core, cur, {})

\* A block that an inode on the disk has is in the saved bitmap, and so will not be
\* given to another file by the next session, except for a directory's block that
\* creat took (SecondFS.cpp:205 saves no bitmap) and the blocks of a load or mkdir
\* that has not come to its save (SecondFS.cpp:552, 402).
ExposedKnown ==
    (~ torn /\ cmd # Off) =>
        Exposed \subseteq loose \cup
            IF cmd.op \in {"load", "mkdir"}
            THEN Blocks(core, cmd.path.dir) \cup (IF cmd.ino = 0 THEN {} ELSE Blocks(core, cmd.ino))
            ELSE {}

\* Whatever of the entries that calls have made is on the disk leads to an inode on
\* the disk, except those of a file still open since its creat, of a directory made
\* in this session, of an inode left locked, and of the command in progress.
EntryLeads ==
    (~ torn /\ cmd # Off) =>
        \A n \in Names(core, cur) :
            dinode[n.ino].type = "free" =>
                n.ino \in made \cup stuck \cup {open.ino, cmd.ino}

=============================================================================
