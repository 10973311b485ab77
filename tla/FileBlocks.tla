----------------------------- MODULE FileBlocks -----------------------------
(***************************************************************************)
(* The content of files: ReadI, WriteI, Bmap and ITrunc of                 *)
(* src/fs/INode.cpp, with Rdwr and Seek of src/fs/FileManager.cpp that     *)
(* call them.  An inode has DIRECT block numbers, SINGLE numbers of blocks *)
(* of numbers and DOUBLE numbers of blocks of those.                       *)
(*                                                                         *)
(* A block is PER words, of data or of block numbers: what one is, only    *)
(* the way to it tells.  Positions and sizes count words, not bytes.  The  *)
(* content of a block is what the next Bread gets (BufferCache shows that  *)
(* it is what was last written).  Alloc hands out the blocks one after the *)
(* other and none twice (FreeSpace shows it, up to its range), so its      *)
(* failures, which there do not occur, are left out.                       *)
(*                                                                         *)
(* A position below zero, to which Seek lets one go, is left out: ReadI    *)
(* and WriteI then leave the buffer or i_addr, and C++ says nothing of     *)
(* what follows.  So is one of 2 GB, at which the code's 32-bit positions  *)
(* end (there 524,288 blocks, which come before HUGE).                     *)
(***************************************************************************)
EXTENDS Integers, Sequences

CONSTANTS
    DIRECT,     \* SMALL_FILE_BLOCK: direct numbers in i_addr (6)
    SINGLE,     \* numbers of tables (2)
    DOUBLE,     \* numbers of tables of tables (2)
    PER,        \* ADDRESS_PER_INDEX_BLOCK: numbers, here words, in a block (1024)
    Inode,      \* the files
    OpenFile,   \* the File structures
    Data,       \* what can be in a word of data besides 0
    Junk,       \* a word of a block that was never written
    NBLK,       \* bound: the highest block number
    Counts,     \* the lengths of reads and writes
    Offsets,    \* the arguments of seek
    MaxOffset   \* bound: the farthest position to seek

LARGE == DIRECT + SINGLE * PER          \* LARGE_FILE_BLOCK
HUGE  == LARGE + DOUBLE * PER * PER     \* HUGE_FILE_BLOCK

Addr  == 0 .. DIRECT + SINGLE + DOUBLE - 1
Index == 0 .. PER - 1
Block == 1 .. NBLK
Word  == Data \cup {0, Junk} \cup Block

ASSUME ShapeAssumption ==
    /\ DIRECT \in Nat \ {0} /\ SINGLE \in Nat /\ DOUBLE \in Nat /\ PER \in Nat \ {0}
    /\ NBLK \in Nat
    /\ (Data \cup {Junk}) \cap Nat = {} /\ Junk \notin Data
    /\ Counts \subseteq Nat \ {0} /\ Offsets \subseteq Int /\ MaxOffset \in Nat

VARIABLES
    addr,       \* [Inode -> [Addr -> block number or 0]]: i_addr
    size,       \* [Inode -> Nat]: i_size
    store,      \* [Block -> [Index -> Word]]: the blocks
    top,        \* the blocks up to this one have been allocated
    freed,      \* history: blocks given to Free
    file,       \* [OpenFile -> [inode, offset]]: f_inode and f_offset
    io,         \* the read or write in progress: u_IOParam
    got         \* what a read has delivered so far

vars == <<addr, size, store, top, freed, file, io, got>>
mapVars == <<addr, store, top>>

NoIO == [op |-> "none"]
Transfer ==
    [op: {"read"}, of: OpenFile, off: Nat, count: Nat]
        \cup [op: {"write"}, of: OpenFile, off: Nat, count: Nat, val: Data]

Zeros == [k \in Index |-> 0]
Least(a, b) == IF a < b THEN a ELSE b

-----------------------------------------------------------------------------
(* Bmap.  A map is i_addr of the files, the blocks, and the last block     *)
(* allocated.                                                              *)

\* Where the number of logical block lbn is: an index of i_addr, then one of each
\* table on the way.
PathNoModulo(lbn) ==
    IF lbn < DIRECT THEN <<lbn>>
    ELSE IF lbn < LARGE
    THEN <<(lbn - DIRECT) \div PER + DIRECT, (lbn - DIRECT) % PER>>
    ELSE <<(lbn - LARGE) \div (PER * PER) + DIRECT + SINGLE,
           ((lbn - LARGE) \div (PER * PER)) % PER, (lbn - LARGE) % PER>>
Path(lbn) ==
    IF lbn < DIRECT THEN <<lbn>>
    ELSE IF lbn < LARGE
    THEN <<(lbn - DIRECT) \div PER + DIRECT, (lbn - DIRECT) % PER>>
    ELSE <<(lbn - LARGE) \div (PER * PER) + DIRECT + SINGLE,
           ((lbn - LARGE) \div PER) % PER, (lbn - LARGE) % PER>>

\* FileSystem::Alloc: the next block, cleared.
AllocUnmarked(m) == [m EXCEPT !.store[m.top + 1] = Zeros]
Alloc(m) == [m EXCEPT !.top = @ + 1, !.store[m.top + 1] = Zeros]

\* The map after Bmap has allocated, if it had to, what entry k of i_addr, or of
\* the table in block b, is to name.
ByAddr(m, f, k) ==
    IF m.addr[f][k] # 0 THEN m ELSE [Alloc(m) EXCEPT !.addr[f][k] = m.top + 1]
ByTable(m, b, k) ==
    IF m.store[b][k] # 0 THEN m ELSE [Alloc(m) EXCEPT !.store[b][k] = m.top + 1]

Bmap(m, f, lbn) ==
    LET p  == Path(lbn)
        m1 == ByAddr(m, f, p[1])
        b1 == m1.addr[f][p[1]]
        m2 == ByTable(m1, b1, p[2])
        b2 == m2.store[b1][p[2]]
        m3 == ByTable(m2, b2, p[3])
    IN  CASE Len(p) = 1 -> [map |-> m1, blk |-> b1]
          [] Len(p) = 2 -> [map |-> m2, blk |-> b2]
          [] Len(p) = 3 -> [map |-> m3, blk |-> m3.store[b2][p[3]]]

Map == [addr |-> addr, store |-> store, top |-> top]

\* The numbers in a table, and the blocks ITrunc frees: each table's after those
\* it names.
Named(b) == {store[b][k] : k \in Index} \ {0}

FreedShallow(f) ==
    LET at(low, high) == {addr[f][i] : i \in low .. high - 1} \ {0}
        tables  == at(DIRECT, DIRECT + SINGLE)
        doubles == at(DIRECT + SINGLE, DIRECT + SINGLE + DOUBLE)
    IN  at(0, DIRECT) \cup tables \cup doubles
            \cup UNION {Named(b) : b \in tables \cup doubles}
Freed(f) ==
    LET at(low, high) == {addr[f][i] : i \in low .. high - 1} \ {0}
        tables  == at(DIRECT, DIRECT + SINGLE)
        doubles == at(DIRECT + SINGLE, DIRECT + SINGLE + DOUBLE)
        seconds == UNION {Named(b) : b \in doubles}
    IN  at(0, DIRECT) \cup tables \cup doubles \cup seconds
            \cup UNION {Named(b) : b \in tables \cup seconds}

-----------------------------------------------------------------------------
Init ==
    /\ addr = [f \in Inode |-> [i \in Addr |-> 0]]
    /\ size = [f \in Inode |-> 0]
    /\ store = [b \in Block |-> [k \in Index |-> Junk]]
    /\ top = 0
    /\ freed = {}
    /\ file \in [OpenFile -> [inode: Inode, offset: {0}]]
    /\ io = NoIO
    /\ got = << >>

Ready == io = NoIO

\* FAlloc of a closed File structure.
Open(d, f) ==
    /\ Ready
    /\ file' = [file EXCEPT ![d] = [inode |-> f, offset |-> 0]]
    /\ UNCHANGED <<mapVars, size, freed, io, got>>

\* Seek from the start, the present position or the end of the file.
Seek(d, o) ==
    /\ Ready
    /\ \E base \in {0, file[d].offset, size[file[d].inode]} :
        /\ base + o \in 0 .. MaxOffset
        /\ file' = [file EXCEPT ![d].offset = base + o]
    /\ UNCHANGED <<mapVars, size, freed, io, got>>

\* ITrunc, of creat on a file that exists or of the last IPut of one without names.
ITrunc(f) ==
    /\ Ready
    /\ freed' = freed \cup Freed(f)
    /\ addr' = [addr EXCEPT ![f] = [i \in Addr |-> 0]]
    /\ size' = [size EXCEPT ![f] = 0]
    /\ UNCHANGED <<store, top, file, io, got>>

\* Bound: a call of n words begins only if Bmap cannot run out of blocks.
Room(n) == top + 3 * ((n + 2 * (PER - 1)) \div PER) <= NBLK

\* Rdwr up to its call of ReadI or WriteI.
BeginRead(d, n) ==
    /\ Ready /\ Room(n)
    /\ io' = [op |-> "read", of |-> d, off |-> file[d].offset, count |-> n]
    /\ UNCHANGED <<mapVars, size, freed, file, got>>
BeginWrite(d, n, v) ==
    /\ Ready /\ Room(n)
    /\ io' = [op |-> "write", of |-> d, off |-> file[d].offset, count |-> n, val |-> v]
    /\ UNCHANGED <<mapVars, size, freed, file, got>>

\* Rdwr from there.
EndRead ==
    /\ file' = [file EXCEPT ![io.of].offset = io.off]
    /\ io' = NoIO
    /\ got' = << >>
    /\ UNCHANGED <<mapVars, size, freed>>

Lbn == io.off \div PER
Pos == io.off % PER
F   == file[io.of].inode

\* Bmap refuses the block; a read has come to the end of the file.
TooFar == Lbn >= HUGE
AtEndPast == io.off > size[F]
AtEnd == io.off >= size[F]

\* The size of a file of size s after a write up to position end.
SizeAfterAdding(s, end) == s + end
SizeAfter(s, end) == IF s < end THEN end ELSE s

\* One turn of ReadI's loop.  A hole gets a block, too: Bmap does not know what it
\* is called for.
ReadTurn ==
    /\ io.op = "read" /\ io.count # 0
    /\ ~ AtEnd /\ ~ TooFar
    /\ LET n == Least(Least(PER - Pos, io.count), size[F] - io.off)
           b == Bmap(Map, F, Lbn)
       IN  /\ addr' = b.map.addr /\ store' = b.map.store /\ top' = b.map.top
           /\ got' = got \o [k \in 1 .. n |-> b.map.store[b.blk][Pos + k - 1]]
           /\ io' = [io EXCEPT !.off = @ + n, !.count = @ - n]
    /\ UNCHANGED <<size, freed, file>>

ReadEnd ==
    /\ io.op = "read"
    /\ io.count = 0 \/ AtEnd \/ TooFar
    /\ EndRead

\* One turn of WriteI's loop.  (A whole block is not read before it is replaced.)
WriteTurn ==
    /\ io.op = "write" /\ io.count # 0
    /\ ~ TooFar
    /\ LET n == Least(PER - Pos, io.count)
           b == Bmap(Map, F, Lbn)
       IN  /\ addr' = b.map.addr /\ top' = b.map.top
           /\ store' = [b.map.store EXCEPT ![b.blk] =
                           [k \in Index |-> IF k \in Pos .. Pos + n - 1 THEN io.val ELSE @[k]]]
           /\ size' = [size EXCEPT ![F] = SizeAfter(@, io.off + n)]
           /\ io' = [io EXCEPT !.off = @ + n, !.count = @ - n]
    /\ UNCHANGED <<freed, file, got>>

\* All written, or Bmap refuses the block: what was written so far stays.
WriteEnd ==
    /\ io.op = "write"
    /\ io.count = 0 \/ TooFar
    /\ EndRead

Turn == ReadTurn \/ ReadEnd \/ WriteTurn \/ WriteEnd

Next ==
    \/ \E d \in OpenFile :
        \/ \E f \in Inode : Open(d, f)
        \/ \E o \in Offsets : Seek(d, o)
        \/ \E n \in Counts : BeginRead(d, n) \/ \E v \in Data : BeginWrite(d, n, v)
    \/ \E f \in Inode : ITrunc(f)
    \/ Turn

\* A call that has begun goes on.
Spec == Init /\ [][Next]_vars /\ WF_vars(Turn)

-----------------------------------------------------------------------------
(* Properties.                                                             *)

\* Numbers in i_addr and in tables are numbers of blocks, and a call in progress has
\* its count left and a position the file can have.
TypeOK ==
    /\ addr \in [Inode -> [Addr -> 0 .. NBLK]]
    /\ size \in [Inode -> 0 .. HUGE * PER]
    /\ store \in [Block -> [Index -> Word]]
    /\ top \in 0 .. NBLK
    /\ freed \subseteq Block
    /\ file \in [OpenFile -> [inode: Inode, offset: Nat]]
    /\ io = NoIO \/ io \in Transfer
    /\ got \in Seq(Word)

\* The block that Bmap would find for logical block lbn if it allocated none; 0 where
\* it would have to allocate.
BlockAt(f, lbn) ==
    LET p  == Path(lbn)
        b1 == addr[f][p[1]]
        b2 == IF b1 = 0 THEN 0 ELSE store[b1][p[2]]
        b3 == IF b2 = 0 THEN 0 ELSE store[b2][p[3]]
    IN  CASE Len(p) = 1 -> b1
          [] Len(p) = 2 -> b2
          [] Len(p) = 3 -> b3

\* Every place where file f can name a block, with the block it names: the entries of
\* i_addr, and the entries of its tables.
Doubles == DIRECT + SINGLE .. DIRECT + SINGLE + DOUBLE - 1
Tables(f) ==
    {<<i>> : i \in {i \in Addr : i >= DIRECT /\ addr[f][i] # 0}}
        \cup {t \in Doubles \X Index : addr[f][t[1]] # 0 /\ store[addr[f][t[1]]][t[2]] # 0}
TableAt(f, t) == IF Len(t) = 1 THEN addr[f][t[1]] ELSE store[addr[f][t[1]]][t[2]]
Names(f) ==
    {<<f, <<i>>, addr[f][i]>> : i \in Addr}
        \cup {<<f, Append(t, k), store[TableAt(f, t)][k]>> : t \in Tables(f), k \in Index}
InUse == {n \in UNION {Names(f) : f \in Inode} : n[3] # 0}

\* A block is named at one place of one file: no two logical blocks, and no logical
\* block and table, are the same block, through any order of writes beyond the end,
\* reads of holes and truncations (the index arithmetic of INode.cpp:307-371).
OnePlace == \A m, n \in InUse : m[3] = n[3] => m = n

\* A block allocated is in a file or has been freed, and not both: ITrunc gives back
\* every block Bmap took, on all three levels (INode.cpp:536-582).
NoneLost == {n[3] : n \in InUse} = 1 .. top \ freed

\* Files hold what was written: the sizes, words and positions that programs see are
\* those of FlatFile, whatever is a hole, a table or a block that another file had.
Text(f) ==
    [p \in 1 .. size[f] |->
        LET b == BlockAt(f, (p - 1) \div PER)
        IN  IF b = 0 THEN 0 ELSE store[b][(p - 1) % PER]]
Flat == INSTANCE FlatFile
            WITH text <- [f \in Inode |-> Text(f)], MaxSize <- HUGE * PER
ImplementsFlatFile == Flat!Spec

\* A read or write ends: each turn of the loops moves on by at least a word.
IOEnds == io # NoIO ~> io = NoIO

=============================================================================
