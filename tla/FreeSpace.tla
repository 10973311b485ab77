----------------------------- MODULE FreeSpace -----------------------------
(***************************************************************************)
(* The two bitmaps of src/fs/FileSystem.cpp and the calls that take from   *)
(* them and give back: Alloc and Free for blocks, IAlloc and IFree for     *)
(* inodes, with their callers Bmap, ITrunc, MakNode and IPut.              *)
(*                                                                         *)
(* A bitmap is the set of the positions of its one bits.  Position p is    *)
(* bit p % BYTE of byte p \div BYTE; LONG bytes are one word.  The code    *)
(* looks for a zero bit by word, byte and bit, and numbers what it finds   *)
(* by another formula than SetBitmap uses to go back from number to bit.   *)
(*                                                                         *)
(* The counts of free blocks and inodes and s_fmod are left out: nothing   *)
(* but a message depends on them, and the shell never writes them back.    *)
(* s_flock and s_ilock are always 0, and BadBlock is always false.  A      *)
(* regular end of the session saves both bitmaps and the next one loads    *)
(* them, so sessions are not told apart.                                   *)
(***************************************************************************)
EXTENDS Integers, Sequences

CONSTANTS
    BYTE,       \* bits of a byte (8)
    LONG,       \* bytes of a word: sizeof(long long) (8)
    WORDS,      \* words of a bitmap: BLOCK_SIZE / sizeof(long long) (512)
    DSTART,     \* s_dstart, the first block of the data zone (19 or more)
    DIRS,       \* directories on a formatted volume (5)
    Calls       \* bound: how many calls of Alloc and of IAlloc go together

Unique == LONG * LONG * BYTE    \* the numbers AllocFreeBit can give

\* Format marks DIRS blocks and DIRS + 1 inodes within the first byte.  Every
\* block number is the number of a byte of the bitmap.
ASSUME SizesAssumption ==
    /\ BYTE \in Nat \ {0} /\ LONG \in Nat \ {0, 1} /\ WORDS \in Nat
    /\ DSTART \in Nat \ {0} /\ DIRS \in Nat \ {0}
    /\ DIRS < BYTE
    /\ LONG <= WORDS
    /\ DSTART + Unique <= WORDS * LONG
ASSUME BoundsAssumption == Calls \subseteq Nat \X Nat

Position == 0 .. WORDS * LONG * BYTE - 1
Ino      == 0 .. Unique - 1
Root     == 1

VARIABLES
    db,         \* db_addr: the bitmap of the data blocks
    ib,         \* ib_addr: the bitmap of the inodes
    live,       \* inodes with i_mode other than 0
    held,       \* [Ino -> Seq(block number)]: the blocks of a file, as allocated
    looking,    \* IAlloc goes round its loop again
    stopped,    \* exit(-1): no inode left
    handed,     \* history: calls of Alloc
    ihanded,    \* history: calls of IAlloc
    freed,      \* history: blocks given back
    ifreed      \* history: inodes given back

vars == <<db, ib, live, held, looking, stopped, handed, ihanded, freed, ifreed>>
blockVars == <<db, held, handed, freed>>
inodeVars == <<ib, live, looking, stopped, ihanded, ifreed>>

-----------------------------------------------------------------------------
(* Bits and numbers.                                                       *)

WordOf(p) == p \div (LONG * BYTE)
ByteOf(p) == (p \div BYTE) % LONG       \* the byte in its word

\* The number AllocFreeBit returns for a position: byte, word, bit.
NumberUnscaled(p) == ByteOf(p) * BYTE + WordOf(p) * BYTE + (p % BYTE)
Number(p) == ByteOf(p) * (LONG * BYTE) + WordOf(p) * BYTE + (p % BYTE)

First(S) == CHOOSE p \in S : \A q \in S : p <= q

\* The zero bits among which AllocFreeBit takes the first.  It stops at the first
\* word with one; the loop over the word's bytes tests the word's index, so from
\* word LONG on only the first byte is looked at.
Candidates(bits) ==
    LET zeros == Position \ bits
        w     == WordOf(First(zeros))
    IN  IF zeros = {} \/ w < LONG THEN zeros
        ELSE {p \in zeros : WordOf(p) = w /\ ByteOf(p) = 0}

AllocFreeBitUnset(bits) ==
    LET c == Candidates(bits)
    IN  [num |-> IF c = {} THEN -1 ELSE Number(First(c)), bits |-> bits]
AllocFreeBit(bits) ==
    LET c == Candidates(bits)
    IN  IF c = {} THEN [num |-> -1, bits |-> bits]
        ELSE [num |-> Number(First(c)), bits |-> bits \cup {First(c)}]

\* SetBitmap divides by sizeof(unsigned char), which is 1: the byte of the
\* number's index, bit 0.
BitOf(num) == num * BYTE
Given(bits, num) == bits \cup {BitOf(num)}
GivenBack(bits, nums) == bits \ {BitOf(n) : n \in nums}

-----------------------------------------------------------------------------
\* Numbers and bits stay within the volume and the bitmap, whatever is given back.
TypeOK ==
    /\ db \subseteq Position /\ ib \subseteq Position
    /\ live \subseteq Ino
    /\ held \in [Ino -> Seq(Nat)]
    /\ looking \in BOOLEAN /\ stopped \in BOOLEAN
    /\ handed \in Nat /\ ihanded \in Nat
    /\ freed \subseteq Nat /\ ifreed \subseteq Ino

\* Format: inode 0 is marked and not used, inodes 1 to DIRS are directories with
\* one block each.
InitShort ==
    /\ db = 0 .. DIRS - 2
    /\ ib = 0 .. DIRS - 1
    /\ live = 1 .. DIRS
    /\ held = [i \in Ino |-> IF i \in 1 .. DIRS THEN <<DSTART + i - 1>> ELSE << >>]
    /\ looking = FALSE /\ stopped = FALSE
    /\ handed = 0 /\ ihanded = 0
    /\ freed = {} /\ ifreed = {}
Init ==
    /\ db = 0 .. DIRS - 1
    /\ ib = 0 .. DIRS
    /\ live = 1 .. DIRS
    /\ held = [i \in Ino |-> IF i \in 1 .. DIRS THEN <<DSTART + i - 1>> ELSE << >>]
    /\ looking = FALSE /\ stopped = FALSE
    /\ handed = 0 /\ ihanded = 0
    /\ freed = {} /\ ifreed = {}

Ready == ~ looking /\ ~ stopped

Blocks(f) == {held[f][k] : k \in DOMAIN held[f]}

\* Alloc, called by Bmap for a block of file f, of data or of addresses.  The code
\* adds s_dstart before it tests for failure: with no bit left it hands out the
\* block before the data zone, and its failure branch is never taken.
AllocRelative(f) ==
    /\ Ready /\ f \in live
    /\ <<handed + 1, ihanded>> \in Calls
    /\ handed' = handed + 1
    /\ LET free == AllocFreeBit(db)
       IN  /\ held' = [held EXCEPT ![f] = Append(@, free.num)]
           /\ db' = free.bits
    /\ UNCHANGED <<freed, inodeVars>>
Alloc(f) ==
    /\ Ready /\ f \in live
    /\ <<handed + 1, ihanded>> \in Calls
    /\ handed' = handed + 1
    /\ LET free == AllocFreeBit(db)
       IN  /\ held' = [held EXCEPT ![f] = Append(@, DSTART + free.num)]
           /\ db' = free.bits
    /\ UNCHANGED <<freed, inodeVars>>

\* ITrunc: Free for every block of the file.  Free gives SetBitmap the number of
\* the block on the volume, not in the data zone.
ITrunc(f) ==
    /\ db' = GivenBack(db, Blocks(f))
    /\ freed' = freed \cup Blocks(f)
    /\ held' = [held EXCEPT ![f] = << >>]
    /\ UNCHANGED handed

\* creat of a file that exists.
Truncate(f) ==
    /\ Ready /\ f \in live \ {Root}
    /\ ITrunc(f)
    /\ UNCHANGED inodeVars

\* The last IPut of a file without names: ITrunc, no mode, IFree.
Delete(f) ==
    /\ Ready /\ f \in live \ {Root}
    /\ ITrunc(f)
    /\ live' = live \ {f}
    /\ ib' = GivenBack(ib, {f})
    /\ ifreed' = ifreed \cup {f}
    /\ UNCHANGED <<looking, stopped, ihanded>>

-----------------------------------------------------------------------------
(* IAlloc: each turn of its loop is a step.                                *)

\* The number's inode is free: it is cleared and returned.
TurnFound ==
    LET free == AllocFreeBit(ib)
    IN  /\ free.num > 0 /\ free.num \notin live
        /\ ib' = free.bits
        /\ live' = live \cup {free.num}
        /\ looking' = FALSE
        /\ UNCHANGED <<stopped, ifreed>>

\* It is in use: it is put back and marked, and the loop goes on.
TurnOccupied ==
    LET free == AllocFreeBit(ib)
    IN  /\ free.num \in live
        /\ ib' = Given(free.bits, free.num)
        /\ looking' = TRUE
        /\ UNCHANGED <<live, stopped, ifreed>>

\* IGet finds no slot in core: IAlloc returns NULL, the bit stays set.
TurnNoSlot ==
    LET free == AllocFreeBit(ib)
    IN  /\ free.num > 0
        /\ ib' = free.bits
        /\ looking' = FALSE
        /\ UNCHANGED <<live, stopped, ifreed>>

\* No number, or number 0: the program ends.
TurnNone ==
    /\ AllocFreeBit(ib).num <= 0
    /\ ib' = AllocFreeBit(ib).bits
    /\ looking' = FALSE
    /\ stopped' = TRUE
    /\ UNCHANGED <<live, ifreed>>

Turn == TurnFound \/ TurnOccupied \/ TurnNoSlot \/ TurnNone

IAlloc ==
    /\ Ready
    /\ <<handed, ihanded + 1>> \in Calls
    /\ ihanded' = ihanded + 1
    /\ Turn
    /\ UNCHANGED blockVars

IAllocAgain ==
    /\ looking
    /\ Turn
    /\ UNCHANGED <<ihanded, blockVars>>

Next ==
    \/ \E f \in live : Alloc(f) \/ Truncate(f) \/ Delete(f)
    \/ IAlloc
    \/ IAllocAgain

\* The loop that can take its next turn takes it.  That it ends must not rest on
\* the in-core table being full, so TurnNoSlot is not among the turns.
AgainWithSlot ==
    /\ looking
    /\ TurnFound \/ TurnOccupied \/ TurnNone
    /\ UNCHANGED <<ihanded, blockVars>>

Spec == Init /\ [][Next]_vars /\ WF_vars(AgainWithSlot)

-----------------------------------------------------------------------------
(* Properties.                                                             *)

\* No free of a block (of an inode) has reached the bits in use: each number given
\* back names a byte past the first n bits, and the n bits have distinct numbers.
BlocksInRange ==
    /\ DIRS + handed <= Unique
    /\ \A b \in freed : DIRS + handed <= BitOf(b)
InodesInRange ==
    /\ DIRS + 1 + ihanded <= Unique
    /\ \A i \in ifreed : DIRS + 1 + ihanded <= BitOf(i)

\* In range Alloc only ever fills the bitmap, position by position: what Free gives
\* back is not used again (FileSystem.cpp:337 clears another bit than the one
\* AllocFreeBit set).
FillsInOrder == BlocksInRange => db = 0 .. DIRS + handed - 1

\* A block has one owner: no number is in two files, or twice in one.
OneOwner ==
    \A f, g \in Ino : \A k \in DOMAIN held[f], l \in DOMAIN held[g] :
        held[f][k] = held[g][l] => f = g /\ k = l

\* In range a block has one owner, through any sequence of Alloc, ITrunc and
\* deletion.
OneOwnerInRange == BlocksInRange => OneOwner

\* In range a file's blocks are in the data zone, where no inode lies: Alloc's
\* failure, which it does not notice, does not come.
InDataZone ==
    BlocksInRange => \A f \in Ino : Blocks(f) \subseteq DSTART .. DSTART + Unique - 1

\* In range IAlloc never meets an inode in use: "with a bitmap this should not
\* happen" (FileSystem.cpp:225).
FoundFree == InodesInRange => ~ looking

\* IAlloc's loop ends, whatever the bitmap has come to.
IAllocEnds == looking ~> ~ looking

=============================================================================
