----------------------------- MODULE InodeTable -----------------------------
(***************************************************************************)
(* The in-core inode table of src/fs/FileSystem.cpp (class InodeTable) and *)
(* the parts of src/fs/INode.cpp it calls.  A table t is a function from   *)
(* slots to in-core inodes; d holds the disk inodes and e the directory    *)
(* contents as a reader gets them through the buffer cache (BlockStore's   *)
(* content: IUpdate and WriteI go through it).  A file system call makes   *)
(* several table operations in a row, so each is an operator from (t, d,   *)
(* e) to its result.                                                       *)
(*                                                                         *)
(* Of an inode the model keeps its type, its permission bits as far as     *)
(* calls read or change them, and its link count; of a directory, the      *)
(* inode number each name has.  i_uid, i_gid, times and sizes decide       *)
(* nothing here: the only user is the superuser.                           *)
(***************************************************************************)
EXTENDS Integers, FiniteSets

CONSTANTS
    NINODE,     \* in-core inodes (InodeTable::NINODE, 100 in the code)
    Ino,        \* the inode numbers in play
    RootIno,    \* Constant::ROOTINO
    Stray,      \* the number -1 that IPut leaves in a free slot
    NoEntry,    \* m_ino = 0: no directory entry
    Name,       \* path components
    Dot, DotDot,
    NLINK       \* the limit of i_nlink in Link (255 in the code)

ASSUME NINODEAssumption == NINODE \in Nat \ {0}
ASSUME InoAssumption ==
    /\ RootIno \in Ino
    /\ Stray \notin Ino
    /\ NoEntry \notin Ino \cup {Stray}
ASSUME NameAssumption == {Dot, DotDot} \subseteq Name /\ Dot # DotDot
ASSUME NLINKAssumption == NLINK \in Nat \ {0}

Slot   == 1 .. NINODE
NoSlot == 0

\* i_mode: 0 for a free inode, else a type and the rwx bits: none of them, as
\* Format and mkdir set them, or with all of creat's 0777.  i_nlink is an int
\* that unlink takes below 0 where names outnumber it (bound: -1).
Type  == {"free", "file", "dir"}
Perm  == {"none", "some", "all"}
Inode == [type : Type, perm : Perm, nlink : -1 .. NLINK]

NeverUsed == [type |-> "free", perm |-> "none", nlink |-> 0]

\* After ITrunc (i_nlink = 1) and i_mode = 0.
Reclaimed == [type |-> "free", perm |-> "none", nlink |-> 1]

\* i_flag is ILOCK (locked) and IUPD | IACC (marked); IWANT wakes nobody.
InCore == [number : Ino \cup {Stray}, count : Nat, locked : BOOLEAN,
           marked : BOOLEAN, core : Inode]

\* A slot with i_count = 0.  What IPut leaves in its other fields is
\* overwritten by the IGet that next takes it.
FreeSlot == [number |-> Stray, count |-> 0, locked |-> FALSE,
             marked |-> FALSE, core |-> NeverUsed]

Empty == [n \in Name |-> NoEntry]

-----------------------------------------------------------------------------
\* The first slot of a set, in the order the code's loops try them.
IsFirst(s, S) == s \in S /\ \A u \in S : s <= u

\* Mutated form: an inode with a single user is not found.
IsLoadedShared(t, i) == {s \in Slot : t[s].number = i /\ t[s].count > 1}

IsLoaded(t, i)  == {s \in Slot : t[s].number = i /\ t[s].count # 0}
GetFreeInode(t) == {s \in Slot : t[s].count = 0}

\* IGet(i) returns slot s; it spins as long as the inode is loaded and locked.
Gets(t, i, s) ==
    \/ IsFirst(s, IsLoaded(t, i)) /\ ~t[s].locked
    \/ IsLoaded(t, i) = {} /\ IsFirst(s, GetFreeInode(t))

\* The table after it: one reference more on a loaded inode, or the disk
\* inode copied into the slot; locked either way.
Got(t, d, i, s) ==
    IF t[s].count # 0
    THEN [t EXCEPT ![s].count = @ + 1, ![s].locked = TRUE]
    ELSE [t EXCEPT ![s] = [number |-> i, count |-> 1, locked |-> TRUE,
                           marked |-> FALSE, core |-> d[i]]]

\* "Inode Table Overflow !": IGet returns NULL.
Overflow(t, i) == IsLoaded(t, i) = {} /\ GetFreeInode(t) = {}

-----------------------------------------------------------------------------
\* Mutated form: the lock is kept while other references remain.
PreleLast(t, s) == IF t[s].count = 1 THEN [t EXCEPT ![s].locked = FALSE] ELSE t

Prele(t, s) == [t EXCEPT ![s].locked = FALSE]

\* Mutated form: inodes without a name are given up while others hold them.
IsLastAny(t, s) == t[s].count = 1 \/ t[s].core.nlink <= 0

IsLast(t, s) == t[s].count = 1

\* IPut gives up an inode that no name and no other reference is left for.
Dropped(t, s) == IsLast(t, s) /\ t[s].core.nlink <= 0

\* IUpdate: the disk inode, when IUPD or IACC says so.
IUpdate(t, d, s) ==
    IF t[s].marked THEN [d EXCEPT ![t[s].number] = t[s].core] ELSE d

\* IPut, on the table, on the disk inodes and on the directory contents.
IPut(t, s) ==
    IF IsLast(t, s)
    THEN [t EXCEPT ![s] = FreeSlot]
    ELSE [Prele(t, s) EXCEPT ![s].count = @ - 1]

IPutDisk(t, d, s) ==
    IF Dropped(t, s) THEN [d EXCEPT ![t[s].number] = Reclaimed]
    ELSE IF IsLast(t, s) THEN IUpdate(t, d, s)
    ELSE d

IPutEntry(t, e, s) ==
    IF Dropped(t, s) THEN [e EXCEPT ![t[s].number] = Empty] ELSE e

\* UpdateInodeTable: every loaded inode that is not locked.
UpdateInodeTable(t, d) ==
    LET Written(i) == {s \in IsLoaded(t, i) : ~t[s].locked /\ t[s].marked}
    IN  [i \in Ino |->
            IF Written(i) = {} THEN d[i] ELSE t[CHOOSE s \in Written(i) : TRUE].core]

\* Mutated form: IUPD is not set.
ChangedUnmarked(t, s, c) == [t EXCEPT ![s].core = c]

\* In-core changes: a new core, marked IUPD.
Changed(t, s, c) == [t EXCEPT ![s].core = c, ![s].marked = TRUE]

=============================================================================
