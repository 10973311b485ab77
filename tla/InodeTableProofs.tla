-------------------------- MODULE InodeTableProofs --------------------------
(***************************************************************************)
(* What IGet, IPut and the rest do to a table of in-core inodes, for every *)
(* number of slots.                                                        *)
(***************************************************************************)
EXTENDS InodeTable, TLAPS

\* A table in which no inode is twice and the slots not in use are free.
Sound(t) ==
    /\ t \in [Slot -> InCore]
    /\ \A s \in Slot : t[s].count = 0 => t[s] = FreeSlot
    /\ \A s \in Slot : t[s].count # 0 => t[s].number \in Ino
    /\ \A s, u \in Slot :
        t[s].count # 0 /\ t[u].count # 0 /\ t[s].number = t[u].number => s = u

Disk    == [Ino -> Inode]
Entries == [Ino -> [Name -> Ino \cup {Stray, NoEntry}]]

LEMMA Kinds ==
    /\ NINODE \in Nat \ {0} /\ NLINK \in Nat /\ NLINK > 0 /\ NoSlot \notin Slot /\ 1 \in Slot
    /\ RootIno \in Ino /\ Stray \notin Ino /\ NoEntry \notin Ino /\ NoEntry # Stray
    /\ Dot \in Name /\ DotDot \in Name /\ Dot # DotDot
    /\ NeverUsed \in Inode /\ Reclaimed \in Inode /\ FreeSlot \in InCore
    /\ FreeSlot.count = 0 /\ ~ FreeSlot.locked /\ FreeSlot.core = NeverUsed
    /\ NeverUsed.type = "free" /\ Reclaimed.type = "free" /\ NeverUsed.nlink = 0
    /\ Empty \in [Name -> Ino \cup {Stray, NoEntry}]
<1>1. NINODE \in Nat \ {0} /\ NLINK \in Nat /\ NLINK > 0 /\ NoSlot \notin Slot /\ 1 \in Slot
  BY NINODEAssumption, NLINKAssumption DEF Slot, NoSlot
<1>2. NeverUsed \in Inode /\ Reclaimed \in Inode
  BY <1>1 DEF NeverUsed, Reclaimed, Inode, Type, Perm
<1>3. FreeSlot \in InCore
  BY <1>2 DEF FreeSlot, InCore
<1> QED
  BY <1>1, <1>2, <1>3, InoAssumption, NameAssumption
  DEF FreeSlot, NeverUsed, Reclaimed, Empty

\* A slot of a table, by its fields.
LEMMA SlotFields ==
    ASSUME NEW t, Sound(t), NEW s \in Slot
    PROVE  /\ t[s] \in InCore /\ t[s].count \in Nat /\ t[s].locked \in BOOLEAN
           /\ t[s].core \in Inode /\ t[s].core.nlink \in Int /\ t[s].number \in Ino \cup {Stray}
           /\ t[s].count = 0 => ~ t[s].locked
<1>1. t[s] \in InCore
  BY DEF Sound
<1>2. t[s].core \in Inode
  BY <1>1 DEF InCore
<1> QED
  BY <1>1, <1>2, Kinds DEF Sound, InCore, Inode

\* The changes that the operations make to a slot, written out.
LEMMA SetLocked ==
    ASSUME NEW x \in InCore, NEW v \in BOOLEAN
    PROVE  [x EXCEPT !.locked = v] =
                [number |-> x.number, count |-> x.count, locked |-> v,
                 marked |-> x.marked, core |-> x.core]
BY DEF InCore

LEMMA SetMarked ==
    ASSUME NEW x \in InCore, NEW v \in BOOLEAN
    PROVE  [x EXCEPT !.marked = v] =
                [number |-> x.number, count |-> x.count, locked |-> x.locked,
                 marked |-> v, core |-> x.core]
BY DEF InCore

LEMMA SetCount ==
    ASSUME NEW x \in InCore, NEW n \in Nat
    PROVE  [x EXCEPT !.count = n] =
                [number |-> x.number, count |-> n, locked |-> x.locked,
                 marked |-> x.marked, core |-> x.core]
BY DEF InCore

LEMMA LockGone ==
    ASSUME NEW x \in InCore
    PROVE  [x EXCEPT !.locked = FALSE] =
                [number |-> x.number, count |-> x.count, locked |-> FALSE,
                 marked |-> x.marked, core |-> x.core]
BY SetLocked

LEMMA CountAndLock ==
    ASSUME NEW x \in InCore
    PROVE  [[x EXCEPT !.count = @ + 1] EXCEPT !.locked = TRUE] =
                [number |-> x.number, count |-> x.count + 1, locked |-> TRUE,
                 marked |-> x.marked, core |-> x.core]
<1> DEFINE y == [number |-> x.number, count |-> x.count + 1, locked |-> x.locked,
                 marked |-> x.marked, core |-> x.core]
<1>1. [x EXCEPT !.count = @ + 1] = y /\ y \in InCore
  BY DEF InCore
<1>2. y.number = x.number /\ y.count = x.count + 1 /\ y.marked = x.marked /\ y.core = x.core
  OBVIOUS
<1> HIDE DEF y
<1>3. [y EXCEPT !.locked = TRUE] =
          [number |-> y.number, count |-> y.count, locked |-> TRUE,
           marked |-> y.marked, core |-> y.core]
  BY <1>1, SetLocked
<1> QED
  BY <1>1, <1>2, <1>3

LEMMA CountGone ==
    ASSUME NEW x \in InCore, x.count # 0
    PROVE  [[x EXCEPT !.locked = FALSE] EXCEPT !.count = @ - 1] =
                [number |-> x.number, count |-> x.count - 1, locked |-> FALSE,
                 marked |-> x.marked, core |-> x.core]
<1> DEFINE y == [number |-> x.number, count |-> x.count, locked |-> FALSE,
                 marked |-> x.marked, core |-> x.core]
<1>1. [x EXCEPT !.locked = FALSE] = y
  BY LockGone
<1>2. y \in InCore /\ x.count - 1 \in Nat
  BY DEF InCore
<1>3. /\ y.number = x.number /\ y.count = x.count /\ y.marked = x.marked /\ y.core = x.core
      /\ ~ y.locked /\ y.locked = FALSE
  OBVIOUS
<1> HIDE DEF y
<1>4. [y EXCEPT !.count = x.count - 1] =
          [number |-> y.number, count |-> x.count - 1, locked |-> y.locked,
           marked |-> y.marked, core |-> y.core]
  BY <1>2, SetCount
<1> QED
  BY <1>1, <1>3, <1>4

LEMMA CoreChange ==
    ASSUME NEW x \in InCore, NEW c \in Inode
    PROVE  [[x EXCEPT !.core = c] EXCEPT !.marked = TRUE] =
                [number |-> x.number, count |-> x.count, locked |-> x.locked,
                 marked |-> TRUE, core |-> c]
<1> DEFINE y == [number |-> x.number, count |-> x.count, locked |-> x.locked,
                 marked |-> x.marked, core |-> c]
<1>1. [x EXCEPT !.core = c] = y /\ y \in InCore
  BY DEF InCore
<1>2. y.number = x.number /\ y.count = x.count /\ y.locked = x.locked /\ y.core = c
  OBVIOUS
<1> HIDE DEF y
<1>3. [y EXCEPT !.marked = TRUE] =
          [number |-> y.number, count |-> y.count, locked |-> y.locked,
           marked |-> TRUE, core |-> y.core]
  BY <1>1, SetMarked
<1> QED
  BY <1>1, <1>2, <1>3

\* A change to the slot of a loaded inode that leaves the number.
LEMMA SlotReplaced ==
    ASSUME NEW t, Sound(t), NEW s \in Slot, t[s].count # 0,
           NEW q \in [Slot -> InCore], q[s].count # 0, q[s].number = t[s].number,
           \A u \in Slot : u # s => q[u] = t[u]
    PROVE  Sound(q)
BY DEF Sound

\* IGet: the inode's only slot, or a free one, with one reference more, and locked.
LEMMA Getting ==
    ASSUME NEW t, Sound(t), NEW d \in Disk, NEW i \in Ino, NEW s, Gets(t, i, s)
    PROVE  LET g == Got(t, d, i, s)
           IN  /\ s \in Slot /\ ~ t[s].locked
               /\ Sound(g)
               /\ g[s].count = t[s].count + 1 /\ g[s].locked /\ g[s].number = i
               /\ t[s].count # 0 => t[s].number = i
               /\ g[s].core = IF t[s].count # 0 THEN t[s].core ELSE d[i]
               /\ g[s].marked <=> (t[s].count # 0 /\ t[s].marked)
               /\ \A u \in Slot : u # s => g[u] = t[u]
               /\ t[s].count = 0 => \A u \in Slot : t[u].count # 0 => t[u].number # i
<1> DEFINE g == Got(t, d, i, s)
<1>1. s \in Slot
  BY DEF Gets, IsFirst, IsLoaded, GetFreeInode
<1>2. t[s].count = 0 => \A u \in Slot : t[u].count # 0 => t[u].number # i
  BY DEF Gets, IsFirst, IsLoaded, GetFreeInode
<1>3. t[s].count # 0 => t[s].number = i /\ ~ t[s].locked
  BY DEF Gets, IsFirst, IsLoaded, GetFreeInode
<1>4. /\ t[s] \in InCore /\ t[s].count \in Nat /\ (t[s].count = 0 => ~ t[s].locked)
      /\ t[s].core \in Inode
  BY <1>1, SlotFields
<1>5. CASE t[s].count # 0
  <2> DEFINE v == [number |-> t[s].number, count |-> t[s].count + 1, locked |-> TRUE,
                   marked |-> t[s].marked, core |-> t[s].core]
  <2>1. g = [t EXCEPT ![s] = v]
    <3>1. t \in [Slot -> InCore]
      BY DEF Sound
    <3>2. g = [t EXCEPT ![s] = [[t[s] EXCEPT !.count = @ + 1] EXCEPT !.locked = TRUE]]
      BY <1>1, <1>5, <3>1 DEF Got
    <3>3. [[t[s] EXCEPT !.count = @ + 1] EXCEPT !.locked = TRUE] = v
      BY <1>4, CountAndLock
    <3> QED
      BY <3>2, <3>3
  <2>2. v \in InCore /\ v.count # 0 /\ v.number = t[s].number
    BY <1>4 DEF InCore
  <2> HIDE DEF g, v
  <2>3. Sound(g) /\ g[s] = v /\ \A u \in Slot : u # s => g[u] = t[u]
    <3>1. g \in [Slot -> InCore] /\ g[s] = v /\ \A u \in Slot : u # s => g[u] = t[u]
      BY <1>1, <2>1, <2>2 DEF Sound
    <3>2. Sound(g)
      BY <1>1, <1>5, <2>2, <3>1, SlotReplaced
    <3> QED
      BY <3>1, <3>2
  <2>4. g[s].count = t[s].count + 1 /\ g[s].locked /\ g[s].number = t[s].number
        /\ g[s].core = t[s].core /\ g[s].marked = t[s].marked
    BY <2>3 DEF v
  <2> QED
    BY <1>1, <1>2, <1>3, <1>5, <2>3, <2>4 DEF g
<1>6. CASE t[s].count = 0
  <2> DEFINE v == [number |-> i, count |-> 1, locked |-> TRUE, marked |-> FALSE, core |-> d[i]]
  <2>1. g = [t EXCEPT ![s] = v]
    BY <1>6 DEF Got
  <2>2. v \in InCore
    BY DEF InCore, Disk
  <2>3. /\ g[s] = v /\ \A u \in Slot : u # s => g[u] = t[u]
        /\ g \in [Slot -> InCore]
    BY <1>1, <2>1, <2>2 DEF Sound
  <2>4. g[s].count = 1 /\ g[s].locked /\ g[s].number = i /\ g[s].core = d[i] /\ ~ g[s].marked
    BY <2>3
  <2> HIDE DEF g, v
  <2>5. Sound(g)
    <3>1. \A u \in Slot : g[u].count = 0 => g[u] = FreeSlot
      BY <2>3, <2>4 DEF Sound
    <3>2. \A u \in Slot : g[u].count # 0 => g[u].number \in Ino
      BY <2>3, <2>4 DEF Sound
    <3>3. \A u, w \in Slot :
            g[u].count # 0 /\ g[w].count # 0 /\ g[u].number = g[w].number => u = w
      BY <1>2, <1>6, <2>3, <2>4 DEF Sound
    <3> QED
      BY <2>3, <3>1, <3>2, <3>3 DEF Sound
  <2> QED
    <3>1. g[s].count = t[s].count + 1 /\ (t[s].count # 0 <=> FALSE)
      BY <1>6, <2>4
    <3>2. g[s].marked <=> (t[s].count # 0 /\ t[s].marked)
      BY <1>6, <2>4
    <3> QED
      BY <1>1, <1>2, <1>4, <1>6, <2>3, <2>4, <2>5, <3>1, <3>2 DEF g
<1> QED
  BY <1>5, <1>6

\* IPut: one reference less and no lock; the last one frees the slot.
LEMMA Putting ==
    ASSUME NEW t, Sound(t), NEW s \in Slot, t[s].count # 0
    PROVE  LET p == IPut(t, s)
           IN  /\ Sound(p) /\ ~ p[s].locked
               /\ p[s].count = t[s].count - 1
               /\ p[s].count # 0 => p[s].number = t[s].number /\ p[s].core = t[s].core
                                    /\ p[s].marked = t[s].marked
               /\ \A u \in Slot : u # s => p[u] = t[u]
<1> DEFINE p == IPut(t, s)
<1>0. /\ t[s] \in InCore /\ t[s].count \in Nat /\ t[s].core \in Inode
      /\ t \in [Slot -> InCore]
  BY SlotFields DEF Sound
<1>1. CASE t[s].count = 1
  <2>1. p = [t EXCEPT ![s] = FreeSlot]
    BY <1>1 DEF IPut, IsLast
  <2>2. /\ p[s] = FreeSlot /\ \A u \in Slot : u # s => p[u] = t[u]
        /\ p \in [Slot -> InCore]
    BY <1>0, <2>1, Kinds
  <2> HIDE DEF p
  <2>3. Sound(p)
    BY <2>2, Kinds DEF Sound
  <2> QED
    BY <1>1, <2>2, <2>3, Kinds DEF p
<1>2. CASE t[s].count # 1
  <2> DEFINE v == [number |-> t[s].number, count |-> t[s].count - 1, locked |-> FALSE,
                   marked |-> t[s].marked, core |-> t[s].core]
  <2>1. p = [t EXCEPT ![s] = v]
    <3>1. p = [t EXCEPT ![s] = [[t[s] EXCEPT !.locked = FALSE] EXCEPT !.count = @ - 1]]
      BY <1>0, <1>2 DEF IPut, IsLast, Prele
    <3>2. [[t[s] EXCEPT !.locked = FALSE] EXCEPT !.count = @ - 1] = v
      BY <1>0, CountGone
    <3> QED
      BY <3>1, <3>2
  <2>2. v \in InCore /\ v.count # 0 /\ v.number = t[s].number
    BY <1>0, <1>2 DEF InCore
  <2> HIDE DEF p, v
  <2>3. Sound(p) /\ p[s] = v /\ \A u \in Slot : u # s => p[u] = t[u]
    <3>1. p \in [Slot -> InCore] /\ p[s] = v /\ \A u \in Slot : u # s => p[u] = t[u]
      BY <2>1, <2>2 DEF Sound
    <3>2. Sound(p)
      BY <2>2, <3>1, SlotReplaced
    <3> QED
      BY <3>1, <3>2
  <2> QED
    BY <2>3 DEF p, v
<1> QED
  BY <1>1, <1>2

LEMMA Unlocking ==
    ASSUME NEW t, Sound(t), NEW s \in Slot
    PROVE  LET p == Prele(t, s)
           IN  /\ Sound(p) /\ ~ p[s].locked
               /\ p[s].count = t[s].count /\ p[s].number = t[s].number /\ p[s].core = t[s].core
               /\ p[s].marked = t[s].marked
               /\ \A u \in Slot : u # s => p[u] = t[u]
<1> DEFINE p == Prele(t, s)
           v == [number |-> t[s].number, count |-> t[s].count, locked |-> FALSE,
                 marked |-> t[s].marked, core |-> t[s].core]
<1>0. /\ t[s] \in InCore
      /\ t \in [Slot -> InCore]
  BY SlotFields DEF Sound
<1>1. p = [t EXCEPT ![s] = v]
  <2>1. [t[s] EXCEPT !.locked = FALSE] = v
    BY <1>0, LockGone
  <2> QED
    BY <1>0, <2>1 DEF Prele
<1>2. v \in InCore
  BY <1>0 DEF InCore
<1>3. /\ p[s] = v /\ \A u \in Slot : u # s => p[u] = t[u]
      /\ p \in [Slot -> InCore]
  BY <1>0, <1>1, <1>2
<1>4. v.count = t[s].count /\ v.number = t[s].number
  OBVIOUS
<1>5. t[s].count = 0 => v = FreeSlot
  <2> SUFFICES ASSUME t[s].count = 0 PROVE v = FreeSlot
    OBVIOUS
  <2>1. t[s] = FreeSlot
    BY DEF Sound
  <2> QED
    BY <2>1 DEF FreeSlot
<1> HIDE DEF p, v
<1>6. Sound(p)
  <2>1. \A u \in Slot : p[u].count = 0 => p[u] = FreeSlot
    BY <1>3, <1>4, <1>5 DEF Sound
  <2>2. \A u \in Slot : p[u].count # 0 => p[u].number \in Ino
    BY <1>3, <1>4 DEF Sound
  <2>3. \A u, w \in Slot :
          p[u].count # 0 /\ p[w].count # 0 /\ p[u].number = p[w].number => u = w
    BY <1>3, <1>4 DEF Sound
  <2> QED
    BY <1>3, <2>1, <2>2, <2>3 DEF Sound
<1> QED
  BY <1>3, <1>6 DEF p, v

LEMMA Changing ==
    ASSUME NEW t, Sound(t), NEW s \in Slot, t[s].count # 0, NEW c \in Inode
    PROVE  LET p == Changed(t, s, c)
           IN  /\ Sound(p) /\ p[s].core = c /\ p[s].marked
               /\ p[s].count = t[s].count /\ p[s].number = t[s].number /\ p[s].locked = t[s].locked
               /\ \A u \in Slot : u # s => p[u] = t[u]
<1> DEFINE p == Changed(t, s, c)
           v == [number |-> t[s].number, count |-> t[s].count, locked |-> t[s].locked,
                 marked |-> TRUE, core |-> c]
<1>0. /\ t[s] \in InCore
      /\ t \in [Slot -> InCore]
  BY SlotFields DEF Sound
<1>1. p = [t EXCEPT ![s] = v]
  <2>1. p = [t EXCEPT ![s] = [[t[s] EXCEPT !.core = c] EXCEPT !.marked = TRUE]]
    BY <1>0 DEF Changed
  <2>2. [[t[s] EXCEPT !.core = c] EXCEPT !.marked = TRUE] = v
    BY <1>0, CoreChange
  <2> QED
    BY <2>1, <2>2
<1>2. v \in InCore /\ v.count # 0 /\ v.number = t[s].number
  BY <1>0 DEF InCore
<1> HIDE DEF p, v
<1>3. Sound(p) /\ p[s] = v /\ \A u \in Slot : u # s => p[u] = t[u]
  <2>1. p \in [Slot -> InCore] /\ p[s] = v /\ \A u \in Slot : u # s => p[u] = t[u]
    BY <1>1, <1>2 DEF Sound
  <2>2. Sound(p)
    BY <1>2, <2>1, SlotReplaced
  <2> QED
    BY <2>1, <2>2
<1> QED
  BY <1>3 DEF p, v

\* What calls make of the disk inodes and the directories has their type.
LEMMA PutTypes ==
    ASSUME NEW t, Sound(t), NEW s \in Slot, NEW d \in Disk, NEW e \in Entries
    PROVE  /\ IPutDisk(t, d, s) \in Disk /\ IPutEntry(t, e, s) \in Entries
           /\ IUpdate(t, d, s) \in Disk
<1>1. t[s].core \in Inode
  BY SlotFields
<1>2. IUpdate(t, d, s) \in Disk
  BY <1>1 DEF IUpdate, Disk
<1>3. IPutDisk(t, d, s) \in Disk
  BY <1>2, Kinds DEF IPutDisk, Disk
<1>4. IPutEntry(t, e, s) \in Entries
  BY Kinds DEF IPutEntry, Entries
<1> QED
  BY <1>2, <1>3, <1>4

LEMMA UpdateTypes ==
    ASSUME NEW t, Sound(t), NEW d \in Disk
    PROVE  UpdateInodeTable(t, d) \in Disk
<1> DEFINE Written(i) == {s \in IsLoaded(t, i) : ~t[s].locked /\ t[s].marked}
<1>1. ASSUME NEW i \in Ino, Written(i) # {}
      PROVE  t[CHOOSE s \in Written(i) : TRUE].core \in Inode
  <2>1. (CHOOSE s \in Written(i) : TRUE) \in Slot
    BY <1>1 DEF IsLoaded
  <2> QED
    BY <2>1, SlotFields
<1> QED
  BY <1>1 DEF UpdateInodeTable, Disk

=============================================================================
