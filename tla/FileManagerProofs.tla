-------------------------- MODULE FileManagerProofs -------------------------
(***************************************************************************)
(* For every number of inodes, files and descriptors and every choice of   *)
(* calls: the tables of FileManager.tla keep their types, i_count counts   *)
(* the users of an inode and f_count those of an open file, and only the   *)
(* call in progress, or one that left its lock behind, has an inode        *)
(* locked.                                                                 *)
(***************************************************************************)
EXTENDS FileManagerProps, InodeTableProofs, Arithmetic, FiniteSetTheorems

-----------------------------------------------------------------------------
(* The inductive invariant.                                                *)

\* The references to slot s that outlast the call in progress.
Base(s) ==
    Cardinality(FilesOf(s)) + (IF s = cdir THEN 1 ELSE 0) + (IF s = Root THEN 1 ELSE 0) + lost[s]

\* The inode the call in progress holds besides call.mate, and the slots it may
\* have locked.
HeldSlot == IF stage \in {"search", "create", "erase"} THEN cur ELSE NoSlot
HeldLock == IF stage \in {"search", "create"} THEN {cur} ELSE {}

\* The counts of table t are those of a moment when the call in progress holds
\* slots a and b, and its locks are in L or were left by earlier calls.
Held(t, a, b, L) ==
    /\ Sound(t)
    /\ \A s \in Slot :
        t[s].count = Base(s) + (IF a = s THEN 1 ELSE 0) + (IF b = s THEN 1 ELSE 0)
    /\ \A s \in Slot : t[s].locked => s \in L \cup stuck

\* What a call remembers from one step to the next is there when it needs it.
CallOK ==
    /\ stage = "enter" => cur \in {Root, cdir}
    /\ stage \in {"search", "create", "erase", "lock"} => cur \in Slot
    /\ stage = "lock" => tab[cur].count # 0
    /\ stage \in {"get", "erase"} => call.target \in Ino
    /\ stage \in {"idle", "erase", "lock", "exit"} => call.mate = NoSlot
    /\ call.mate # NoSlot => call.mode = "CREATE"
    /\ stage # "dead" /\ call.mate # NoSlot => tab[call.mate].core.nlink < NLINK

\* The first file of a link is held while the new name is searched for, and with
\* it its link count.
IInv ==
    /\ TypeOK
    /\ FileCountIsFds
    /\ Sound(tab)
    /\ stage # "dead" => Held(tab, HeldSlot, call.mate, HeldLock)
    /\ CallOK

-----------------------------------------------------------------------------
(* Sets of files and descriptors.                                          *)

LEMMA Sizes ==
    /\ NFILE \in Nat /\ NOFILES \in Nat
    /\ FD \in SUBSET Nat /\ File \in SUBSET Nat /\ NoFile \notin FD /\ NoFile \notin File
    /\ IsFiniteSet(FD) /\ IsFiniteSet(File)
    /\ Root \in Slot /\ NoSlot \notin Slot
<1>1. NFILE \in Nat /\ NOFILES \in Nat
  BY NFILEAssumption
<1>2. IsFiniteSet(FD) /\ IsFiniteSet(File)
  BY <1>1, FS_Interval DEF FD, File
<1> QED
  BY <1>1, <1>2, Kinds DEF FD, File, NoFile, Root

LEMMA LowestIn ==
    ASSUME NEW S \in SUBSET Nat, S # {}
    PROVE  Lowest(S) \in S
BY LeastElement DEF Lowest

LEMMA FinitelyMany ==
    /\ \A s : IsFiniteSet(FilesOf(s)) /\ Cardinality(FilesOf(s)) \in Nat
    /\ \A f : /\ IsFiniteSet({fd \in FD : ofile[fd] = f})
              /\ Cardinality({fd \in FD : ofile[fd] = f}) \in Nat
<1>1. ASSUME NEW s PROVE IsFiniteSet(FilesOf(s)) /\ Cardinality(FilesOf(s)) \in Nat
  <2>1. FilesOf(s) \in SUBSET File
    BY DEF FilesOf
  <2> QED
    BY <2>1, Sizes, FS_Subset, FS_CardinalityType
<1>2. ASSUME NEW f
      PROVE  /\ IsFiniteSet({fd \in FD : ofile[fd] = f})
             /\ Cardinality({fd \in FD : ofile[fd] = f}) \in Nat
  <2>1. {fd \in FD : ofile[fd] = f} \in SUBSET FD
    OBVIOUS
  <2> QED
    BY <2>1, Sizes, FS_Subset, FS_CardinalityType
<1> QED
  BY <1>1, <1>2

\* An open file, the current directory and the root each count.
LEMMA BaseCounts ==
    ASSUME TypeOK, NEW s \in Slot
    PROVE  /\ Base(s) \in Nat
           /\ s \in {Root, cdir} => Base(s) # 0
           /\ \A f \in FilesOf(s) : Base(s) # 0
<1>1. Cardinality(FilesOf(s)) \in Nat /\ lost[s] \in Nat
  BY FinitelyMany DEF TypeOK
<1>2. ASSUME NEW f \in FilesOf(s) PROVE Cardinality(FilesOf(s)) # 0
  BY FinitelyMany, FS_EmptySet
<1> QED
  BY <1>1, <1>2 DEF Base

\* A descriptor's file is open.
LEMMA OpenFileOf ==
    ASSUME TypeOK, FileCountIsFds, NEW fd \in FD, ofile[fd] # NoFile
    PROVE  /\ ofile[fd] \in File /\ file[ofile[fd]].inode \in Slot
           /\ file[ofile[fd]].count \in Nat \ {0}
           /\ ofile[fd] \in FilesOf(file[ofile[fd]].inode)
<1>1. ofile[fd] \in File
  BY DEF TypeOK
<1>2. file[ofile[fd]].inode \in Slot /\ file[ofile[fd]].count \in Nat
  BY <1>1 DEF TypeOK, OpenFile
<1>3. file[ofile[fd]].count # 0
  <2> DEFINE fds == {g \in FD : ofile[g] = ofile[fd]}
  <2>1. file[ofile[fd]].count = Cardinality(fds)
    BY <1>1 DEF FileCountIsFds
  <2>2. IsFiniteSet(fds) /\ fd \in fds
    BY FinitelyMany
  <2> HIDE DEF fds
  <2> QED
    BY <2>1, <2>2, FS_EmptySet
<1> QED
  BY <1>1, <1>2, <1>3 DEF FilesOf

-----------------------------------------------------------------------------
(* What the operations on the table do to the references of a call.        *)

LEMMA HeldSwap ==
    ASSUME TypeOK, NEW t, NEW a, NEW b, NEW L, Held(t, a, b, L)
    PROVE  Held(t, b, a, L)
BY BaseCounts DEF Held

LEMMA HeldCounts ==
    ASSUME TypeOK, NEW t, NEW a, NEW b, NEW L, Held(t, a, b, L), NEW s \in Slot
    PROVE  /\ t[s].count \in Nat
           /\ a = s \/ b = s => t[s].count # 0
           /\ a = s /\ b = s => t[s].count > 1
           /\ Base(s) # 0 => t[s].count # 0
           /\ Base(s) # 0 /\ (a = s \/ b = s) => t[s].count > 1
BY BaseCounts DEF Held

LEMMA HeldPut ==
    ASSUME TypeOK, NEW t, NEW a \in Slot, NEW b, NEW L, Held(t, a, b, L)
    PROVE  LET p == IPut(t, a)
           IN  /\ Held(p, NoSlot, b, L \ {a})
               /\ \A s \in Slot : p[s].count # 0 => /\ p[s].number = t[s].number
                                                    /\ p[s].core = t[s].core
               /\ \A s \in Slot : s # a => p[s] = t[s]
<1> DEFINE p == IPut(t, a)
<1>1. t[a].count # 0 /\ Sound(t)
  BY HeldCounts DEF Held
<1>2. /\ Sound(p) /\ ~ p[a].locked /\ p[a].count = t[a].count - 1
      /\ p[a].count # 0 => p[a].number = t[a].number /\ p[a].core = t[a].core
      /\ \A s \in Slot : s # a => p[s] = t[s]
  BY <1>1, Putting
<1> HIDE DEF p
<1>3. ASSUME NEW s \in Slot
      PROVE  p[s].count = Base(s) + (IF NoSlot = s THEN 1 ELSE 0) + (IF b = s THEN 1 ELSE 0)
  BY <1>2, Sizes, BaseCounts DEF Held
<1>4. ASSUME NEW s \in Slot, p[s].locked
      PROVE  s \in (L \ {a}) \cup stuck
  BY <1>2, <1>4 DEF Held
<1>5. Held(p, NoSlot, b, L \ {a})
  BY <1>2, <1>3, <1>4 DEF Held
<1> QED
  BY <1>2, <1>5 DEF p

LEMMA HeldGet ==
    ASSUME TypeOK, NEW t, NEW b, NEW L, Held(t, NoSlot, b, L),
           NEW d \in Disk, NEW i \in Ino, NEW s, Gets(t, i, s)
    PROVE  LET g == Got(t, d, i, s)
           IN  /\ s \in Slot /\ Held(g, s, b, L \cup {s})
               /\ g[s].number = i
               /\ g[s].core = IF t[s].count # 0 THEN t[s].core ELSE d[i]
               /\ \A u \in Slot : t[u].count # 0 => /\ g[u].number = t[u].number
                                                    /\ g[u].core = t[u].core
<1> DEFINE g == Got(t, d, i, s)
<1>1. /\ s \in Slot /\ ~ t[s].locked
      /\ Sound(g)
      /\ g[s].count = t[s].count + 1 /\ g[s].locked /\ g[s].number = i
      /\ t[s].count # 0 => t[s].number = i
      /\ g[s].core = IF t[s].count # 0 THEN t[s].core ELSE d[i]
      /\ \A u \in Slot : u # s => g[u] = t[u]
  BY Getting DEF Held
<1> HIDE DEF g
<1>2. ASSUME NEW u \in Slot
      PROVE  g[u].count = Base(u) + (IF s = u THEN 1 ELSE 0) + (IF b = u THEN 1 ELSE 0)
  BY <1>1, Sizes, BaseCounts DEF Held
<1>3. ASSUME NEW u \in Slot, g[u].locked
      PROVE  u \in L \cup {s} \cup stuck
  BY <1>1, <1>3 DEF Held
<1>4. Held(g, s, b, L \cup {s})
  BY <1>1, <1>2, <1>3 DEF Held
<1> QED
  BY <1>1, <1>4 DEF g

\* The same for a call that has nothing locked.
LEMMA HeldTake ==
    ASSUME TypeOK, NEW t, NEW b, Held(t, NoSlot, b, {}),
           NEW d \in Disk, NEW i \in Ino, NEW s, Gets(t, i, s)
    PROVE  LET g == Got(t, d, i, s)
           IN  /\ s \in Slot /\ Held(g, s, b, {s})
               /\ g[s].number = i
               /\ g[s].core = IF t[s].count # 0 THEN t[s].core ELSE d[i]
               /\ \A u \in Slot : t[u].count # 0 => /\ g[u].number = t[u].number
                                                    /\ g[u].core = t[u].core
<1> DEFINE L == {}
           g == Got(t, d, i, s)
<1>1. Held(t, NoSlot, b, L) /\ L \cup {s} = {s}
  OBVIOUS
<1> HIDE DEF L
<1>2. /\ s \in Slot /\ Held(g, s, b, L \cup {s})
      /\ g[s].number = i
      /\ g[s].core = IF t[s].count # 0 THEN t[s].core ELSE d[i]
      /\ \A u \in Slot : t[u].count # 0 => /\ g[u].number = t[u].number
                                           /\ g[u].core = t[u].core
  <2>1. /\ s \in Slot /\ Held(g, s, b, L \cup {s})
    BY <1>1, HeldGet
  <2>2. /\ g[s].number = i
        /\ t[s].count # 0 => t[s].number = i
        /\ g[s].core = IF t[s].count # 0 THEN t[s].core ELSE d[i]
        /\ \A u \in Slot : u # s => g[u] = t[u]
    BY Getting DEF Held
  <2> HIDE DEF g
  <2> QED
    BY <2>1, <2>2
<1> QED
  BY <1>1, <1>2

LEMMA HeldUnlock ==
    ASSUME TypeOK, NEW t, NEW a, NEW b, NEW L, Held(t, a, b, L), NEW s \in Slot
    PROVE  LET p == Prele(t, s)
           IN  /\ Held(p, a, b, L \ {s})
               /\ \A u \in Slot : p[u].number = t[u].number /\ p[u].core = t[u].core
<1> DEFINE p == Prele(t, s)
<1>1. /\ Sound(p) /\ ~ p[s].locked
      /\ p[s].count = t[s].count /\ p[s].number = t[s].number /\ p[s].core = t[s].core
      /\ \A u \in Slot : u # s => p[u] = t[u]
  BY Unlocking DEF Held
<1> HIDE DEF p
<1>2. Held(p, a, b, L \ {s})
  BY <1>1 DEF Held
<1> QED
  BY <1>1, <1>2 DEF p

LEMMA HeldChange ==
    ASSUME TypeOK, NEW t, NEW a, NEW b, NEW L, Held(t, a, b, L), NEW s \in Slot, t[s].count # 0,
           NEW c \in Inode
    PROVE  LET p == Changed(t, s, c)
           IN  /\ Held(p, a, b, L) /\ p[s].core = c
               /\ \A u \in Slot : p[u].number = t[u].number /\ p[u].count = t[u].count
               /\ \A u \in Slot : u # s => p[u] = t[u]
<1> DEFINE p == Changed(t, s, c)
<1>1. /\ Sound(p) /\ p[s].core = c
      /\ p[s].count = t[s].count /\ p[s].number = t[s].number /\ p[s].locked = t[s].locked
      /\ \A u \in Slot : u # s => p[u] = t[u]
  BY Changing DEF Held
<1> HIDE DEF p
<1>2. Held(p, a, b, L)
  BY <1>1 DEF Held
<1> QED
  BY <1>1, <1>2 DEF p

\* `i_mode |= newACCMode` changes no reference.
LEMMA HeldPermitted ==
    ASSUME TypeOK, NEW t, NEW a, NEW b, NEW L, Held(t, a, b, L), NEW s \in Slot
    PROVE  LET p == WithPerm(t, s)
           IN  /\ Held(p, a, b, L)
               /\ \A u \in Slot : p[u].number = t[u].number /\ p[u].count = t[u].count
               /\ \A u \in Slot : p[u].core.type = t[u].core.type
               /\ \A u \in Slot : u # s => p[u] = t[u]
<1> DEFINE p == WithPerm(t, s)
           c == [type |-> t[s].core.type, perm |-> "all", nlink |-> t[s].core.nlink]
           v == [number |-> t[s].number, count |-> t[s].count, locked |-> t[s].locked,
                 marked |-> t[s].marked, core |-> c]
<1>1. CASE t[s].count = 0
  <2>1. p = t
    BY <1>1 DEF WithPerm
  <2> QED
    BY <2>1
<1>2. CASE t[s].count # 0
  <2>0. Sound(t) /\ t \in [Slot -> InCore]
    BY DEF Held, Sound
  <2>1. t[s] \in InCore /\ t[s].core \in Inode
    BY <2>0, SlotFields
  <2>2. [t[s].core EXCEPT !.perm = "all"] = c /\ c \in Inode
    BY <2>1 DEF Inode, Perm
  <2>3. [t[s] EXCEPT !.core = c] = v /\ v \in InCore
    BY <2>1, <2>2 DEF InCore
  <2>4. p = [t EXCEPT ![s] = v]
    <3>1. p = [t EXCEPT ![s] = [t[s] EXCEPT !.core = [t[s].core EXCEPT !.perm = "all"]]]
      BY <1>2, <2>0 DEF WithPerm
    <3> QED
      BY <2>2, <2>3, <3>1
  <2>5. /\ v.number = t[s].number /\ v.count = t[s].count /\ v.core.type = t[s].core.type
        /\ v.locked <=> t[s].locked
    OBVIOUS
  <2> HIDE DEF p, v, c
  <2>6. p \in [Slot -> InCore] /\ p[s] = v /\ \A u \in Slot : u # s => p[u] = t[u]
    BY <2>0, <2>3, <2>4
  <2>7. Sound(p)
    BY <1>2, <2>0, <2>5, <2>6, SlotReplaced
  <2>8. Held(p, a, b, L)
    BY <2>5, <2>6, <2>7 DEF Held
  <2> QED
    BY <2>5, <2>6, <2>8 DEF p
<1> QED
  BY <1>1, <1>2

-----------------------------------------------------------------------------
(* How a step ends.                                                        *)

LEMMA HeldNext ==
    ASSUME NEW t, NEW a, NEW b, NEW L, Held(t, a, b, L), tab' = t,
           UNCHANGED <<files, cdir, lost>>,
           HeldSlot' = a, call'.mate = b, HeldLock' = L,
           \A s \in stuck : t[s].locked => s \in stuck'
    PROVE  Held(tab, HeldSlot, call.mate, HeldLock)'
<1>1. \A s : Base(s)' = Base(s)
  BY DEF Base, FilesOf, files
<1> QED
  BY <1>1 DEF Held

\* The tables change, the files and the current directory do not.
LEMMA Settle ==
    ASSUME TypeOK, FileCountIsFds,
           NEW t, NEW a, NEW b, NEW L, NEW d \in Disk, NEW e \in Entries,
           Held(t, a, b, L), TableIs(t, d, e),
           UNCHANGED <<files, cdir, lost, skipped>>,
           HeldSlot' = a, call'.mate = b, HeldLock' = L,
           stuck' \subseteq Slot, \A s \in stuck : t[s].locked => s \in stuck',
           stage' \in Stage, cur' \in Slot \cup {NoSlot}, call' \in Call, CallOK'
    PROVE  IInv'
<1>1. TypeOK'
  BY DEF TypeOK, Held, Sound, TableIs, Disk, Entries, files
<1>2. FileCountIsFds'
  BY DEF FileCountIsFds, files
<1>3. Sound(tab)'
  BY DEF Held, TableIs, Sound
<1>4. Held(tab, HeldSlot, call.mate, HeldLock)'
  BY HeldNext DEF TableIs
<1> QED
  BY <1>1, <1>2, <1>3, <1>4 DEF IInv

LEMMA NoCallType == NoCall \in Call /\ NoCall.mate = NoSlot
BY MaxPathAssumption, NoNameAssumption DEF NoCall, Call

\* The call returns and leaves nothing behind.
LEMMA SettleDone ==
    ASSUME TypeOK, FileCountIsFds,
           NEW t, NEW d \in Disk, NEW e \in Entries,
           Held(t, NoSlot, NoSlot, {}), TableIs(t, d, e),
           UNCHANGED <<files, cdir>>, Done, Balanced
    PROVE  IInv'
<1>1. call' = NoCall /\ call'.mate = NoSlot /\ stage' = "idle" /\ cur' = NoSlot
  BY NoCallType DEF Done
<1>2. CallOK'
  BY <1>1 DEF CallOK
<1>3. stuck' \subseteq Slot /\ \A s \in stuck : t[s].locked => s \in stuck'
  BY DEF Balanced, TypeOK, TableIs
<1>4. HeldSlot' = NoSlot /\ HeldLock' = {}
  BY <1>1 DEF HeldSlot, HeldLock
<1>5. stage' \in Stage /\ cur' \in Slot \cup {NoSlot} /\ call' \in Call
  BY <1>1, NoCallType DEF Stage
<1> QED
  BY <1>1, <1>2, <1>3, <1>4, <1>5, Settle DEF Balanced

\* The last inode the call holds is given back.
LEMMA PutAndDone ==
    ASSUME TypeOK, FileCountIsFds,
           NEW t, NEW d \in Disk, NEW e \in Entries, NEW s \in Slot, NEW L,
           Held(t, s, NoSlot, L), L \subseteq {s}, PutIs(t, d, e, s),
           UNCHANGED <<files, cdir>>, Done, Balanced
    PROVE  IInv'
<1> DEFINE p == IPut(t, s)
<1>1. Held(p, NoSlot, NoSlot, L \ {s}) /\ L \ {s} = {}
  BY HeldPut
<1>2. IPutDisk(t, d, s) \in Disk /\ IPutEntry(t, e, s) \in Entries
  BY PutTypes DEF Held
<1>3. TableIs(p, IPutDisk(t, d, s), IPutEntry(t, e, s))
  BY DEF PutIs
<1>4. Held(p, NoSlot, NoSlot, {})
  BY <1>1
<1> HIDE DEF p
<1> QED
  BY <1>2, <1>3, <1>4, SettleDone

\* The last two.
LEMMA PutBothAndDone ==
    ASSUME TypeOK, FileCountIsFds,
           NEW t, NEW d \in Disk, NEW e \in Entries, NEW s \in Slot, NEW u \in Slot, NEW L,
           Held(t, s, u, L), L \subseteq {s, u}, PutBothIs(t, d, e, s, u),
           UNCHANGED <<files, cdir>>, Done, Balanced
    PROVE  IInv'
<1> DEFINE p == IPut(t, s)
<1>1. Held(p, NoSlot, u, L \ {s})
  BY HeldPut
<1>2. IPutDisk(t, d, s) \in Disk /\ IPutEntry(t, e, s) \in Entries
  BY PutTypes DEF Held
<1>3. PutIs(p, IPutDisk(t, d, s), IPutEntry(t, e, s), u)
  BY DEF PutBothIs
<1> HIDE DEF p
<1>4. Held(p, u, NoSlot, L \ {s}) /\ L \ {s} \subseteq {u}
  BY <1>1, HeldSwap
<1> QED
  BY <1>2, <1>3, <1>4, PutAndDone

-----------------------------------------------------------------------------
(* The steps.                                                              *)

\* A new open file is one more user of its inode, with one descriptor.
LEMMA FileAdded ==
    ASSUME TypeOK, FileCountIsFds, NEW fd \in FreeFD, NEW f \in FreeFile, NEW s \in Slot,
           ofile' = [ofile EXCEPT ![fd] = f],
           file' = [file EXCEPT ![f] = [count |-> 1, inode |-> s]]
    PROVE  /\ ofile' \in [FD -> File \cup {NoFile}] /\ file' \in [File -> OpenFile]
           /\ FileCountIsFds'
           /\ \A u \in Slot : Cardinality(FilesOf(u)') =
                Cardinality(FilesOf(u)) + (IF u = s THEN 1 ELSE 0)
<1>0. fd \in FD /\ f \in File /\ ofile[fd] = NoFile /\ file[f].count = 0
      /\ ofile \in [FD -> File \cup {NoFile}] /\ file \in [File -> OpenFile]
  BY DEF FreeFD, FreeFile, TypeOK
<1>1. [count |-> 1, inode |-> s] \in OpenFile
  BY DEF OpenFile
<1>2. ofile' \in [FD -> File \cup {NoFile}] /\ file' \in [File -> OpenFile]
  BY <1>0, <1>1
<1>3. file'[f].count = 1 /\ file'[f].inode = s /\ \A g \in File : g # f => file'[g] = file[g]
  BY <1>0
<1>4. ofile'[fd] = f /\ \A x \in FD : x # fd => ofile'[x] = ofile[x]
  BY <1>0
<1>5. ASSUME NEW g \in File
      PROVE  file'[g].count = Cardinality({x \in FD : ofile'[x] = g})
  <2> DEFINE before == {x \in FD : ofile[x] = g}
             after  == {x \in FD : ofile'[x] = g}
  <2>1. file[g].count = Cardinality(before) /\ IsFiniteSet(before)
    BY FinitelyMany DEF FileCountIsFds
  <2>2. CASE g # f
    <3>1. after = before
      BY <1>0, <1>4, <2>2, Sizes
    <3> QED
      BY <1>3, <2>1, <2>2, <3>1
  <2>3. CASE g = f
    <3>1. after = before \cup {fd} /\ fd \notin before
      BY <1>0, <1>4, <2>3, Sizes
    <3> HIDE DEF before, after
    <3>2. Cardinality(after) = Cardinality(before) + 1
      BY <2>1, <3>1, FS_AddElement
    <3> QED
      BY <1>0, <1>3, <2>1, <2>3, <3>2 DEF after
  <2> QED
    BY <2>2, <2>3
<1>6. ASSUME NEW u \in Slot
      PROVE  Cardinality(FilesOf(u)') = Cardinality(FilesOf(u)) + (IF u = s THEN 1 ELSE 0)
  <2>0. Cardinality(FilesOf(u)) \in Nat /\ IsFiniteSet(FilesOf(u))
    BY FinitelyMany
  <2>1. CASE u # s
    <3>1. FilesOf(u)' = FilesOf(u)
      BY <1>0, <1>3, <2>1 DEF FilesOf
    <3> QED
      BY <2>0, <2>1, <3>1
  <2>2. CASE u = s
    <3>1. FilesOf(u)' = FilesOf(u) \cup {f} /\ f \notin FilesOf(u)
      BY <1>0, <1>3, <2>2 DEF FilesOf
    <3> QED
      BY <2>0, <2>2, <3>1, FS_AddElement
  <2> QED
    BY <2>1, <2>2
<1>7. FileCountIsFds'
  BY <1>5 DEF FileCountIsFds
<1> QED
  BY <1>2, <1>6, <1>7

\* The end of Open1.
LEMMA OpenedAndDone ==
    ASSUME TypeOK, FileCountIsFds,
           NEW t, NEW d \in Disk, NEW e \in Entries, NEW s \in Slot, NEW L,
           Held(t, s, NoSlot, L), L \subseteq {s}, Opened(t, d, e, s), Done, Balanced
    PROVE  IInv'
<1> DEFINE p == Prele(t, s)
<1>1. Held(p, s, NoSlot, L \ {s}) /\ L \ {s} = {}
  BY HeldUnlock
<1>2. Held(p, s, NoSlot, {})
  BY <1>1
<1>3. CASE FreeFD = {} \/ FreeFile = {}
  <2>1. PutIs(p, d, e, s) /\ UNCHANGED <<files, cdir>>
    BY <1>3 DEF Opened
  <2> HIDE DEF p
  <2> QED
    BY <1>2, <2>1, PutAndDone
<1>4. CASE ~ (FreeFD = {} \/ FreeFile = {})
  <2>1. /\ TableIs(p, d, e) /\ cdir' = cdir
        /\ ofile' = [ofile EXCEPT ![Lowest(FreeFD)] = Lowest(FreeFile)]
        /\ file' = [file EXCEPT ![Lowest(FreeFile)] = [count |-> 1, inode |-> s]]
    BY <1>4 DEF Opened
  <2>2. Lowest(FreeFD) \in FreeFD /\ Lowest(FreeFile) \in FreeFile
    <3>1. FreeFD \in SUBSET Nat /\ FreeFile \in SUBSET Nat
      BY Sizes DEF FreeFD, FreeFile
    <3> QED
      BY <1>4, <3>1, LowestIn
  <2>3. /\ ofile' \in [FD -> File \cup {NoFile}] /\ file' \in [File -> OpenFile]
        /\ FileCountIsFds'
        /\ \A u \in Slot : Cardinality(FilesOf(u)') =
                Cardinality(FilesOf(u)) + (IF u = s THEN 1 ELSE 0)
    BY <2>1, <2>2, FileAdded
  <2> HIDE DEF p
  <2>4. call' = NoCall /\ call'.mate = NoSlot /\ call' \in Call /\ stage' = "idle" /\ cur' = NoSlot
    BY NoCallType DEF Done
  <2>5. CallOK'
    BY <2>4 DEF CallOK
  <2>6. TypeOK'
    BY <1>2, <2>1, <2>3, <2>4 DEF TypeOK, Held, Sound, TableIs, Disk, Entries, Balanced, Stage
  <2>7. Sound(tab)'
    BY <1>2, <2>1 DEF Held, TableIs, Sound
  <2>8. Held(tab, HeldSlot, call.mate, HeldLock)'
    <3>1. HeldSlot' = NoSlot
      BY <2>4 DEF HeldSlot
    <3>2. ASSUME NEW u \in Slot PROVE Base(u)' = Base(u) + (IF s = u THEN 1 ELSE 0)
      <4>1. lost' = lost /\ cdir' = cdir /\ lost[u] \in Nat
        BY <2>1 DEF Balanced, TypeOK
      <4>2. Cardinality(FilesOf(u)) \in Nat
        BY FinitelyMany
      <4>3. Cardinality(FilesOf(u)') = Cardinality(FilesOf(u)) + (IF s = u THEN 1 ELSE 0)
        BY <2>3
      <4> QED
        BY <4>1, <4>2, <4>3 DEF Base
    <3>3. ASSUME NEW u \in Slot PROVE p[u].count = Base(u)'
      BY <1>2, <3>2, BaseCounts, Sizes DEF Held
    <3>4. ASSUME NEW u \in Slot, p[u].locked PROVE u \in stuck'
      BY <1>2, <2>1, <3>4 DEF Held, Balanced, TableIs
    <3>5. \A u \in Slot : (tab[u].count)' =
            Base(u)' + (IF HeldSlot' = u THEN 1 ELSE 0) + (IF call'.mate = u THEN 1 ELSE 0)
      <4>1. \A u \in Slot : Base(u)' \in Nat
        BY <3>2, BaseCounts
      <4> QED
        BY <2>1, <2>4, <3>1, <3>3, <4>1, Sizes DEF TableIs
    <3> QED
      BY <2>1, <2>7, <3>4, <3>5 DEF Held, TableIs
  <2> QED
    BY <2>3, <2>5, <2>6, <2>7, <2>8 DEF IInv
<1> QED
  BY <1>3, <1>4

\* A descriptor less: one user of the file less, and of the inode when it was
\* the file's last.
LEMMA FileLeft ==
    ASSUME TypeOK, FileCountIsFds, NEW fd \in FD, ofile[fd] # NoFile,
           ofile' = [ofile EXCEPT ![fd] = NoFile],
           file' = [file EXCEPT ![ofile[fd]] =
                        IF file[ofile[fd]].count = 1 THEN ClosedFile
                        ELSE [count |-> file[ofile[fd]].count - 1,
                              inode |-> file[ofile[fd]].inode]]
    PROVE  /\ ofile' \in [FD -> File \cup {NoFile}] /\ file' \in [File -> OpenFile]
           /\ FileCountIsFds'
           /\ \A u \in Slot :
                /\ Cardinality(FilesOf(u)') \in Nat
                /\ Cardinality(FilesOf(u)) = Cardinality(FilesOf(u)')
                    + (IF u = file[ofile[fd]].inode /\ Closes(ofile[fd]) THEN 1 ELSE 0)
<1> DEFINE f == ofile[fd]
           s == file[f].inode
           n == file[f].count
<1>0. /\ f \in File /\ s \in Slot /\ n \in Nat \ {0} /\ f \in FilesOf(s)
      /\ ofile \in [FD -> File \cup {NoFile}] /\ file \in [File -> OpenFile]
  BY OpenFileOf DEF TypeOK
<1>1. /\ file'[f].count = n - 1 /\ \A g \in File : g # f => file'[g] = file[g]
      /\ n # 1 => file'[f].inode = s
      /\ file' \in [File -> OpenFile]
  <2>1. CASE n = 1
    <3>1. file' = [file EXCEPT ![f] = ClosedFile] /\ ClosedFile \in OpenFile /\ ClosedFile.count = 0
      BY <1>0, <2>1, Sizes DEF ClosedFile, OpenFile
    <3> HIDE DEF f
    <3> QED
      BY <1>0, <2>1, <3>1
  <2>2. CASE n # 1
    <3> DEFINE v == [count |-> n - 1, inode |-> s]
    <3>1. v \in OpenFile /\ v.count = n - 1 /\ v.inode = s
      BY <1>0, <2>2 DEF OpenFile
    <3>2. file' = [file EXCEPT ![f] = v]
      BY <2>2
    <3> HIDE DEF f, v
    <3> QED
      BY <1>0, <3>1, <3>2
  <2> QED
    BY <2>1, <2>2
<1>2. ofile' \in [FD -> File \cup {NoFile}] /\ ofile'[fd] = NoFile
      /\ \A x \in FD : x # fd => ofile'[x] = ofile[x]
  BY <1>0
<1>3. ASSUME NEW g \in File
      PROVE  file'[g].count = Cardinality({x \in FD : ofile'[x] = g})
  <2> DEFINE before == {x \in FD : ofile[x] = g}
             after  == {x \in FD : ofile'[x] = g}
  <2>1. file[g].count = Cardinality(before) /\ IsFiniteSet(before)
    BY FinitelyMany DEF FileCountIsFds
  <2>2. CASE g # f
    <3>1. after = before
      BY <1>2, <2>2, Sizes
    <3> QED
      BY <1>1, <2>1, <2>2, <3>1
  <2>3. CASE g = f
    <3>1. after = before \ {fd} /\ fd \in before
      BY <1>2, <2>3, Sizes
    <3> HIDE DEF before, after
    <3>2. Cardinality(after) = Cardinality(before) - 1
      BY <2>1, <3>1, FS_RemoveElement
    <3> QED
      BY <1>0, <1>1, <2>1, <2>3, <3>2 DEF after
  <2> QED
    BY <2>2, <2>3
<1>4. ASSUME NEW u \in Slot
      PROVE  /\ Cardinality(FilesOf(u)') \in Nat
             /\ Cardinality(FilesOf(u)) =
                    Cardinality(FilesOf(u)') + (IF u = s /\ Closes(f) THEN 1 ELSE 0)
  <2>0. Cardinality(FilesOf(u)) \in Nat /\ IsFiniteSet(FilesOf(u))
    BY FinitelyMany
  <2>1. CASE u = s /\ n = 1
    <3>1. FilesOf(u)' = FilesOf(u) \ {f} /\ f \in FilesOf(u)
      BY <1>0, <1>1, <2>1 DEF FilesOf
    <3>2. Closes(f)
      BY <2>1 DEF Closes
    <3>3. Cardinality(FilesOf(u) \ {f}) = Cardinality(FilesOf(u)) - 1
      BY <2>0, <3>1, FS_RemoveElement
    <3>4. Cardinality(FilesOf(u) \ {f}) \in Nat
      BY <2>0, FS_RemoveElement, FS_CardinalityType
    <3> HIDE DEF f, s, n
    <3> QED
      BY <2>0, <2>1, <3>1, <3>2, <3>3, <3>4
  <2>2. CASE ~ (u = s /\ n = 1)
    <3>1. FilesOf(u)' = FilesOf(u)
      BY <1>0, <1>1, <2>2 DEF FilesOf
    <3>2. ~ (u = s /\ Closes(f))
      BY <1>0, <2>2 DEF Closes
    <3> QED
      BY <2>0, <3>1, <3>2
  <2> QED
    BY <2>1, <2>2
<1>5. FileCountIsFds'
  BY <1>3 DEF FileCountIsFds
<1> QED
  BY <1>1, <1>2, <1>4, <1>5

LEMMA Closing ==
    ASSUME IInv, NEW fd \in FD, ofile[fd] # NoFile, stage \in {"idle", "exit"},
           Closed(fd), UNCHANGED <<stage, call>>
    PROVE  IInv'
<1> DEFINE s == file[ofile[fd]].inode
<1>0. /\ TypeOK /\ FileCountIsFds /\ Held(tab, NoSlot, NoSlot, {}) /\ call.mate = NoSlot
      /\ s \in Slot /\ Base(s) # 0 /\ CallOK
  BY OpenFileOf, BaseCounts DEF IInv, HeldSlot, HeldLock, CallOK
<1>1. /\ ofile' \in [FD -> File \cup {NoFile}] /\ file' \in [File -> OpenFile]
      /\ FileCountIsFds'
      /\ \A u \in Slot :
            /\ Cardinality(FilesOf(u)') \in Nat
            /\ Cardinality(FilesOf(u)) = Cardinality(FilesOf(u)')
                + (IF u = s /\ Closes(ofile[fd]) THEN 1 ELSE 0)
  BY <1>0, FileLeft DEF Closed
<1>2. /\ Sound(tab') /\ dinode' \in Disk /\ entry' \in Entries
      /\ \A u \in Slot : tab[u].count =
            tab'[u].count + (IF u = s /\ Closes(ofile[fd]) THEN 1 ELSE 0)
      /\ \A u \in Slot : tab'[u].locked => tab[u].locked
  <2>0. Sound(tab) /\ dinode \in Disk /\ entry \in Entries /\ tab[s].count # 0
    <3>1. Sound(tab) /\ dinode \in Disk /\ entry \in Entries
      BY <1>0 DEF Held, TypeOK, Disk, Entries
    <3> HIDE DEF s
    <3>2. tab[s].count # 0
      BY <1>0, HeldCounts
    <3> QED
      BY <3>1, <3>2
  <2>1. \A u \in Slot : tab[u].count \in Nat
    BY <1>0, HeldCounts
  <2>2. CASE Closes(ofile[fd])
    <3>1. PutIs(tab, dinode, entry, s)
      BY <2>2 DEF Closed
    <3>2. tab' = IPut(tab, s) /\ dinode' = IPutDisk(tab, dinode, s) /\ entry' = IPutEntry(tab, entry, s)
      BY <3>1 DEF PutIs, TableIs
    <3>3. dinode' \in Disk /\ entry' \in Entries
      BY <1>0, <2>0, <3>2, PutTypes
    <3>4. /\ Sound(tab') /\ ~ tab'[s].locked /\ tab'[s].count = tab[s].count - 1
          /\ \A u \in Slot : u # s => tab'[u] = tab[u]
      BY <1>0, <2>0, <3>2, Putting
    <3> HIDE DEF s
    <3> QED
      BY <2>1, <2>2, <3>3, <3>4
  <2>3. CASE ~ Closes(ofile[fd])
    <3>1. tab' = tab /\ dinode' = dinode /\ entry' = entry
      BY <2>3 DEF Closed, table
    <3> QED
      BY <2>0, <2>1, <2>3, <3>1
  <2> QED
    BY <2>2, <2>3
<1> HIDE DEF s
<1>3. UNCHANGED <<cdir, cur, lost, skipped, stage, call>>
      /\ stuck' = {u \in stuck : tab'[u].locked}
  BY DEF Closed, Balanced
<1>4. TypeOK'
  BY <1>0, <1>1, <1>2, <1>3 DEF TypeOK, Sound, Disk, Entries
<1>5. Held(tab, HeldSlot, call.mate, HeldLock)'
  <2>1. HeldSlot' = NoSlot /\ HeldLock' = {} /\ call'.mate = NoSlot
    BY <1>0, <1>3 DEF HeldSlot, HeldLock
  <2>2. ASSUME NEW u \in Slot PROVE Base(u)' = tab'[u].count /\ Base(u)' \in Nat
    <3>1. tab[u].count = Base(u) /\ tab'[u].count \in Nat
      BY <1>0, <1>2, BaseCounts, Sizes, SlotFields DEF Held
    <3>2. lost'[u] = lost[u] /\ lost[u] \in Nat /\ cdir' = cdir
      BY <1>0, <1>3 DEF TypeOK
    <3> QED
      BY <1>1, <1>2, <3>1, <3>2 DEF Base
  <2> QED
    BY <1>0, <1>2, <1>3, <2>1, <2>2, Sizes DEF Held
<1>6. CallOK'
  BY <1>0, <1>3 DEF CallOK
<1>7. Sound(tab)'
  BY <1>2 DEF Sound
<1> QED
  BY <1>1, <1>4, <1>5, <1>6, <1>7 DEF IInv

\* Where a call holds an inode locked.
LEMMA Holding ==
    ASSUME IInv, stage \in {"search", "create"}
    PROVE  /\ TypeOK /\ FileCountIsFds /\ dinode \in Disk /\ entry \in Entries
           /\ cur \in Slot /\ call.mate \in Slot \cup {NoSlot}
           /\ Held(tab, cur, call.mate, {cur})
           /\ tab[cur].count # 0 /\ Here.core \in Inode /\ Here.number \in Ino
<1>1. TypeOK /\ FileCountIsFds /\ cur \in Slot /\ Held(tab, cur, call.mate, {cur})
  BY DEF IInv, CallOK, HeldSlot, HeldLock
<1>2. call.mate \in Slot \cup {NoSlot}
  BY <1>1 DEF TypeOK, Call
<1>3. dinode \in Disk /\ entry \in Entries
  BY <1>1 DEF TypeOK, Disk, Entries
<1>4. tab[cur].count # 0
  BY <1>1, HeldCounts
<1>5. Here.core \in Inode /\ Here.number \in Ino
  BY <1>1, <1>4, SlotFields DEF Held, Sound, Here
<1> QED
  BY <1>1, <1>2, <1>3, <1>4, <1>5

\* NameI's `out`.
LEMMA FailedWithDone ==
    ASSUME TypeOK, FileCountIsFds, dinode \in Disk, entry \in Entries, cur \in Slot,
           call.mate \in Slot \cup {NoSlot},
           NEW t, Held(t, cur, call.mate, {cur}), FailedWith(t)
    PROVE  IInv'
<1>1. UNCHANGED <<files, cdir>> /\ Done /\ Balanced
  BY DEF FailedWith
<1>2. CASE call.mate = NoSlot
  <2>1. PutIs(t, dinode, entry, cur) /\ Held(t, cur, NoSlot, {cur})
    BY <1>2 DEF FailedWith
  <2> QED
    BY <1>1, <2>1, PutAndDone
<1>3. CASE call.mate # NoSlot
  <2>1. PutBothIs(t, dinode, entry, cur, call.mate)
    BY <1>3 DEF FailedWith
  <2>2. call.mate \in Slot /\ {cur} \subseteq {cur, call.mate}
    BY <1>3
  <2> QED
    BY <1>1, <2>1, <2>2, PutBothAndDone
<1> QED
  BY <1>2, <1>3

LEMMA CallFields ==
    ASSUME call \in Call
    PROVE  /\ call = [mode |-> call.mode, left |-> call.left, target |-> call.target,
                      name |-> call.name, mate |-> call.mate]
           /\ call.left \in Nat /\ call.left <= MaxPath
BY MaxPathAssumption DEF Call

LEMMA EnterStep == ASSUME IInv, Enter PROVE IInv'
<1>0. /\ TypeOK /\ FileCountIsFds /\ dinode \in Disk /\ entry \in Entries
      /\ cur \in Slot /\ cur \in {Root, cdir} /\ call.mate \in Slot \cup {NoSlot}
      /\ Held(tab, NoSlot, call.mate, {}) /\ Gets(tab, Here.number, cur)
  <2>1. TypeOK /\ FileCountIsFds /\ cur \in {Root, cdir} /\ Held(tab, NoSlot, call.mate, {})
        /\ Gets(tab, Here.number, cur)
    BY DEF IInv, CallOK, HeldSlot, HeldLock, Enter
  <2> QED
    BY <2>1, Sizes DEF TypeOK, Call, Disk, Entries
<1>1. tab[cur].count # 0 /\ Here.number \in Ino
  <2>1. tab[cur].count # 0
    BY <1>0, HeldCounts, BaseCounts
  <2> QED
    BY <1>0, <2>1 DEF Held, Sound, Here
<1> DEFINE t == Got(tab, dinode, Here.number, cur)
<1>2. /\ Held(t, cur, call.mate, {cur})
      /\ \A u \in Slot : tab[u].count # 0 => t[u].core = tab[u].core
  BY <1>0, <1>1, HeldTake
<1>3. Held(t, cur, call.mate, {cur})
  BY <1>2
<1>4. CASE call.left = 0 /\ (Creating \/ Deleting)
  <2>1. FailedWith(t)
    BY <1>4 DEF Enter
  <2> HIDE DEF t
  <2> QED
    BY <1>0, <1>3, <2>1, FailedWithDone
<1>5. CASE ~ (call.left = 0 /\ (Creating \/ Deleting))
  <2>1. /\ tab' = t /\ stage' = "search"
        /\ UNCHANGED <<dinode, entry, files, cdir, cur, call, history>>
    BY <1>5 DEF Enter
  <2>2. call.mate # NoSlot => t[call.mate].core.nlink < NLINK
    <3>1. call.mate # NoSlot => tab[call.mate].core.nlink < NLINK
      BY DEF Enter, IInv, CallOK
    <3>2. call.mate # NoSlot => call.mate \in Slot /\ tab[call.mate].count # 0
      BY <1>0, HeldCounts
    <3> HIDE DEF t
    <3> QED
      BY <1>2, <3>1, <3>2
  <2> HIDE DEF t
  <2>3. CallOK'
    BY <1>0, <2>1, <2>2 DEF CallOK, IInv
  <2>4. TableIs(t, dinode, entry) /\ HeldSlot' = cur /\ HeldLock' = {cur}
    BY <2>1 DEF TableIs, HeldSlot, HeldLock
  <2>5. stage' \in Stage /\ cur' \in Slot \cup {NoSlot} /\ call' \in Call /\ stuck' \subseteq Slot
        /\ stuck' = stuck /\ call'.mate = call.mate
    BY <1>0, <2>1 DEF TypeOK, Stage, history
  <2>6. UNCHANGED <<files, cdir, lost, skipped>>
    BY <2>1 DEF history
  <2> QED
    BY <1>0, <1>3, <2>3, <2>4, <2>5, <2>6, Settle
<1> QED
  BY <1>4, <1>5

LEMMA SearchFails == ASSUME IInv, SearchRefused \/ SearchMissed PROVE IInv'
<1>1. stage = "search" /\ FailedWith(tab)
  BY DEF SearchRefused, SearchMissed, Searching, Failed
<1> QED
  BY <1>1, Holding, FailedWithDone

LEMMA AbsentStep == ASSUME IInv, NEW n \in Name, SearchAbsent(n) PROVE IInv'
<1>0. stage = "search"
  BY DEF SearchAbsent, Searching
<1>1. /\ TypeOK /\ FileCountIsFds /\ dinode \in Disk /\ entry \in Entries
      /\ cur \in Slot /\ call.mate \in Slot \cup {NoSlot}
      /\ Held(tab, cur, call.mate, {cur})
      /\ tab[cur].count # 0 /\ Here.core \in Inode
  BY <1>0, Holding
<1>2. Held(tab', cur, call.mate, {cur}) /\ \A u \in Slot : tab'[u].core = tab[u].core
  <2>1. CASE tab' = tab
    BY <1>1, <2>1
  <2>2. CASE tab' = Changed(tab, cur, Here.core)
    BY <1>1, <2>2, HeldChange DEF Here
  <2> QED
    BY <2>1, <2>2 DEF SearchAbsent
<1>3. /\ stage' = "create" /\ call' = [call EXCEPT !.left = 0, !.name = n]
      /\ UNCHANGED <<dinode, entry, files, cdir, cur, history>>
  BY DEF SearchAbsent
<1>4. call' \in Call /\ call'.mate = call.mate /\ call'.mode = call.mode
  <2> DEFINE v == [mode |-> call.mode, left |-> 0, target |-> call.target, name |-> n,
                   mate |-> call.mate]
  <2>1. call' = v
    BY <1>1, <1>3 DEF TypeOK, Call
  <2>2. v \in Call
    BY <1>1, MaxPathAssumption DEF TypeOK, Call
  <2> QED
    BY <2>1, <2>2
<1>5. CallOK'
  BY <1>0, <1>1, <1>2, <1>3, <1>4 DEF CallOK, IInv
<1>6. TableIs(tab', dinode, entry) /\ HeldSlot' = cur /\ HeldLock' = {cur}
  BY <1>3 DEF TableIs, HeldSlot, HeldLock
<1>7. stage' \in Stage /\ cur' \in Slot \cup {NoSlot} /\ stuck' \subseteq Slot /\ stuck' = stuck
  BY <1>1, <1>3 DEF TypeOK, Stage, history
<1>8. UNCHANGED <<files, cdir, lost, skipped>>
  BY <1>3 DEF history
<1> QED
  BY <1>1, <1>2, <1>4, <1>5, <1>6, <1>7, <1>8, Settle

LEMMA VictimStep == ASSUME IInv, NEW n \in Name, SearchVictim(n) PROVE IInv'
<1>0. stage = "search" /\ Dir[n] \in Ino /\ call.mode = "DELETE"
  BY DEF SearchVictim, Searching, Deleting
<1>1. /\ TypeOK /\ FileCountIsFds /\ dinode \in Disk /\ entry \in Entries
      /\ cur \in Slot /\ call.mate \in Slot \cup {NoSlot}
      /\ Held(tab, cur, call.mate, {cur})
  BY <1>0, Holding
<1> DEFINE t == Prele(tab, cur)
<1>2. Held(t, cur, call.mate, {})
  <2>1. Held(t, cur, call.mate, {cur} \ {cur}) /\ {cur} \ {cur} = {}
    BY <1>1, HeldUnlock
  <2> QED
    BY <2>1
<1>3. /\ stage' = "erase" /\ call' = [call EXCEPT !.left = 0, !.name = n, !.target = Dir[n]]
      /\ tab' = t
      /\ UNCHANGED <<dinode, entry, files, cdir, cur, history>>
  BY DEF SearchVictim
<1>4. call' \in Call /\ call'.mate = call.mate /\ call'.mode = call.mode /\ call'.target \in Ino
  <2> DEFINE v == [mode |-> call.mode, left |-> 0, target |-> Dir[n], name |-> n,
                   mate |-> call.mate]
  <2>1. call' = v
    BY <1>1, <1>3 DEF TypeOK, Call
  <2>2. v \in Call
    BY <1>0, <1>1, MaxPathAssumption DEF TypeOK, Call
  <2> QED
    BY <1>0, <2>1, <2>2
<1>5. call.mate = NoSlot
  BY <1>0 DEF IInv, CallOK
<1> HIDE DEF t
<1>6. CallOK'
  BY <1>1, <1>3, <1>4, <1>5 DEF CallOK
<1>7. TableIs(t, dinode, entry) /\ HeldSlot' = cur /\ HeldLock' = {}
  BY <1>3 DEF TableIs, HeldSlot, HeldLock
<1>8. stage' \in Stage /\ cur' \in Slot \cup {NoSlot} /\ stuck' \subseteq Slot /\ stuck' = stuck
  BY <1>1, <1>3 DEF TypeOK, Stage, history
<1>9. UNCHANGED <<files, cdir, lost, skipped>>
  BY <1>3 DEF history
<1> QED
  BY <1>1, <1>2, <1>4, <1>6, <1>7, <1>8, <1>9, Settle

LEMMA MatchesStep == ASSUME IInv, NEW n \in Name, SearchMatches(n) PROVE IInv'
<1>0. stage = "search" /\ Dir[n] \in Ino /\ call.left > 0
  BY DEF SearchMatches, Searching
<1>1. /\ TypeOK /\ FileCountIsFds /\ dinode \in Disk /\ entry \in Entries
      /\ cur \in Slot /\ call.mate \in Slot \cup {NoSlot}
      /\ Held(tab, cur, call.mate, {cur})
  BY <1>0, Holding
<1> DEFINE t == IPut(tab, cur)
           d == IPutDisk(tab, dinode, cur)
           e == IPutEntry(tab, entry, cur)
<1>2. /\ Held(t, NoSlot, call.mate, {})
      /\ \A u \in Slot : t[u].count # 0 => t[u].core = tab[u].core
  <2>1. /\ Held(t, NoSlot, call.mate, {cur} \ {cur}) /\ {cur} \ {cur} = {}
        /\ \A u \in Slot : t[u].count # 0 => t[u].core = tab[u].core
    BY <1>1, HeldPut
  <2> QED
    BY <2>1
<1>3. d \in Disk /\ e \in Entries
  BY <1>1, PutTypes DEF Held
<1>4. /\ stage' = "get" /\ call' = [call EXCEPT !.left = @ - 1, !.target = Dir[n]]
      /\ cur' = NoSlot /\ TableIs(t, d, e) /\ Balanced
      /\ UNCHANGED <<files, cdir>>
  BY DEF SearchMatches, PutIs
<1>5. call' \in Call /\ call'.mate = call.mate /\ call'.mode = call.mode /\ call'.target \in Ino
  <2> DEFINE v == [mode |-> call.mode, left |-> call.left - 1, target |-> Dir[n],
                   name |-> call.name, mate |-> call.mate]
  <2>1. call \in Call
    BY <1>1 DEF TypeOK
  <2>2. call' = v
    BY <1>4, <2>1 DEF Call
  <2>3. call.left - 1 \in 0 .. MaxPath
    BY <1>0, <2>1, CallFields, MaxPathAssumption
  <2>4. v \in Call
    BY <1>0, <2>1, <2>3 DEF Call
  <2> QED
    BY <1>0, <2>2, <2>4
<1>6. call.mate # NoSlot => call.mate \in Slot /\ t[call.mate].count # 0
  BY <1>1, <1>2, HeldCounts
<1> HIDE DEF t, d, e
<1>7. call.mate # NoSlot => t[call.mate].core.nlink < NLINK
  BY <1>0, <1>2, <1>6 DEF IInv, CallOK
<1>8. CallOK'
  BY <1>0, <1>4, <1>5, <1>7 DEF CallOK, IInv, TableIs
<1>9. HeldSlot' = NoSlot /\ HeldLock' = {}
  BY <1>4 DEF HeldSlot, HeldLock
<1>10. /\ stage' \in Stage /\ cur' \in Slot \cup {NoSlot} /\ stuck' \subseteq Slot
       /\ \A u \in stuck : t[u].locked => u \in stuck'
  BY <1>1, <1>4 DEF TypeOK, Stage, Balanced, TableIs
<1>11. UNCHANGED <<files, cdir, lost, skipped>>
  BY <1>4 DEF Balanced
<1> QED
  BY <1>1, <1>2, <1>3, <1>4, <1>5, <1>8, <1>9, <1>10, <1>11, Settle

LEMMA GetStep == ASSUME IInv, Get PROVE IInv'
<1>0. PICK s \in Slot :
        Gets(tab, call.target, s) /\ tab' = Got(tab, dinode, call.target, s) /\ cur' = s
  BY DEF Get
<1>1. /\ TypeOK /\ FileCountIsFds /\ dinode \in Disk /\ entry \in Entries
      /\ call.target \in Ino /\ call.mate \in Slot \cup {NoSlot} /\ call \in Call
      /\ Held(tab, NoSlot, call.mate, {})
  <2>1. TypeOK /\ FileCountIsFds /\ call.target \in Ino /\ Held(tab, NoSlot, call.mate, {})
    BY DEF IInv, CallOK, HeldSlot, HeldLock, Get
  <2> QED
    BY <2>1 DEF TypeOK, Call, Disk, Entries
<1> DEFINE t == Got(tab, dinode, call.target, s)
<1>2. /\ Held(t, s, call.mate, {s})
      /\ \A u \in Slot : tab[u].count # 0 => t[u].core = tab[u].core
  <2> DEFINE i == call.target
             b == call.mate
  <2>1. Gets(tab, i, s) /\ i \in Ino /\ Held(tab, NoSlot, b, {}) /\ t = Got(tab, dinode, i, s)
    BY <1>0, <1>1
  <2> HIDE DEF i, b, t
  <2>2. Held(t, s, b, {s}) /\ \A u \in Slot : tab[u].count # 0 => t[u].core = tab[u].core
    BY <1>1, <2>1, HeldTake
  <2> QED
    BY <2>2 DEF i, b
<1>3. /\ stage = "get" /\ stage' = "search" /\ call' = [call EXCEPT !.target = NoEntry]
      /\ tab' = t /\ UNCHANGED <<dinode, entry, files, cdir, history>>
  BY <1>0 DEF Get
<1>4. call' \in Call /\ call'.mate = call.mate /\ call'.mode = call.mode
  BY <1>1, <1>3 DEF Call
<1>5. call.mate # NoSlot => call.mate \in Slot /\ tab[call.mate].count # 0
  BY <1>1, HeldCounts
<1> HIDE DEF t
<1>6. call.mate # NoSlot => t[call.mate].core.nlink < NLINK
  BY <1>2, <1>3, <1>5 DEF IInv, CallOK
<1>7. CallOK'
  BY <1>0, <1>3, <1>4, <1>6 DEF CallOK, IInv
<1>8. TableIs(t, dinode, entry) /\ HeldSlot' = s /\ HeldLock' = {s}
  BY <1>0, <1>3 DEF TableIs, HeldSlot, HeldLock
<1>9. stage' \in Stage /\ cur' \in Slot \cup {NoSlot} /\ stuck' \subseteq Slot /\ stuck' = stuck
  BY <1>0, <1>1, <1>3 DEF TypeOK, Stage, history
<1>10. UNCHANGED <<files, cdir, lost, skipped>>
  BY <1>3 DEF history
<1> QED
  BY <1>1, <1>2, <1>4, <1>7, <1>8, <1>9, <1>10, Settle

\* The process dies where it stands.
LEMMA DiesStep == ASSUME IInv, Dies PROVE IInv'
<1>1. stage' = "dead" /\ UNCHANGED <<tab, dinode, entry, ofile, file, cdir, cur, call, lost, stuck, skipped>>
  BY DEF Dies, table, files, history
<1>2. TypeOK'
  BY <1>1 DEF IInv, TypeOK, Stage
<1>3. FileCountIsFds' /\ Sound(tab)'
  BY <1>1 DEF IInv, FileCountIsFds, Sound
<1>4. CallOK'
  BY <1>1 DEF IInv, CallOK
<1> QED
  BY <1>1, <1>2, <1>3, <1>4 DEF IInv

\* The calls that find what they search for, and those that find the name free.
LEMMA HoldingAlone ==
    ASSUME IInv, stage \in {"search", "create"}, call.mate = NoSlot
    PROVE  /\ TypeOK /\ FileCountIsFds /\ dinode \in Disk /\ entry \in Entries
           /\ cur \in Slot /\ Held(tab, cur, NoSlot, {cur})
           /\ tab[cur].count # 0 /\ Here.core \in Inode /\ Here.number \in Ino
BY Holding

LEMMA CoreFields ==
    ASSUME NEW x \in Inode
    PROVE  /\ [x EXCEPT !.perm = "none"] \in Inode /\ [x EXCEPT !.perm = "some"] \in Inode
           /\ [x EXCEPT !.nlink = 1] \in Inode
           /\ [x EXCEPT !.nlink = 1].type = x.type
           /\ x.nlink < NLINK => [x EXCEPT !.nlink = @ + 1] \in Inode
           /\ x.nlink >= 0 => [x EXCEPT !.nlink = @ - 1] \in Inode
BY Kinds DEF Inode, Perm

LEMMA OpenStep == ASSUME IInv, Open PROVE IInv'
<1>1. stage = "search" /\ call.mate = NoSlot /\ Done /\ Balanced
  BY DEF Open, Found
<1>2. CASE Here.core.type = "dir"
  <2>1. PutIs(tab, dinode, entry, cur) /\ UNCHANGED <<files, cdir>>
    BY <1>2 DEF Open
  <2> QED
    BY <1>1, <2>1, HoldingAlone, PutAndDone
<1>3. CASE Here.core.type # "dir"
  <2>1. Opened(tab, dinode, entry, cur)
    BY <1>3 DEF Open
  <2> QED
    BY <1>1, <2>1, HoldingAlone, OpenedAndDone
<1> QED
  BY <1>2, <1>3

LEMMA OpenToReadStep == ASSUME IInv, OpenToRead PROVE IInv'
<1>1. stage = "search" /\ call.mate = NoSlot /\ Done /\ Balanced /\ Opened(tab, dinode, entry, cur)
  BY DEF OpenToRead, Found
<1> QED
  BY <1>1, HoldingAlone, OpenedAndDone

\* Creat ends with a change of permissions of a slot it has given back.
LEMMA PermittedAndDone ==
    ASSUME TypeOK, FileCountIsFds, dinode \in Disk, entry \in Entries, cur \in Slot,
           NEW t, NEW L, Held(t, cur, NoSlot, L), L \subseteq {cur},
           TableIs(WithPerm(IPut(t, cur), cur), IPutDisk(t, dinode, cur), IPutEntry(t, entry, cur)),
           UNCHANGED <<files, cdir>>, Done, Balanced
    PROVE  IInv'
<1> DEFINE p == IPut(t, cur)
           q == WithPerm(p, cur)
           d == IPutDisk(t, dinode, cur)
           e == IPutEntry(t, entry, cur)
<1>1. Held(p, NoSlot, NoSlot, L \ {cur}) /\ L \ {cur} = {}
  BY HeldPut
<1>2. Held(p, NoSlot, NoSlot, {})
  BY <1>1
<1>3. d \in Disk /\ e \in Entries
  BY PutTypes DEF Held
<1>4. Held(q, NoSlot, NoSlot, {})
  <2> HIDE DEF p
  <2> QED
    BY <1>2, HeldPermitted
<1> HIDE DEF p, q, d, e
<1>5. TableIs(q, d, e)
  BY DEF p, q, d, e
<1> QED
  BY <1>3, <1>4, <1>5, SettleDone

LEMMA CreatFoundStep == ASSUME IInv, CreatFound PROVE IInv'
<1> DEFINE truncated == Changed(tab, cur, [Here.core EXCEPT !.nlink = 1])
           unlocked  == Prele(truncated, cur)
<1>1. stage = "search" /\ call.mate = NoSlot /\ Done /\ Balanced
  BY DEF CreatFound, Found
<1>2. /\ TypeOK /\ FileCountIsFds /\ dinode \in Disk /\ entry \in Entries
      /\ cur \in Slot /\ Held(tab, cur, NoSlot, {cur})
      /\ tab[cur].count # 0 /\ Here.core \in Inode
  BY <1>1, HoldingAlone
<1>3. Held(truncated, cur, NoSlot, {cur})
  <2> DEFINE c == [Here.core EXCEPT !.nlink = 1]
  <2>1. c \in Inode
    BY <1>2, CoreFields
  <2> HIDE DEF c
  <2>2. Held(Changed(tab, cur, c), cur, NoSlot, {cur})
    BY <1>2, <2>1, HeldChange
  <2> QED
    BY <2>2 DEF c
<1>4. CASE Here.core.type = "dir"
  <2>1. /\ TableIs(WithPerm(IPut(tab, cur), cur), IPutDisk(tab, dinode, cur), IPutEntry(tab, entry, cur))
        /\ UNCHANGED <<files, cdir>>
    BY <1>4 DEF CreatFound
  <2> QED
    BY <1>1, <1>2, <2>1, PermittedAndDone
<1>5. CASE Here.core.type # "dir" /\ (FreeFD = {} \/ FreeFile = {})
  <2>1. /\ TableIs(WithPerm(IPut(unlocked, cur), cur), IPutDisk(unlocked, dinode, cur),
                   IPutEntry(unlocked, entry, cur))
        /\ UNCHANGED <<files, cdir>>
    BY <1>5 DEF CreatFound
  <2> HIDE DEF truncated
  <2>2. Held(unlocked, cur, NoSlot, {cur} \ {cur}) /\ {cur} \ {cur} \subseteq {cur}
    BY <1>2, <1>3, HeldUnlock
  <2> HIDE DEF unlocked
  <2> QED
    BY <1>1, <1>2, <2>1, <2>2, PermittedAndDone
<1>6. CASE Here.core.type # "dir" /\ ~ (FreeFD = {} \/ FreeFile = {})
  <2> DEFINE q == WithPerm(truncated, cur)
  <2>1. Opened(q, dinode, entry, cur)
    BY <1>6 DEF CreatFound
  <2> HIDE DEF truncated
  <2>2. Held(q, cur, NoSlot, {cur})
    BY <1>2, <1>3, HeldPermitted
  <2> HIDE DEF q
  <2> QED
    BY <1>1, <1>2, <2>1, <2>2, OpenedAndDone
<1> QED
  BY <1>4, <1>5, <1>6

LEMMA ChModStep == ASSUME IInv, ChMod PROVE IInv'
<1>1. stage = "search" /\ call.mate = NoSlot /\ Done /\ Balanced /\ UNCHANGED <<files, cdir>>
  BY DEF ChMod, Found
<1>2. /\ TypeOK /\ FileCountIsFds /\ dinode \in Disk /\ entry \in Entries
      /\ cur \in Slot /\ Held(tab, cur, NoSlot, {cur})
      /\ tab[cur].count # 0 /\ Here.core \in Inode
  BY <1>1, HoldingAlone
<1>3. PICK p \in {"none", "some"} :
        PutIs(Changed(tab, cur, [Here.core EXCEPT !.perm = p]), dinode, entry, cur)
  BY DEF ChMod
<1> DEFINE c == [Here.core EXCEPT !.perm = p]
           t == Changed(tab, cur, c)
<1>4. c \in Inode
  BY <1>2, CoreFields
<1> HIDE DEF c
<1>5. Held(t, cur, NoSlot, {cur}) /\ {cur} \subseteq {cur}
  BY <1>2, <1>4, HeldChange
<1>6. PutIs(t, dinode, entry, cur)
  BY <1>3 DEF c
<1> HIDE DEF t
<1> QED
  BY <1>1, <1>2, <1>5, <1>6, PutAndDone

LEMMA StatStep == ASSUME IInv, Stat PROVE IInv'
<1>1. /\ stage = "search" /\ call.mate = NoSlot /\ Done /\ Balanced /\ UNCHANGED <<files, cdir>>
      /\ PutIs(tab, IUpdate(tab, dinode, cur), entry, cur)
  BY DEF Stat, Found
<1>2. IUpdate(tab, dinode, cur) \in Disk
  BY <1>1, HoldingAlone, PutTypes DEF Held
<1> QED
  BY <1>1, <1>2, HoldingAlone, PutAndDone

LEMMA MkNodFoundStep == ASSUME IInv, MkNodFound PROVE IInv'
<1>1. /\ stage = "search" /\ call.mate = NoSlot /\ Done /\ Balanced /\ UNCHANGED <<files, cdir>>
      /\ PutIs(tab, dinode, entry, cur)
  BY DEF MkNodFound, Found
<1> QED
  BY <1>1, HoldingAlone, PutAndDone

LEMMA LinkExistsStep == ASSUME IInv, LinkExists PROVE IInv'
<1>1. /\ stage = "search" /\ call.mate # NoSlot /\ Done /\ Balanced /\ UNCHANGED <<files, cdir>>
      /\ PutBothIs(tab, dinode, entry, cur, call.mate)
  BY DEF LinkExists
<1>2. call.mate \in Slot /\ {cur} \subseteq {cur, call.mate}
  BY <1>1, Holding
<1> QED
  BY <1>1, <1>2, Holding, PutBothAndDone

LEMMA LinkFirstStep == ASSUME IInv, LinkFirst PROVE IInv'
<1>1. stage = "search" /\ call.mate = NoSlot /\ Balanced /\ UNCHANGED <<files, cdir>>
  BY DEF LinkFirst, Found
<1>2. /\ TypeOK /\ FileCountIsFds /\ dinode \in Disk /\ entry \in Entries
      /\ cur \in Slot /\ Held(tab, cur, NoSlot, {cur})
      /\ tab[cur].count # 0 /\ Here.core \in Inode
  BY <1>1, HoldingAlone
<1>3. CASE Here.core.nlink >= NLINK
  <2>1. PutIs(tab, dinode, entry, cur) /\ Done
    BY <1>3 DEF LinkFirst
  <2> QED
    BY <1>1, <2>1, HoldingAlone, PutAndDone
<1>4. CASE ~ (Here.core.nlink >= NLINK)
  <2> DEFINE t == Prele(tab, cur)
  <2>1. /\ TableIs(t, dinode, entry) /\ stage' = "enter" /\ cur' \in {Root, cdir}
        /\ \E n \in 0 .. MaxPath :
                call' = [NoCall EXCEPT !.mode = "CREATE", !.left = n, !.mate = cur]
    BY <1>4 DEF LinkFirst
  <2>2. PICK n \in 0 .. MaxPath :
                call' = [NoCall EXCEPT !.mode = "CREATE", !.left = n, !.mate = cur]
    BY <2>1
  <2>3. call' \in Call /\ call'.mate = cur /\ call'.mode = "CREATE"
    <3> DEFINE v == [mode |-> "CREATE", left |-> n, target |-> NoEntry, name |-> NoName, mate |-> cur]
    <3>1. call' = v
      BY <2>2 DEF NoCall
    <3>2. v \in Call
      BY <1>2 DEF Call, SearchMode
    <3> QED
      BY <3>1, <3>2
  <2>4. /\ Held(t, cur, NoSlot, {cur} \ {cur}) /\ {cur} \ {cur} = {}
        /\ \A u \in Slot : t[u].core = tab[u].core
    BY <1>2, HeldUnlock
  <2>5. t[cur].core.nlink < NLINK
    BY <1>2, <1>4, <2>4, Kinds DEF Here, Inode
  <2> HIDE DEF t
  <2>6. Held(t, NoSlot, cur, {})
    <3>1. Held(t, cur, NoSlot, {})
      BY <2>4
    <3> QED
      BY <1>2, <3>1, HeldSwap
  <2>7. CallOK'
    BY <1>1, <1>2, <2>1, <2>3, <2>5 DEF CallOK, TableIs
  <2>8. /\ stage' \in Stage /\ cur' \in Slot \cup {NoSlot} /\ stuck' \subseteq Slot
        /\ \A u \in stuck : t[u].locked => u \in stuck'
    BY <1>1, <1>2, <2>1, Sizes DEF TypeOK, Stage, Balanced, TableIs
  <2>9. UNCHANGED <<files, cdir, lost, skipped>>
    BY <1>1 DEF Balanced
  <2>10. HeldSlot' = NoSlot /\ HeldLock' = {}
    BY <2>1 DEF HeldSlot, HeldLock
  <2> QED
    BY <1>2, <2>1, <2>3, <2>6, <2>7, <2>8, <2>9, <2>10, Settle
<1> QED
  BY <1>3, <1>4

\* The call returns and keeps a reference to s, with its lock or without.
LEMMA LeavesAndDone ==
    ASSUME TypeOK, FileCountIsFds, skipped' = skipped,
           NEW t, NEW d \in Disk, NEW e \in Entries, NEW s \in Slot, NEW L,
           Held(t, s, NoSlot, L), TableIs(t, d, e), UNCHANGED <<files, cdir>>, Done,
           lost' = [lost EXCEPT ![s] = @ + 1], stuck' \subseteq Slot,
           \A u \in stuck \cup L : t[u].locked => u \in stuck'
    PROVE  IInv'
<1>1. call' = NoCall /\ call'.mate = NoSlot /\ call' \in Call /\ stage' = "idle" /\ cur' = NoSlot
  BY NoCallType DEF Done
<1>2. CallOK'
  BY <1>1 DEF CallOK
<1>3. lost \in [Slot -> Nat] /\ lost' \in [Slot -> Nat] /\ lost'[s] = lost[s] + 1
      /\ \A u \in Slot : u # s => lost'[u] = lost[u]
  BY DEF TypeOK
<1>4. TypeOK'
  BY <1>1, <1>3 DEF TypeOK, Held, Sound, TableIs, Disk, Entries, files, Stage
<1>5. FileCountIsFds' /\ Sound(tab)'
  BY DEF FileCountIsFds, files, Held, TableIs, Sound
<1>6. Held(tab, HeldSlot, call.mate, HeldLock)'
  <2>1. HeldSlot' = NoSlot
    BY <1>1 DEF HeldSlot
  <2>2. ASSUME NEW u \in Slot
        PROVE  Base(u)' = Base(u) + (IF s = u THEN 1 ELSE 0) /\ Base(u)' \in Nat
    <3>1. Cardinality(FilesOf(u)') = Cardinality(FilesOf(u)) /\ cdir' = cdir
      BY DEF FilesOf, files
    <3>2. Cardinality(FilesOf(u)) \in Nat /\ lost[u] \in Nat
      BY <1>3, FinitelyMany
    <3> QED
      BY <1>3, <3>1, <3>2 DEF Base
  <2>3. ASSUME NEW u \in Slot PROVE t[u].count = Base(u)'
    BY <2>2, BaseCounts, Sizes DEF Held
  <2>4. ASSUME NEW u \in Slot, t[u].locked PROVE u \in stuck'
    BY <2>4 DEF Held
  <2> QED
    BY <1>1, <1>5, <2>1, <2>2, <2>3, <2>4, Sizes DEF Held, TableIs
<1> QED
  BY <1>2, <1>4, <1>5, <1>6 DEF IInv

LEMMA LeavesHere ==
    ASSUME IInv, stage \in {"search", "create"}, call.mate = NoSlot,
           Leaves(cur), Done, UNCHANGED <<table, files, cdir>>
    PROVE  IInv'
<1>1. /\ TypeOK /\ FileCountIsFds /\ dinode \in Disk /\ entry \in Entries
      /\ cur \in Slot /\ Held(tab, cur, NoSlot, {cur})
  BY HoldingAlone
<1>2. TableIs(tab, dinode, entry) /\ UNCHANGED <<files, cdir>>
  BY DEF TableIs, table
<1>3. /\ lost' = [lost EXCEPT ![cur] = @ + 1] /\ stuck' \subseteq Slot /\ skipped' = skipped
      /\ \A u \in stuck \cup {cur} : tab[u].locked => u \in stuck'
  BY <1>1 DEF Leaves, TypeOK
<1> QED
  BY <1>1, <1>2, <1>3, LeavesAndDone

LEMMA MkdirFoundStep == ASSUME IInv, MkdirFound PROVE IInv'
<1>1. stage = "search" /\ call.mate = NoSlot /\ Leaves(cur) /\ Done
      /\ UNCHANGED <<table, files, cdir>>
  BY DEF MkdirFound, Found
<1> QED
  BY <1>1, LeavesHere

\* The new current directory takes the place of the old one.
LEMMA ChDirStep == ASSUME IInv, ChDir PROVE IInv'
<1>1. stage = "search" /\ call.mate = NoSlot /\ Done /\ Balanced /\ UNCHANGED files
  BY DEF ChDir, Found
<1>2. /\ TypeOK /\ FileCountIsFds /\ dinode \in Disk /\ entry \in Entries
      /\ cur \in Slot /\ Held(tab, cur, NoSlot, {cur}) /\ cdir \in Slot
  BY <1>1, HoldingAlone DEF TypeOK
<1>3. CASE ~ Usable
  <2>1. PutIs(tab, dinode, entry, cur) /\ UNCHANGED <<files, cdir>>
    BY <1>1, <1>3 DEF ChDir
  <2> QED
    BY <1>1, <2>1, HoldingAlone, PutAndDone
<1>4. CASE Usable
  <2> DEFINE p == IPut(tab, cdir)
             q == Prele(p, cur)
             d == IPutDisk(tab, dinode, cdir)
             e == IPutEntry(tab, entry, cdir)
  <2>1. tab' = q /\ dinode' = d /\ entry' = e /\ cdir' = cur
    BY <1>4 DEF ChDir, TableIs
  <2>2. d \in Disk /\ e \in Entries
    BY <1>2, PutTypes DEF Held
  <2>3. tab[cdir].count # 0 /\ Sound(tab)
    BY <1>2, HeldCounts, BaseCounts DEF Held
  <2>4. /\ Sound(p) /\ p[cdir].count = tab[cdir].count - 1 /\ ~ p[cdir].locked
        /\ \A u \in Slot : u # cdir => p[u] = tab[u]
    BY <1>2, <2>3, Putting
  <2> HIDE DEF p, d, e
  <2>5. /\ Sound(q) /\ ~ q[cur].locked /\ q[cur].count = p[cur].count
        /\ \A u \in Slot : u # cur => q[u] = p[u]
    BY <1>2, <2>4, Unlocking
  <2> HIDE DEF q
  <2>6. call' = NoCall /\ call'.mate = NoSlot /\ call' \in Call /\ stage' = "idle" /\ cur' = NoSlot
    BY <1>1, NoCallType DEF Done
  <2>7. CallOK'
    BY <2>6 DEF CallOK
  <2>8. TypeOK'
    BY <1>1, <1>2, <2>1, <2>2, <2>5, <2>6 DEF TypeOK, Sound, Disk, Entries, files, Balanced, Stage
  <2>9. FileCountIsFds' /\ Sound(tab)'
    BY <1>1, <1>2, <2>1, <2>5 DEF FileCountIsFds, files, Sound
  <2>10. Held(tab, HeldSlot, call.mate, HeldLock)'
    <3>1. HeldSlot' = NoSlot
      BY <2>6 DEF HeldSlot
    <3>2. ASSUME NEW u \in Slot PROVE q[u].count = Base(u)' /\ Base(u)' \in Nat
      <4>1. Cardinality(FilesOf(u)') = Cardinality(FilesOf(u)) /\ lost' = lost
        BY <1>1 DEF FilesOf, files, Balanced
      <4>2. Cardinality(FilesOf(u)) \in Nat /\ lost[u] \in Nat
        BY <1>2, FinitelyMany DEF TypeOK
      <4>3. tab[u].count = Base(u) + (IF cur = u THEN 1 ELSE 0)
        BY <1>2, BaseCounts, Sizes DEF Held
      <4>4. q[u].count = tab[u].count - (IF u = cdir THEN 1 ELSE 0)
        <5>1. tab[u].count \in Nat
          BY <2>3, SlotFields
        <5> QED
          BY <1>2, <2>4, <2>5, <5>1
      <4> QED
        BY <2>1, <4>1, <4>2, <4>3, <4>4 DEF Base
    <3>3. ASSUME NEW u \in Slot, q[u].locked PROVE u \in stuck'
      <4>1. u # cur /\ u # cdir /\ tab[u].locked
        BY <2>4, <2>5, <3>3
      <4> QED
        BY <1>1, <1>2, <2>1, <3>3, <4>1 DEF Held, Balanced
    <3> QED
      BY <2>1, <2>6, <2>9, <3>1, <3>2, <3>3, Sizes DEF Held
  <2> QED
    BY <2>7, <2>8, <2>9, <2>10 DEF IInv
<1> QED
  BY <1>3, <1>4

\* MakNode: the new inode is left to the call, and nothing else.
LEMMA MakNodeHeld ==
    ASSUME IInv, stage = "create", call.mate = NoSlot,
           NEW i \in Ino, NEW s \in Slot, Gets(tab, i, s), NEW c \in Inode
    PROVE  /\ \E L \in SUBSET {s} : Held(MakNodeTab(i, s, c), s, NoSlot, L)
           /\ MakNodeDisk(i, s, c) \in Disk /\ MakNodeEntry(i, s, c) \in Entries
<1>1. /\ TypeOK /\ dinode \in Disk /\ entry \in Entries
      /\ cur \in Slot /\ Held(tab, cur, NoSlot, {cur})
  BY HoldingAlone
<1> DEFINE g == Got(tab, dinode, i, s)
           h == Changed(g, s, c)
           k == Changed(h, cur, h[cur].core)
           L == {cur} \cup {s}
<1>2. Held(g, s, cur, L)
  <2>1. Held(tab, NoSlot, cur, {cur})
    BY <1>1, HeldSwap
  <2> QED
    BY <1>1, <2>1, HeldGet
<1> HIDE DEF g
<1>3. g[s].count # 0
  BY <1>1, <1>2, HeldCounts
<1>4. Held(h, s, cur, L)
  BY <1>1, <1>2, <1>3, HeldChange
<1> HIDE DEF h
<1>5. h[cur].count # 0 /\ h[cur].core \in Inode
  <2>1. h[cur].count # 0
    BY <1>1, <1>4, HeldCounts
  <2> QED
    BY <1>1, <1>4, <2>1, SlotFields DEF Held
<1>6. Held(k, cur, s, L)
  <2>1. Held(k, s, cur, L)
    BY <1>1, <1>4, <1>5, HeldChange
  <2> QED
    BY <1>1, <2>1, HeldSwap
<1>7. k = Allocated(i, s, c)
  BY DEF g, h, k, Allocated, ChangedByWrite
<1> HIDE DEF k
<1>8. Held(IPut(k, cur), s, NoSlot, L \ {cur})
  <2>1. Held(IPut(k, cur), NoSlot, s, L \ {cur})
    BY <1>1, <1>6, HeldPut
  <2> QED
    BY <1>1, <2>1, HeldSwap
<1>9. WriteDir(i) \in Entries
  BY <1>1 DEF WriteDir, Entries
<1>10. IPutDisk(k, dinode, cur) \in Disk /\ IPutEntry(k, WriteDir(i), cur) \in Entries
  BY <1>1, <1>6, <1>9, PutTypes DEF Held
<1>11. L \ {cur} \in SUBSET {s}
  OBVIOUS
<1> QED
  BY <1>7, <1>8, <1>10, <1>11 DEF MakNodeTab, MakNodeDisk, MakNodeEntry

LEMMA NewInodes == NewFile \in Inode /\ NewDir \in Inode
BY Kinds DEF NewFile, NewDir, Inode, Type, Perm

LEMMA CreatNewStep ==
    ASSUME IInv, NEW i \in Ino, NEW s \in Slot, CreatNew(i, s) PROVE IInv'
<1> DEFINE t == MakNodeTab(i, s, NewFile)
           d == MakNodeDisk(i, s, NewFile)
           e == MakNodeEntry(i, s, NewFile)
<1>1. stage = "create" /\ call.mate = NoSlot /\ Gets(tab, i, s) /\ Opened(t, d, e, s)
      /\ Done /\ Balanced
  BY DEF CreatNew, Fresh
<1>2. (\E L \in SUBSET {s} : Held(t, s, NoSlot, L)) /\ d \in Disk /\ e \in Entries
  BY <1>1, MakNodeHeld, NewInodes
<1> HIDE DEF t, d, e
<1>3. PICK L \in SUBSET {s} : Held(t, s, NoSlot, L)
  BY <1>2
<1>4. TypeOK /\ FileCountIsFds
  BY DEF IInv
<1> QED
  BY <1>1, <1>2, <1>3, <1>4, OpenedAndDone

LEMMA MkNodNewStep ==
    ASSUME IInv, NEW i \in Ino, NEW s \in Slot, MkNodNew(i, s) PROVE IInv'
<1> DEFINE t == MakNodeTab(i, s, NewFile)
           d == MakNodeDisk(i, s, NewFile)
           e == MakNodeEntry(i, s, NewFile)
<1>1. stage = "create" /\ call.mate = NoSlot /\ Gets(tab, i, s) /\ PutIs(t, d, e, s)
      /\ Done /\ Balanced /\ UNCHANGED <<files, cdir>>
  BY DEF MkNodNew, Fresh
<1>2. (\E L \in SUBSET {s} : Held(t, s, NoSlot, L)) /\ d \in Disk /\ e \in Entries
  BY <1>1, MakNodeHeld, NewInodes
<1> HIDE DEF t, d, e
<1>3. PICK L \in SUBSET {s} : Held(t, s, NoSlot, L)
  BY <1>2
<1>4. TypeOK /\ FileCountIsFds
  BY DEF IInv
<1> QED
  BY <1>1, <1>2, <1>3, <1>4, PutAndDone

LEMMA MkdirNewStep ==
    ASSUME IInv, NEW i \in Ino, NEW s \in Slot, MkdirNew(i, s) PROVE IInv'
<1> DEFINE t == MakNodeTab(i, s, NewDir)
           d == MakNodeDisk(i, s, NewDir)
           e == MakNodeEntry(i, s, NewDir)
           w == [e EXCEPT ![i][Dot] = i, ![i][DotDot] = t[cur].number]
           p == Prele(t, s)
<1>1. /\ stage = "create" /\ call.mate = NoSlot /\ Gets(tab, i, s) /\ TableIs(p, d, w)
      /\ Done /\ UNCHANGED <<files, cdir>> /\ lost' = [lost EXCEPT ![s] = @ + 1]
      /\ stuck' = {u \in stuck : tab'[u].locked} /\ skipped' = skipped
  BY DEF MkdirNew, Fresh
<1>2. (\E L \in SUBSET {s} : Held(t, s, NoSlot, L)) /\ d \in Disk /\ e \in Entries
  BY <1>1, MakNodeHeld, NewInodes
<1>3. TypeOK /\ FileCountIsFds /\ cur \in Slot
  BY <1>1, HoldingAlone
<1> HIDE DEF t, d, e
<1>4. PICK L \in SUBSET {s} : Held(t, s, NoSlot, L)
  BY <1>2
<1>5. w \in Entries
  <2>1. t[cur].number \in Ino \cup {Stray}
    BY <1>3, <1>4, SlotFields DEF Held
  <2> QED
    BY <1>2, <2>1 DEF Entries
<1>6. Held(p, s, NoSlot, L \ {s}) /\ L \ {s} = {}
  BY <1>3, <1>4, HeldUnlock
<1>7. Held(p, s, NoSlot, {})
  BY <1>6
<1> HIDE DEF p, w
<1>8. stuck' \subseteq Slot /\ \A u \in stuck \cup {} : p[u].locked => u \in stuck'
  BY <1>1, <1>3 DEF TypeOK, TableIs
<1> QED
  BY <1>1, <1>2, <1>3, <1>5, <1>7, <1>8, LeavesAndDone

LEMMA MakNodeOverflowsStep ==
    ASSUME IInv, NEW i \in Ino, MakNodeOverflows(i) PROVE IInv'
<1>1. CASE Dies
  BY <1>1, DiesStep
<1>2. CASE ~ Dies
  <2>1. stage = "create" /\ call.mate = NoSlot /\ Leaves(cur) /\ Done
        /\ UNCHANGED <<table, files, cdir>>
    BY <1>2 DEF MakNodeOverflows, Fresh
  <2> QED
    BY <2>1, LeavesHere
<1> QED
  BY <1>1, <1>2

LEMMA LinkNewStep == ASSUME IInv, LinkNew PROVE IInv'
<1> DEFINE m == call.mate
           t == ChangedByWrite(tab, cur)
           e == WriteDir(tab[m].number)
           p == IPut(t, cur)
           q == LinkedTab(p, m)
<1>1. /\ stage = "create" /\ m # NoSlot /\ Done /\ Balanced /\ UNCHANGED <<files, cdir>>
      /\ PutIs(q, IPutDisk(t, dinode, cur), IPutEntry(t, e, cur), m)
  BY DEF LinkNew
<1>2. /\ TypeOK /\ FileCountIsFds /\ dinode \in Disk /\ entry \in Entries
      /\ cur \in Slot /\ m \in Slot /\ Held(tab, cur, m, {cur})
      /\ tab[cur].count # 0 /\ tab[cur].core \in Inode
  BY <1>1, Holding DEF Here
<1>3. tab[m].core.nlink < NLINK /\ tab[m].count # 0 /\ tab[m].number \in Ino
  <2>1. tab[m].core.nlink < NLINK
    BY <1>1 DEF IInv, CallOK
  <2>2. tab[m].count # 0
    BY <1>2, HeldCounts
  <2> QED
    BY <1>2, <2>1, <2>2 DEF Held, Sound
<1> HIDE DEF m
<1>4. Held(t, cur, m, {cur}) /\ t[m].core.nlink < NLINK
  <2> DEFINE c == tab[cur].core
  <2>1. /\ Held(Changed(tab, cur, c), cur, m, {cur})
        /\ Changed(tab, cur, c)[cur].core = c
        /\ \A u \in Slot : u # cur => Changed(tab, cur, c)[u] = tab[u]
    <3> HIDE DEF c
    <3>1. c \in Inode
      BY <1>2 DEF c
    <3> QED
      BY <1>2, <3>1, HeldChange
  <2> QED
    BY <1>2, <1>3, <2>1 DEF ChangedByWrite
<1>5. e \in Entries
  BY <1>2, <1>3 DEF WriteDir, Entries
<1> HIDE DEF t, e
<1>6. IPutDisk(t, dinode, cur) \in Disk /\ IPutEntry(t, e, cur) \in Entries
  BY <1>2, <1>4, <1>5, PutTypes DEF Held
<1>7. Held(p, NoSlot, m, {}) /\ p[m].core = t[m].core /\ p[m].count # 0
  <2>1. /\ Held(p, NoSlot, m, {cur} \ {cur}) /\ {cur} \ {cur} = {}
        /\ \A u \in Slot : p[u].count # 0 => p[u].core = t[u].core
    BY <1>2, <1>4, HeldPut
  <2>2. Held(p, NoSlot, m, {})
    BY <2>1
  <2> HIDE DEF p
  <2>3. p[m].count # 0
    BY <1>2, <2>2, HeldCounts
  <2> QED
    BY <1>2, <2>1, <2>2, <2>3
<1> HIDE DEF p
<1>8. Held(q, m, NoSlot, {})
  <2> DEFINE c == [p[m].core EXCEPT !.nlink = @ + 1]
  <2>1. c \in Inode
    <3>1. p[m].core \in Inode
      BY <1>2, <1>7, SlotFields DEF Held
    <3> QED
      BY <1>4, <1>7, <3>1, CoreFields
  <2>2. q = Changed(p, m, c)
    BY DEF LinkedTab
  <2> HIDE DEF c, q
  <2>3. Held(q, NoSlot, m, {})
    BY <1>2, <1>7, <2>1, <2>2, HeldChange
  <2> QED
    BY <1>2, <2>3, HeldSwap
<1> HIDE DEF q
<1> DEFINE L == {}
<1>9. Held(q, m, NoSlot, L) /\ L \subseteq {m}
  BY <1>8
<1> HIDE DEF L
<1> QED
  BY <1>1, <1>2, <1>6, <1>9, PutAndDone

LEMMA UnlinkStep == ASSUME IInv, NEW s \in Slot, Unlink(s) PROVE IInv'
<1> DEFINE g == Got(tab, dinode, call.target, s)
           k == ChangedByWrite(g, cur)
           q == UnlinkedTab(k, s)
           e == WriteDir(NoEntry)
<1>1. /\ stage = "erase" /\ Gets(tab, call.target, s) /\ k[s].core.nlink >= 0
      /\ PutBothIs(q, dinode, e, cur, s)
      /\ Done /\ Balanced /\ UNCHANGED <<files, cdir>>
  BY DEF Unlink
<1>2. /\ TypeOK /\ FileCountIsFds /\ cur \in Slot /\ Held(tab, cur, NoSlot, {})
      /\ call.target \in Ino
  BY <1>1 DEF IInv, CallOK, HeldSlot, HeldLock
<1>3. dinode \in Disk /\ entry \in Entries
  BY <1>2 DEF TypeOK, Disk, Entries
<1>4. Held(g, s, cur, {s})
  <2> DEFINE i == call.target
  <2>1. Held(tab, NoSlot, cur, {}) /\ i \in Ino /\ Gets(tab, i, s)
    BY <1>1, <1>2, HeldSwap
  <2> HIDE DEF i
  <2>2. Held(Got(tab, dinode, i, s), s, cur, {s})
    BY <1>2, <1>3, <2>1, HeldTake
  <2> QED
    BY <2>2 DEF i
<1> HIDE DEF g
<1>5. Held(k, s, cur, {s})
  <2> DEFINE c == g[cur].core
  <2>1. g[cur].count # 0
    BY <1>2, <1>4, HeldCounts
  <2>2. c \in Inode
    BY <1>2, <1>4, SlotFields DEF Held
  <2>3. k = Changed(g, cur, c)
    BY DEF ChangedByWrite
  <2> HIDE DEF c, k
  <2> QED
    BY <1>2, <1>4, <2>1, <2>2, <2>3, HeldChange
<1> HIDE DEF k
<1>6. Held(q, s, cur, {s})
  <2> DEFINE c == [k[s].core EXCEPT !.nlink = @ - 1]
  <2>1. k[s].count # 0
    BY <1>2, <1>5, HeldCounts
  <2>2. c \in Inode
    <3>1. k[s].core \in Inode
      BY <1>5, SlotFields DEF Held
    <3> QED
      BY <1>1, <3>1, CoreFields
  <2>3. q = Changed(k, s, c)
    BY DEF UnlinkedTab
  <2> HIDE DEF c, q
  <2> QED
    BY <1>2, <1>5, <2>1, <2>2, <2>3, HeldChange
<1> HIDE DEF q
<1>7. Held(q, cur, s, {s}) /\ {s} \subseteq {cur, s}
  BY <1>2, <1>6, HeldSwap
<1>8. e \in Entries
  BY <1>3, Kinds DEF WriteDir, Entries
<1> HIDE DEF e
<1> QED
  BY <1>1, <1>2, <1>3, <1>7, <1>8, PutBothAndDone

\* Nothing happens to the tables or the files, and the call is another.
LEMMA CallMoves ==
    ASSUME IInv, stage # "dead", HeldSlot = NoSlot, HeldLock = {}, call.mate = NoSlot,
           UNCHANGED <<tab, entry, files, cdir, lost, stuck>>, dinode' \in Disk,
           stage' \in Stage, cur' \in Slot \cup {NoSlot}, call' \in Call, skipped' \subseteq Ino,
           HeldSlot' = NoSlot, HeldLock' = {}, call'.mate = NoSlot, CallOK'
    PROVE  IInv'
<1>1. TypeOK'
  BY DEF IInv, TypeOK, Disk, files
<1>2. FileCountIsFds' /\ Sound(tab)'
  BY DEF IInv, FileCountIsFds, files, Sound
<1>3. Held(tab, HeldSlot, call.mate, HeldLock)'
  <2>1. Held(tab, NoSlot, NoSlot, {})
    BY DEF IInv
  <2> QED
    BY <2>1, HeldNext
<1> QED
  BY <1>1, <1>2, <1>3 DEF IInv

LEMMA IdleFacts ==
    ASSUME IInv, stage \in {"idle", "exit"}
    PROVE  /\ TypeOK /\ FileCountIsFds /\ call.mate = NoSlot /\ call \in Call
           /\ HeldSlot = NoSlot /\ HeldLock = {}
           /\ dinode \in Disk /\ Held(tab, NoSlot, NoSlot, {})
           /\ cur \in Slot \cup {NoSlot} /\ skipped \subseteq Ino
<1>1. call.mate = NoSlot /\ HeldSlot = NoSlot /\ HeldLock = {}
  BY DEF IInv, CallOK, HeldSlot, HeldLock
<1> QED
  BY <1>1 DEF IInv, TypeOK, Disk

LEMMA BeginStep == ASSUME IInv, NEW m \in SearchMode, Begin(m) PROVE IInv'
<1>1. /\ stage = "idle" /\ stage' = "enter" /\ cur' \in {Root, cdir}
      /\ UNCHANGED <<table, files, cdir, history>>
  BY DEF Begin
<1>2. PICK n \in 0 .. MaxPath : call' = [NoCall EXCEPT !.mode = m, !.left = n]
  BY DEF Begin
<1>3. call' \in Call /\ call'.mate = NoSlot
  <2> DEFINE v == [mode |-> m, left |-> n, target |-> NoEntry, name |-> NoName, mate |-> NoSlot]
  <2>1. call' = v
    BY <1>2 DEF NoCall
  <2>2. v \in Call
    BY DEF Call
  <2> QED
    BY <2>1, <2>2
<1>4. CallOK' /\ HeldSlot' = NoSlot /\ HeldLock' = {}
  BY <1>1, <1>3 DEF CallOK, HeldSlot, HeldLock
<1>5. UNCHANGED <<tab, dinode, entry, files, cdir, lost, stuck, skipped>>
  BY <1>1 DEF table, history
<1>6. stage' \in Stage /\ cur' \in Slot \cup {NoSlot}
  BY <1>1, IdleFacts, Sizes DEF Stage, TypeOK
<1> QED
  BY <1>1, <1>3, <1>4, <1>5, <1>6, IdleFacts, CallMoves

LEMMA DupStep == ASSUME IInv, NEW fd \in FD, Dup(fd) PROVE IInv'
<1> DEFINE f == ofile[fd]
           x == Lowest(FreeFD)
<1>1. /\ stage = "idle" /\ f # NoFile /\ FreeFD # {}
      /\ ofile' = [ofile EXCEPT ![x] = f]
      /\ file' = [file EXCEPT ![f].count = @ + 1]
      /\ UNCHANGED <<table, cdir, stage, cur, call, history>>
  BY DEF Dup, FdCalled
<1>2. /\ TypeOK /\ FileCountIsFds /\ call.mate = NoSlot /\ Held(tab, NoSlot, NoSlot, {})
      /\ HeldSlot = NoSlot /\ HeldLock = {} /\ Sound(tab)
  BY <1>1, IdleFacts DEF IInv
<1>3. /\ f \in File /\ file[f].count \in Nat \ {0} /\ file[f].inode \in Slot
      /\ ofile \in [FD -> File \cup {NoFile}] /\ file \in [File -> OpenFile]
  BY <1>1, <1>2, OpenFileOf DEF TypeOK
<1>4. x \in FD /\ ofile[x] = NoFile
  <2>1. FreeFD \in SUBSET Nat
    BY Sizes DEF FreeFD
  <2>2. x \in FreeFD
    BY <1>1, <2>1, LowestIn
  <2> QED
    BY <2>2 DEF FreeFD
<1> HIDE DEF f, x
<1>5. /\ file' \in [File -> OpenFile] /\ file'[f].count = file[f].count + 1
      /\ file'[f].inode = file[f].inode /\ \A g \in File : g # f => file'[g] = file[g]
  <2> DEFINE v == [count |-> file[f].count + 1, inode |-> file[f].inode]
  <2>1. [file[f] EXCEPT !.count = @ + 1] = v /\ v \in OpenFile
    BY <1>3 DEF OpenFile
  <2>2. file' = [file EXCEPT ![f] = [file[f] EXCEPT !.count = @ + 1]]
    BY <1>1
  <2>3. file' = [file EXCEPT ![f] = v] /\ v.count = file[f].count + 1 /\ v.inode = file[f].inode
    BY <2>1, <2>2
  <2> HIDE DEF v
  <2> QED
    BY <1>3, <2>1, <2>3
<1>6. /\ ofile' \in [FD -> File \cup {NoFile}] /\ ofile'[x] = f
      /\ \A y \in FD : y # x => ofile'[y] = ofile[y]
  BY <1>1, <1>3, <1>4
<1>7. FileCountIsFds'
  <2>1. ASSUME NEW g \in File
        PROVE  file'[g].count = Cardinality({y \in FD : ofile'[y] = g})
    <3> DEFINE before == {y \in FD : ofile[y] = g}
               after  == {y \in FD : ofile'[y] = g}
    <3>1. file[g].count = Cardinality(before) /\ IsFiniteSet(before)
      BY <1>2, FinitelyMany DEF FileCountIsFds
    <3>2. CASE g # f
      <4>1. after = before
        BY <1>4, <1>6, <3>2, Sizes
      <4> QED
        BY <1>5, <3>1, <3>2, <4>1
    <3>3. CASE g = f
      <4>1. after = before \cup {x} /\ x \notin before
        BY <1>4, <1>6, <3>3, Sizes
      <4> HIDE DEF before, after
      <4>2. Cardinality(after) = Cardinality(before) + 1
        BY <3>1, <4>1, FS_AddElement
      <4> QED
        BY <1>5, <3>1, <3>3, <4>2 DEF after
    <3> QED
      BY <3>2, <3>3
  <2> QED
    BY <2>1 DEF FileCountIsFds
<1>8. UNCHANGED <<tab, dinode, entry, cdir, stage, cur, call, lost, stuck, skipped>>
  BY <1>1 DEF table, history
<1>9. TypeOK'
  BY <1>2, <1>5, <1>6, <1>8 DEF TypeOK
<1>10. Held(tab, HeldSlot, call.mate, HeldLock)'
  <2>1. \A s : FilesOf(s)' = FilesOf(s)
    BY <1>3, <1>5 DEF FilesOf
  <2>2. \A s : Base(s)' = Base(s)
    BY <1>8, <2>1 DEF Base
  <2>3. HeldSlot' = NoSlot /\ HeldLock' = {} /\ call'.mate = NoSlot
    BY <1>2, <1>8 DEF HeldSlot, HeldLock
  <2> QED
    BY <1>2, <1>8, <2>2, <2>3 DEF Held
<1>11. CallOK' /\ Sound(tab)'
  BY <1>2, <1>8 DEF IInv, CallOK, Sound
<1> QED
  BY <1>7, <1>9, <1>10, <1>11 DEF IInv

LEMMA FStatStep == ASSUME IInv, NEW fd \in FD, FStat(fd) PROVE IInv'
<1>1. /\ stage = "idle" /\ ofile[fd] # NoFile
      /\ dinode' = IUpdate(tab, dinode, file[ofile[fd]].inode)
      /\ UNCHANGED <<tab, entry, files, cdir, stage, cur, call, history>>
  BY DEF FStat, FdCalled
<1>2. dinode' \in Disk
  <2> DEFINE s == file[ofile[fd]].inode
  <2>1. s \in Slot /\ Sound(tab) /\ dinode \in Disk
    BY <1>1, IdleFacts, OpenFileOf DEF IInv
  <2> HIDE DEF s
  <2>2. IUpdate(tab, dinode, s) \in Disk
    <3>1. entry \in Entries
      BY DEF IInv, TypeOK, Entries
    <3> QED
      BY <2>1, <3>1, PutTypes
  <2> QED
    BY <1>1, <2>2 DEF s
<1>3. HeldSlot' = NoSlot /\ HeldLock' = {} /\ call'.mate = NoSlot /\ CallOK'
  BY <1>1, IdleFacts DEF HeldSlot, HeldLock, CallOK, IInv
<1>4. UNCHANGED <<tab, entry, files, cdir, lost, stuck, stage, cur, call, skipped>>
  BY <1>1 DEF history
<1> QED
  BY <1>1, <1>2, <1>3, <1>4, IdleFacts, CallMoves DEF Stage

LEMMA RdwrStep == ASSUME IInv, NEW fd \in FD, Rdwr(fd) PROVE IInv'
<1> DEFINE s == file[ofile[fd]].inode
<1>1. /\ stage = "idle" /\ ofile[fd] # NoFile /\ stage' = "lock" /\ cur' = s
      /\ UNCHANGED <<table, files, cdir, call, history>>
  BY DEF Rdwr, FdCalled
<1>2. s \in Slot /\ Base(s) # 0
  BY <1>1, IdleFacts, OpenFileOf, BaseCounts
<1> HIDE DEF s
<1>3. tab[s].count # 0
  BY <1>1, <1>2, IdleFacts, HeldCounts
<1>4. UNCHANGED <<tab, dinode, entry, files, cdir, lost, stuck, call, skipped>>
  BY <1>1 DEF table, history
<1>5. HeldSlot' = NoSlot /\ HeldLock' = {} /\ call'.mate = NoSlot /\ CallOK'
  BY <1>1, <1>2, <1>3, <1>4, IdleFacts DEF HeldSlot, HeldLock, CallOK, IInv
<1> QED
  BY <1>1, <1>2, <1>4, <1>5, IdleFacts, CallMoves DEF Stage

LEMMA RdwrLockedStep == ASSUME IInv, RdwrLocked PROVE IInv'
<1>1. /\ stage = "lock" /\ tab' \in {tab, ChangedByWrite(tab, cur)} /\ Done
      /\ UNCHANGED <<dinode, entry, files, cdir, history>>
  BY DEF RdwrLocked
<1>2. /\ TypeOK /\ FileCountIsFds /\ cur \in Slot /\ tab[cur].count # 0
      /\ Held(tab, NoSlot, NoSlot, {})
  BY <1>1 DEF IInv, CallOK, HeldSlot, HeldLock
<1>3. dinode \in Disk /\ entry \in Entries
  BY <1>2 DEF TypeOK, Disk, Entries
<1>4. Held(tab', NoSlot, NoSlot, {})
  <2>1. CASE tab' = tab
    BY <1>2, <2>1
  <2>2. CASE tab' = ChangedByWrite(tab, cur)
    <3> DEFINE c == tab[cur].core
    <3>1. c \in Inode
      BY <1>2, SlotFields DEF Held
    <3>2. tab' = Changed(tab, cur, c)
      BY <2>2 DEF ChangedByWrite
    <3> HIDE DEF c
    <3> QED
      BY <1>2, <3>1, <3>2, HeldChange
  <2> QED
    BY <1>1, <2>1, <2>2
<1>5. UNCHANGED <<files, cdir, lost, skipped, stuck>>
  BY <1>1 DEF history
<1>6. call' = NoCall /\ call'.mate = NoSlot /\ call' \in Call /\ stage' = "idle" /\ cur' = NoSlot
  BY <1>1, NoCallType DEF Done
<1>7. CallOK' /\ HeldSlot' = NoSlot /\ HeldLock' = {}
  BY <1>6 DEF CallOK, HeldSlot, HeldLock
<1>8. TableIs(tab', dinode, entry) /\ stuck' \subseteq Slot /\ stage' \in Stage
  BY <1>1, <1>2, <1>5, <1>6 DEF TableIs, TypeOK, Stage
<1> QED
  BY <1>2, <1>3, <1>4, <1>5, <1>6, <1>7, <1>8, Settle

LEMMA UpdateStep == ASSUME IInv, Update \/ Exit PROVE IInv'
<1>1. /\ stage = "idle" /\ stage' \in {"idle", "exit"} /\ dinode' = UpdateInodeTable(tab, dinode)
      /\ UNCHANGED <<tab, entry, files, cdir, cur, call, lost, stuck>>
  BY DEF Update, Exit, history
<1>2. dinode' \in Disk
  BY <1>1, IdleFacts, UpdateTypes DEF IInv
<1>3. skipped' \subseteq Ino
  <2>1. CASE Update
    BY <1>1, <2>1, IdleFacts DEF Update, history
  <2>2. CASE Exit
    <3>1. ASSUME NEW s \in stuck, tab[s].locked PROVE tab[s].number \in Ino
      <4>1. s \in Slot /\ Sound(tab)
        BY DEF IInv, TypeOK
      <4>2. tab[s].count # 0
        BY <3>1, <4>1, SlotFields
      <4> QED
        BY <4>1, <4>2 DEF Sound
    <3> QED
      BY <1>1, <2>2, <3>1, IdleFacts DEF Exit
  <2> QED
    BY <2>1, <2>2
<1>4. HeldSlot' = NoSlot /\ HeldLock' = {} /\ call'.mate = NoSlot /\ CallOK'
  BY <1>1, IdleFacts DEF HeldSlot, HeldLock, CallOK, IInv
<1>5. stage' \in Stage
  BY <1>1 DEF Stage
<1> QED
  BY <1>1, <1>2, <1>3, <1>4, <1>5, IdleFacts, CallMoves

-----------------------------------------------------------------------------
(* A start of the program.                                                 *)

\* The table with which a session begins: the root, for the root pointer and
\* the current directory.
LEMMA StartTable ==
    ASSUME NEW d \in Disk
    PROVE  /\ Sound(StartTab(d))
           /\ \A s \in Slot : ~ StartTab(d)[s].locked
           /\ \A s \in Slot : StartTab(d)[s].count = IF s = Root THEN 2 ELSE 0
<1> DEFINE v == [number |-> RootIno, count |-> 2, locked |-> FALSE, marked |-> FALSE,
                 core |-> d[RootIno]]
           t == StartTab(d)
<1>1. v \in InCore
  BY Kinds DEF InCore, Disk
<1>2. v.number = RootIno /\ v.count = 2 /\ ~ v.locked
  OBVIOUS
<1>3. t = [s \in Slot |-> IF s # Root THEN FreeSlot ELSE v]
  BY DEF StartTab
<1> HIDE DEF v, t
<1>4. t \in [Slot -> InCore] /\ \A s \in Slot : t[s] = IF s # Root THEN FreeSlot ELSE v
  BY <1>1, <1>3, Kinds
<1>5. Sound(t)
  BY <1>2, <1>4, Kinds DEF Sound
<1> QED
  BY <1>2, <1>4, <1>5, Kinds DEF t

Starting ==
    /\ tab = StartTab(dinode) /\ dinode \in Disk /\ entry \in Entries
    /\ ofile = NoFiles /\ file \in [File -> OpenFile] /\ \A f \in File : file[f].count = 0
    /\ cdir = Root /\ lost = NoneLost /\ stuck = {} /\ skipped \subseteq Ino
    /\ stage = "idle" /\ cur = NoSlot /\ call = NoCall

LEMMA Started == Starting => IInv
<1> SUFFICES ASSUME Starting PROVE IInv
  OBVIOUS
<1>1. /\ Sound(tab)
      /\ \A s \in Slot : ~ tab[s].locked
      /\ \A s \in Slot : tab[s].count = IF s = Root THEN 2 ELSE 0
  BY StartTable DEF Starting
<1>3. TypeOK
  BY <1>1, NoCallType, Sizes
  DEF Starting, TypeOK, Sound, Disk, Entries, NoFiles, NoneLost, Stage
<1>4. FileCountIsFds
  <2>1. ASSUME NEW f \in File PROVE file[f].count = Cardinality({fd \in FD : ofile[fd] = f})
    <3>1. {fd \in FD : ofile[fd] = f} = {}
      BY Sizes DEF NoFiles, Starting
    <3> QED
      BY <3>1, FS_EmptySet DEF Starting
  <2> QED
    BY <2>1 DEF FileCountIsFds
<1>5. Held(tab, HeldSlot, call.mate, HeldLock)
  <2>1. ASSUME NEW s \in Slot PROVE Cardinality(FilesOf(s)) = 0
    <3>1. FilesOf(s) = {}
      BY DEF FilesOf, Starting
    <3> QED
      BY <3>1, FS_EmptySet
  <2>2. ASSUME NEW s \in Slot PROVE Base(s) = IF s = Root THEN 2 ELSE 0
    BY <2>1 DEF Base, NoneLost, Starting
  <2> QED
    BY <1>1, <2>2, NoCallType, Sizes DEF Held, HeldSlot, HeldLock, Starting
<1>6. CallOK
  BY NoCallType DEF CallOK, Starting
<1> QED
  BY <1>1, <1>3, <1>4, <1>5, <1>6 DEF IInv

LEMMA FormatTypes == FormatDinode \in Disk /\ FormatEntry \in Entries
<1>1. [type |-> "dir", perm |-> "some", nlink |-> 1] \in Inode
  BY Kinds DEF Inode, Type, Perm
<1>2. FormatDinode \in Disk
  BY <1>1, Kinds DEF FormatDinode, Disk
<1>3. ASSUME NEW i \in SubDir PROVE i \in Ino
  BY <1>3, SubAssumption DEF SubDir
<1>4. ASSUME NEW i \in Ino
      PROVE  FormatEntry[i] \in [Name -> Ino \cup {Stray, NoEntry}]
  <2>1. CASE i = RootIno
    <3>1. FormatEntry[i] = [n \in Name |-> IF n \in {Dot, DotDot} THEN RootIno
                             ELSE IF n \in DOMAIN Sub THEN Sub[n] ELSE NoEntry]
      BY <1>4, <2>1 DEF FormatEntry
    <3>2. ASSUME NEW n \in DOMAIN Sub PROVE Sub[n] \in Ino
      BY <3>2, SubAssumption
    <3> QED
      BY <3>1, <3>2, Kinds
  <2>2. CASE i # RootIno /\ i \in SubDir
    <3>1. FormatEntry[i] = [Empty EXCEPT ![Dot] = i, ![DotDot] = RootIno]
      BY <1>4, <2>2 DEF FormatEntry
    <3> QED
      BY <1>4, <3>1, Kinds
  <2>3. CASE i # RootIno /\ i \notin SubDir
    <3>1. FormatEntry[i] = Empty
      BY <1>4, <2>3 DEF FormatEntry
    <3> QED
      BY <3>1, Kinds
  <2> QED
    BY <2>1, <2>2, <2>3
<1>5. FormatEntry \in Entries
  BY <1>4 DEF Entries, FormatEntry
<1> QED
  BY <1>2, <1>5

LEMMA InitIInv == Init => IInv
<1> SUFFICES ASSUME Init PROVE IInv
  OBVIOUS
<1>1. dinode \in Disk /\ entry \in Entries /\ tab = StartTab(dinode)
  BY FormatTypes DEF Init
<1>2. file \in [File -> OpenFile] /\ \A f \in File : file[f].count = 0
  BY Sizes DEF Init, AllClosed, ClosedFile, OpenFile
<1>3. Starting
  BY <1>1, <1>2 DEF Init, Starting
<1> QED
  BY <1>3, Started

LEMMA RestartStep == ASSUME IInv, Restart PROVE IInv'
<1>1. /\ stage = "exit" /\ tab' = StartTab(dinode) /\ cdir' = Root /\ lost' = NoneLost
      /\ stuck' = {} /\ Done /\ \A fd \in FD : ofile[fd] = NoFile
      /\ UNCHANGED <<dinode, entry, files, skipped>>
  BY DEF Restart
<1>2. TypeOK /\ FileCountIsFds
  BY DEF IInv
<1>3. ofile = NoFiles
  BY <1>1, <1>2 DEF TypeOK, NoFiles
<1>4. ASSUME NEW f \in File PROVE file[f].count = 0
  <2>1. {fd \in FD : ofile[fd] = f} = {}
    BY <1>1, Sizes
  <2> QED
    BY <1>2, <2>1, FS_EmptySet DEF FileCountIsFds
<1>5. Starting'
  BY <1>1, <1>2, <1>3, <1>4 DEF Starting, Done, files, TypeOK, Disk, Entries
<1> QED
  BY <1>5, Started, PTL

-----------------------------------------------------------------------------
LEMMA NameIStep == ASSUME IInv, NameI PROVE IInv'
<1>1. ASSUME NEW n \in Name, SearchAbsent(n) \/ SearchVictim(n) \/ SearchMatches(n) PROVE IInv'
  BY <1>1, AbsentStep, VictimStep, MatchesStep
<1>2. CASE GetFails
  BY <1>2, DiesStep DEF GetFails
<1> QED
  BY <1>1, <1>2, EnterStep, SearchFails, GetStep DEF NameI

LEMMA RestStep == ASSUME IInv, Rest PROVE IInv'
<1>1. ASSUME NEW i \in FreeInode PROVE i \in Ino
  BY DEF FreeInode
<1>2. ASSUME NEW i \in FreeInode, NEW s \in Slot, CreatNew(i, s) \/ MkNodNew(i, s) \/ MkdirNew(i, s)
      PROVE  IInv'
  BY <1>1, <1>2, CreatNewStep, MkNodNewStep, MkdirNewStep
<1>3. ASSUME NEW i \in FreeInode, MakNodeOverflows(i) PROVE IInv'
  BY <1>1, <1>3, MakNodeOverflowsStep
<1>4. CASE MakNodeExhausted \/ UnlinkFails
  BY <1>4, DiesStep DEF MakNodeExhausted, UnlinkFails
<1>5. ASSUME NEW s \in Slot, Unlink(s) PROVE IInv'
  BY <1>5, UnlinkStep
<1> QED
  BY <1>2, <1>3, <1>4, <1>5, OpenStep, OpenToReadStep, CreatFoundStep, MkdirFoundStep, ChDirStep,
     LinkFirstStep, LinkExistsStep, MkNodFoundStep, ChModStep, StatStep, LinkNewStep, RdwrLockedStep
  DEF Rest

LEMMA StepIInv == IInv /\ [Next]_vars => IInv'
<1> SUFFICES ASSUME IInv, [Next]_vars PROVE IInv'
  OBVIOUS
<1>1. ASSUME NEW fd \in FD, Close(fd) PROVE IInv'
  BY <1>1, Closing DEF Close, FdCalled
<1>2. CASE ExitClose
  <2> DEFINE S  == {fd \in FD : ofile[fd] # NoFile}
             fd == Lowest(S)
  <2>1. stage = "exit" /\ S # {} /\ Closed(fd) /\ UNCHANGED <<stage, call>>
    BY <1>2 DEF ExitClose
  <2>2. fd \in S
    <3>1. S \in SUBSET Nat
      BY Sizes
    <3> HIDE DEF S
    <3> QED
      BY <2>1, <3>1, LowestIn
  <2>3. fd \in FD /\ ofile[fd] # NoFile
    BY <2>2
  <2> HIDE DEF fd
  <2> QED
    BY <2>1, <2>3, Closing
<1>3. ASSUME NEW fd \in FD, Dup(fd) \/ FStat(fd) \/ Rdwr(fd) PROVE IInv'
  BY <1>3, DupStep, FStatStep, RdwrStep
<1>4. ASSUME NEW m \in SearchMode, Begin(m) PROVE IInv'
  BY <1>4, BeginStep
<1>5. CASE Proceed
  BY <1>2, <1>5, NameIStep, RestStep, RestartStep DEF Proceed
<1>6. CASE UNCHANGED vars
  <2>1. UNCHANGED <<tab, dinode, entry, ofile, file, cdir, stage, cur, call, lost, stuck, skipped>>
    BY <1>6 DEF vars, table, files, history
  <2>2. TypeOK'
    BY <2>1 DEF IInv, TypeOK
  <2>3. FileCountIsFds' /\ Sound(tab)' /\ CallOK'
    BY <2>1 DEF IInv, FileCountIsFds, Sound, CallOK
  <2>4. stage # "dead" => Held(tab, HeldSlot, call.mate, HeldLock)'
    BY <2>1 DEF IInv, Held, HeldSlot, HeldLock, Base, FilesOf, Sound
  <2> QED
    BY <2>1, <2>2, <2>3, <2>4 DEF IInv
<1> QED
  BY <1>1, <1>3, <1>4, <1>5, <1>6, UpdateStep DEF Next

\* Whatever calls are made, with files and directories of every kind, the tables,
\* the files and the call in progress stay as the calls of FileManager.cpp expect.
THEOREM FilesInvariant == Spec => []IInv
BY InitIInv, StepIInv, PTL DEF Spec

-----------------------------------------------------------------------------
(* The properties.                                                         *)

\* The tables, the call in progress and the histories keep their types: link
\* counts stay in range, no entry holds what is no inode number, and every slot
\* that a file, u_cdir or a call names is one of the table's.
THEOREM FilesTypeCorrect == Spec => []TypeOK
<1>1. IInv => TypeOK
  BY DEF IInv
<1> QED
  BY <1>1, FilesInvariant, PTL

\* IGet never loads an inode a second time: no two slots in use have a number.
THEOREM OneSlotEach == Spec => []OneSlotPerInode
<1>1. IInv => OneSlotPerInode
  BY DEF IInv, Sound, OneSlotPerInode, Loaded
<1> QED
  BY <1>1, FilesInvariant, PTL

\* f_count is the number of descriptors of the open file, through every order of
\* opens, dups and closes.
THEOREM FilesCounted == Spec => []FileCountIsFds
<1>1. IInv => FileCountIsFds
  BY DEF IInv
<1> QED
  BY <1>1, FilesInvariant, PTL

\* i_count is the number of the users of the inode at every step of every call,
\* the early returns and the full tables among them; what a call keeps when it
\* returns is in `lost`.
THEOREM ReferencesCounted == Spec => []CountIsRefs
<1>1. IInv => CountIsRefs
  <2> SUFFICES ASSUME IInv, stage # "dead", NEW s \in Slot
               PROVE  tab[s].count = Cardinality(FilesOf(s)) + (IF s = cdir THEN 1 ELSE 0)
                             + (IF s = Root THEN 1 ELSE 0) + Holds(s) + lost[s]
    BY DEF CountIsRefs
  <2>1. tab[s].count = Base(s) + (IF HeldSlot = s THEN 1 ELSE 0) + (IF call.mate = s THEN 1 ELSE 0)
    BY DEF IInv, Held
  <2>2. (IF HeldSlot = s THEN 1 ELSE 0) =
            IF cur = s /\ stage \in {"search", "create", "erase"} THEN 1 ELSE 0
    BY Sizes DEF HeldSlot
  <2>3. Cardinality(FilesOf(s)) \in Nat /\ lost[s] \in Nat
    BY FinitelyMany DEF IInv, TypeOK
  <2> QED
    BY <2>1, <2>2, <2>3 DEF Holds, Base
<1> QED
  BY <1>1, FilesInvariant, PTL

\* An inode found locked between calls is one whose lock a call has left behind:
\* no path through a call forgets Prele but MyMkdir's and those of a full table.
THEOREM LocksKnown == Spec => []LocksAccounted
<1>1. IInv => LocksAccounted
  BY DEF IInv, Held, HeldLock, LocksAccounted
<1> QED
  BY <1>1, FilesInvariant, PTL

=============================================================================
