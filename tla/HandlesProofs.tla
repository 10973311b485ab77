---------------------------- MODULE HandlesProofs ---------------------------
(***************************************************************************)
(* The system calls implement OpenFileSpec: an inode in use through a      *)
(* descriptor or as the current directory is neither freed nor exchanged   *)
(* for another, whatever calls are made.  The reference counts that        *)
(* FileManagerProofs establishes keep its slot loaded, and no operation on *)
(* a loaded slot frees its inode.                                          *)
(*                                                                         *)
(* The second half is about names.  The shell neither links nor unlinks,   *)
(* so each inode keeps the link it was made with and the one name it was   *)
(* made for, through every call, exit and start (NInv).                    *)
(***************************************************************************)
EXTENDS FileManagerProofs

\* What is free in core is free on the disk: a session that ends without
\* writing an inode leaves none that was not there.
DiskFree(t, d) ==
    \A s \in Slot : t[s].count # 0 /\ t[s].core.type = "free" => d[t[s].number].type = "free"

HInv == IInv /\ DiskFree(tab, dinode)

\* Inode i is that of a slot in use.
LoadedIn(t, i) == \E s \in Slot : t[s].count # 0 /\ t[s].number = i

\* The inodes that hold something, by tables t and d.
LiveIn(t, d) ==
    {i \in Ino : \/ \E s \in Slot : t[s].count # 0 /\ t[s].number = i /\ t[s].core.type # "free"
                 \/ ~ LoadedIn(t, i) /\ d[i].type # "free"}

\* Tables t and d come from the present ones and nothing but X has come to life;
\* a slot that is in use in both has the same inode, and has not lost it.
Lives(t, d, X) ==
    /\ DiskFree(t, d)
    /\ LiveIn(t, d) \subseteq LiveIn(tab, dinode) \cup X
    /\ \A u \in Slot : tab[u].count # 0 /\ t[u].count # 0 =>
            /\ t[u].number = tab[u].number
            /\ tab[u].core.type # "free" => t[u].core.type # "free"

-----------------------------------------------------------------------------
(* The live inodes and the operations on the table.                        *)

LEMMA LiveIsLiveIn ==
    ASSUME Sound(tab)
    PROVE  Live = LiveIn(tab, dinode)
<1>1. ASSUME NEW i \in Ino PROVE Effective(i).type # "free" <=> i \in LiveIn(tab, dinode)
  <2>1. CASE IsLoaded(tab, i) = {}
    <3>1. ~ LoadedIn(tab, i)
      BY <2>1 DEF IsLoaded, LoadedIn
    <3>2. Effective(i) = dinode[i]
      BY <2>1 DEF Effective
    <3> QED
      BY <3>1, <3>2 DEF LiveIn, LoadedIn
  <2>2. CASE IsLoaded(tab, i) # {}
    <3> DEFINE s == CHOOSE u \in IsLoaded(tab, i) : TRUE
    <3>1. s \in IsLoaded(tab, i)
      BY <2>2
    <3>2. Effective(i) = tab[s].core
      BY <2>2 DEF Effective
    <3> HIDE DEF s
    <3>3. s \in Slot /\ tab[s].count # 0 /\ tab[s].number = i
      BY <3>1 DEF IsLoaded
    <3>4. \A u \in Slot : tab[u].count # 0 /\ tab[u].number = i => u = s
      BY <3>3 DEF Sound
    <3> QED
      BY <3>2, <3>3, <3>4 DEF LiveIn, LoadedIn
  <2> QED
    BY <2>1, <2>2
<1> QED
  BY <1>1 DEF Live, LiveIn

\* A loaded inode is live by its slot.
LEMMA LiveByCore ==
    ASSUME NEW t, Sound(t), NEW d, NEW s \in Slot, t[s].count # 0
    PROVE  t[s].number \in LiveIn(t, d) <=> t[s].core.type # "free"
BY DEF Sound, LiveIn, LoadedIn

LEMMA StartLives ==
    ASSUME HInv
    PROVE  Lives(tab, dinode, {})
BY DEF HInv, Lives

\* A slot's inode given back: it alone may go, and only when the slot goes.
LEMMA PutLive ==
    ASSUME NEW t, Sound(t), NEW d \in Disk, NEW s \in Slot, t[s].count # 0, DiskFree(t, d)
    PROVE  LET p  == IPut(t, s)
               d2 == IPutDisk(t, d, s)
           IN  /\ DiskFree(p, d2)
               /\ LiveIn(p, d2) \subseteq LiveIn(t, d)
               /\ LiveIn(t, d) \ {t[s].number} \subseteq LiveIn(p, d2)
               /\ p[s].count # 0 => LiveIn(p, d2) = LiveIn(t, d)
               /\ t[s].core.nlink > 0 /\ t[s].marked /\ t[s].core.type # "free" =>
                    t[s].number \in LiveIn(p, d2)
               /\ \A u \in Slot : p[u].count # 0 =>
                    /\ t[u].count # 0 /\ p[u].number = t[u].number /\ p[u].core = t[u].core
<1> DEFINE p  == IPut(t, s)
           d2 == IPutDisk(t, d, s)
           n  == t[s].number
<1>1. /\ Sound(p) /\ p[s].count = t[s].count - 1
      /\ p[s].count # 0 => p[s].number = n /\ p[s].core = t[s].core
      /\ \A u \in Slot : u # s => p[u] = t[u]
  BY Putting
<1>2. t[s].count \in Nat /\ n \in Ino /\ t[s].core \in Inode /\ d \in [Ino -> Inode]
  BY SlotFields DEF Sound, Disk
<1>3. /\ \A i \in Ino : i # n => d2[i] = d[i]
      /\ p[s].count # 0 => d2 = d
      /\ p[s].count = 0 => d2[n] \in {Reclaimed, t[s].core, d[n]}
      /\ p[s].count = 0 /\ t[s].core.nlink > 0 /\ t[s].marked => d2[n] = t[s].core
  <2>1. p[s].count = 0 <=> IsLast(t, s)
    BY <1>1, <1>2 DEF IsLast
  <2>2. CASE Dropped(t, s)
    <3>1. d2 = [d EXCEPT ![n] = Reclaimed] /\ IsLast(t, s) /\ ~ (t[s].core.nlink > 0)
      BY <1>2, <2>2 DEF IPutDisk, Dropped, Inode
    <3> HIDE DEF d2, p, n
    <3> QED
      BY <1>2, <2>1, <3>1
  <2>3. CASE ~ Dropped(t, s) /\ IsLast(t, s)
    <3>1. d2 = IF t[s].marked THEN [d EXCEPT ![n] = t[s].core] ELSE d
      BY <2>3 DEF IPutDisk, IUpdate
    <3> HIDE DEF d2, p, n
    <3> QED
      BY <1>2, <2>1, <2>3, <3>1
  <2>4. CASE ~ IsLast(t, s)
    <3>1. d2 = d
      BY <2>4 DEF IPutDisk, Dropped
    <3> HIDE DEF d2, p, n
    <3> QED
      BY <2>1, <2>4, <3>1
  <2> QED
    BY <2>2, <2>3, <2>4
<1>4. \A u \in Slot : u # s /\ t[u].count # 0 => t[u].number # n /\ t[u].number \in Ino
  BY DEF Sound
<1>5. \A u \in Slot : p[u].count # 0 =>
            /\ t[u].count # 0 /\ p[u].number = t[u].number /\ p[u].core = t[u].core
  BY <1>1
<1>6. \A i \in Ino : i # n => (LoadedIn(p, i) <=> LoadedIn(t, i))
  BY <1>1 DEF LoadedIn
<1>7. n = t[s].number
  OBVIOUS
<1> HIDE DEF p, d2, n
<1>8. DiskFree(p, d2)
  <2> SUFFICES ASSUME NEW u \in Slot, p[u].count # 0, p[u].core.type = "free"
               PROVE  d2[p[u].number].type = "free"
    BY DEF DiskFree
  <2>1. t[u].count # 0 /\ p[u].number = t[u].number /\ t[u].core.type = "free"
    BY <1>5
  <2>2. d[t[u].number].type = "free"
    BY <2>1 DEF DiskFree
  <2>3. CASE u = s
    BY <1>3, <2>1, <2>2, <2>3
  <2>4. CASE u # s
    BY <1>3, <1>4, <2>1, <2>2, <2>4
  <2> QED
    BY <2>3, <2>4
<1>9. ASSUME NEW i \in Ino, i # n PROVE i \in LiveIn(p, d2) <=> i \in LiveIn(t, d)
  <2>1. (\E u \in Slot : p[u].count # 0 /\ p[u].number = i /\ p[u].core.type # "free")
            <=> (\E u \in Slot : t[u].count # 0 /\ t[u].number = i /\ t[u].core.type # "free")
    BY <1>1, <1>5, <1>7, <1>9
  <2> QED
    BY <1>3, <1>6, <1>9, <2>1 DEF LiveIn
<1>10. n \in LiveIn(t, d) <=> t[s].core.type # "free"
  BY <1>7, LiveByCore
<1>11. CASE p[s].count # 0
  <2>1. n \in LiveIn(p, d2) <=> t[s].core.type # "free"
    BY <1>1, <1>11, LiveByCore
  <2>2. LiveIn(p, d2) = LiveIn(t, d)
    BY <1>2, <1>9, <1>10, <2>1 DEF LiveIn
  <2> QED
    BY <1>5, <1>8, <1>10, <2>2, <1>7 DEF p, d2
<1>12. CASE p[s].count = 0
  <2>1. ~ LoadedIn(p, n)
    BY <1>1, <1>4, <1>12 DEF LoadedIn
  <2>2. n \in LiveIn(p, d2) <=> d2[n].type # "free"
    BY <1>2, <2>1 DEF LiveIn, LoadedIn
  <2>3. t[s].core.type = "free" => d[n].type = "free"
    BY <1>7 DEF DiskFree
  <2>4. n \in LiveIn(p, d2) => n \in LiveIn(t, d)
    BY <1>3, <1>10, <1>12, <2>2, <2>3, Kinds
  <2>5. t[s].core.nlink > 0 /\ t[s].marked /\ t[s].core.type # "free" => n \in LiveIn(p, d2)
    BY <1>3, <1>12, <2>2
  <2>6. LiveIn(p, d2) \subseteq LiveIn(t, d) /\ LiveIn(t, d) \ {n} \subseteq LiveIn(p, d2)
    BY <1>9, <2>4 DEF LiveIn
  <2> QED
    BY <1>5, <1>7, <1>8, <1>12, <2>5, <2>6 DEF p, d2
<1> QED
  BY <1>11, <1>12

LEMMA LivesPut ==
    ASSUME NEW t, Sound(t), NEW d \in Disk, NEW X, Lives(t, d, X), NEW s \in Slot, t[s].count # 0
    PROVE  Lives(IPut(t, s), IPutDisk(t, d, s), X)
<1> DEFINE p  == IPut(t, s)
           d2 == IPutDisk(t, d, s)
<1>1. /\ DiskFree(p, d2)
      /\ LiveIn(p, d2) \subseteq LiveIn(t, d)
      /\ \A u \in Slot : p[u].count # 0 =>
            /\ t[u].count # 0 /\ p[u].number = t[u].number /\ p[u].core = t[u].core
  <2>1. DiskFree(t, d)
    BY DEF Lives
  <2> QED
    BY <2>1, PutLive
<1> HIDE DEF p, d2
<1>2. Lives(p, d2, X)
  BY <1>1 DEF Lives
<1> QED
  BY <1>2 DEF p, d2

\* A change of a slot's inode that does not free it, and one that brings nothing
\* to life.
LEMMA SlotLive ==
    ASSUME NEW t, Sound(t), NEW q, Sound(q), NEW d,
           \A u \in Slot : q[u].count = t[u].count /\ q[u].number = t[u].number,
           NEW s \in Slot, \A u \in Slot : u # s => q[u].core.type = t[u].core.type,
           t[s].core.type # "free" => q[s].core.type # "free", DiskFree(t, d)
    PROVE  /\ DiskFree(q, d)
           /\ LiveIn(q, d) \subseteq LiveIn(t, d) \cup {t[s].number}
           /\ q[s].core.type = t[s].core.type => LiveIn(q, d) = LiveIn(t, d)
<1>1. \A i : LoadedIn(q, i) <=> LoadedIn(t, i)
  BY DEF LoadedIn
<1>2. DiskFree(q, d)
  BY DEF DiskFree
<1>3. LiveIn(q, d) \subseteq LiveIn(t, d) \cup {t[s].number}
  BY <1>1 DEF LiveIn
<1>4. q[s].core.type = t[s].core.type => LiveIn(q, d) = LiveIn(t, d)
  BY <1>1 DEF LiveIn
<1> QED
  BY <1>2, <1>3, <1>4

LEMMA LivesSlot ==
    ASSUME NEW t, Sound(t), NEW q, Sound(q), NEW d, NEW X, Lives(t, d, X),
           \A u \in Slot : q[u].count = t[u].count /\ q[u].number = t[u].number,
           NEW s \in Slot, \A u \in Slot : u # s => q[u].core.type = t[u].core.type,
           t[s].core.type # "free" => q[s].core.type # "free"
    PROVE  /\ t[s].number \in X => Lives(q, d, X)
           /\ q[s].core.type = t[s].core.type => Lives(q, d, X)
<1>1. /\ DiskFree(q, d)
      /\ LiveIn(q, d) \subseteq LiveIn(t, d) \cup {t[s].number}
      /\ q[s].core.type = t[s].core.type => LiveIn(q, d) = LiveIn(t, d)
  <2>1. DiskFree(t, d)
    BY DEF Lives
  <2> QED
    BY <2>1, SlotLive
<1>2. \A u \in Slot : tab[u].count # 0 /\ q[u].count # 0 =>
            /\ q[u].number = tab[u].number
            /\ tab[u].core.type # "free" => q[u].core.type # "free"
  BY DEF Lives
<1> QED
  BY <1>1, <1>2 DEF Lives

\* An inode is taken: a copy comes into core, or a reference is added.
LEMMA LivesGet ==
    ASSUME HInv, NEW i \in Ino, NEW s, Gets(tab, i, s)
    PROVE  Lives(Got(tab, dinode, i, s), dinode, {})
<1> DEFINE g == Got(tab, dinode, i, s)
<1>0. Sound(tab) /\ dinode \in Disk /\ DiskFree(tab, dinode)
  BY DEF HInv, IInv, TypeOK, Disk
<1>1. /\ s \in Slot
      /\ g[s].count = tab[s].count + 1 /\ g[s].number = i
      /\ tab[s].count # 0 => tab[s].number = i
      /\ g[s].core = IF tab[s].count # 0 THEN tab[s].core ELSE dinode[i]
      /\ \A u \in Slot : u # s => g[u] = tab[u]
      /\ tab[s].count = 0 => \A u \in Slot : tab[u].count # 0 => tab[u].number # i
  BY <1>0, Getting
<1>2. tab[s].count \in Nat
  BY <1>0, <1>1, SlotFields
<1> HIDE DEF g
<1>3. DiskFree(g, dinode)
  BY <1>0, <1>1, <1>2 DEF DiskFree
<1>4. LiveIn(g, dinode) \subseteq LiveIn(tab, dinode)
  <2> SUFFICES ASSUME NEW j \in LiveIn(g, dinode) PROVE j \in LiveIn(tab, dinode)
    OBVIOUS
  <2>1. j \in Ino
    BY DEF LiveIn
  <2>2. CASE \E u \in Slot : g[u].count # 0 /\ g[u].number = j /\ g[u].core.type # "free"
    BY <1>1, <2>1, <2>2 DEF LiveIn, LoadedIn
  <2>3. CASE ~ LoadedIn(g, j) /\ dinode[j].type # "free"
    BY <1>1, <1>2, <2>1, <2>3 DEF LiveIn, LoadedIn
  <2> QED
    BY <2>2, <2>3 DEF LiveIn
<1>5. \A u \in Slot : tab[u].count # 0 /\ g[u].count # 0 =>
            /\ g[u].number = tab[u].number
            /\ tab[u].core.type # "free" => g[u].core.type # "free"
  BY <1>1
<1> QED
  BY <1>3, <1>4, <1>5 DEF Lives, g

\* Loaded inodes are written to the disk, some or all.
LEMMA LivesWrite ==
    ASSUME HInv, NEW d,
           \A i \in Ino : ~ LoadedIn(tab, i) => d[i] = dinode[i],
           \A s \in Slot : tab[s].count # 0 =>
                d[tab[s].number] \in {dinode[tab[s].number], tab[s].core}
    PROVE  Lives(tab, d, {}) /\ LiveIn(tab, d) = LiveIn(tab, dinode)
<1>1. DiskFree(tab, d)
  BY DEF HInv, DiskFree
<1>2. LiveIn(tab, d) = LiveIn(tab, dinode)
  BY DEF LiveIn
<1> QED
  BY <1>1, <1>2 DEF Lives

LEMMA LivesIUpdate ==
    ASSUME HInv, NEW s \in Slot, tab[s].count # 0
    PROVE  LET d == IUpdate(tab, dinode, s)
           IN  Lives(tab, d, {}) /\ LiveIn(tab, d) = LiveIn(tab, dinode)
<1> DEFINE d == IUpdate(tab, dinode, s)
<1>0. Sound(tab) /\ dinode \in Disk
  BY DEF HInv, IInv, TypeOK, Disk
<1>1. tab[s].number \in Ino
  BY <1>0 DEF Sound
<1>2. \A i \in Ino : d[i] = dinode[i] \/ (i = tab[s].number /\ d[i] = tab[s].core)
  <2> DEFINE n == tab[s].number
             c == tab[s].core
  <2>1. d = dinode \/ d = [dinode EXCEPT ![n] = c]
    BY DEF IUpdate
  <2>2. n \in Ino
    BY <1>1
  <2> HIDE DEF d, n, c
  <2>3. ASSUME NEW i \in Ino PROVE d[i] = dinode[i] \/ (i = n /\ d[i] = c)
    BY <1>0, <2>1, <2>2 DEF Disk
  <2> QED
    BY <2>3 DEF n, c
<1> HIDE DEF d
<1>3. \A i \in Ino : ~ LoadedIn(tab, i) => d[i] = dinode[i]
  BY <1>2 DEF LoadedIn
<1>4. \A u \in Slot : tab[u].count # 0 =>
                d[tab[u].number] \in {dinode[tab[u].number], tab[u].core}
  BY <1>0, <1>2 DEF Sound
<1>5. Lives(tab, d, {}) /\ LiveIn(tab, d) = LiveIn(tab, dinode)
  BY <1>3, <1>4, LivesWrite
<1> QED
  BY <1>5 DEF d

LEMMA LivesUpdate ==
    ASSUME HInv
    PROVE  LET d == UpdateInodeTable(tab, dinode)
           IN  Lives(tab, d, {}) /\ LiveIn(tab, d) = LiveIn(tab, dinode)
<1> DEFINE d == UpdateInodeTable(tab, dinode)
           Written(i) == {s \in IsLoaded(tab, i) : ~tab[s].locked /\ tab[s].marked}
<1>0. Sound(tab)
  BY DEF HInv, IInv
<1>1. \A i \in Ino : d[i] = IF Written(i) = {} THEN dinode[i]
                            ELSE tab[CHOOSE s \in Written(i) : TRUE].core
  BY DEF UpdateInodeTable
<1>2. ASSUME NEW i \in Ino, Written(i) # {}
      PROVE  \E s \in Slot : tab[s].count # 0 /\ tab[s].number = i /\ d[i] = tab[s].core
  <2> DEFINE s == CHOOSE u \in Written(i) : TRUE
  <2>1. s \in Written(i)
    BY <1>2
  <2>2. d[i] = tab[s].core
    BY <1>1, <1>2
  <2> HIDE DEF s, d
  <2> QED
    BY <2>1, <2>2 DEF IsLoaded
<1> HIDE DEF d, Written
<1>3. \A i \in Ino : ~ LoadedIn(tab, i) => d[i] = dinode[i]
  BY <1>1, <1>2 DEF LoadedIn
<1>4. \A u \in Slot : tab[u].count # 0 =>
                d[tab[u].number] \in {dinode[tab[u].number], tab[u].core}
  BY <1>0, <1>1, <1>2 DEF Sound
<1>5. Lives(tab, d, {}) /\ LiveIn(tab, d) = LiveIn(tab, dinode)
  BY <1>3, <1>4, LivesWrite
<1> QED
  BY <1>5 DEF d

-----------------------------------------------------------------------------
(* The descriptors and the current directory.                              *)

\* A file that a descriptor has open, or the current directory, is in slot s.
UsedSlot(s) ==
    \/ s = cdir
    \/ \E fd \in FD : ofile[fd] # NoFile /\ file[ofile[fd]].inode = s

\* What is in use is in core.
UsedFact ==
    IInv /\ stage # "dead" =>
        /\ \A s \in Slot : UsedSlot(s) => tab[s].count # 0
        /\ \A i \in Handles!InUse :
            i # NoEntry => \E s \in Slot : UsedSlot(s) /\ tab[s].number = i
        /\ cdir \in Slot
        /\ \A fd \in FD : ofile[fd] # NoFile => file[ofile[fd]].inode \in Slot

LEMMA UsedIsLoaded == UsedFact
<1> SUFFICES ASSUME IInv, stage # "dead"
             PROVE  /\ \A s \in Slot : UsedSlot(s) => tab[s].count # 0
                    /\ \A i \in Handles!InUse :
                        i # NoEntry => \E s \in Slot : UsedSlot(s) /\ tab[s].number = i
                    /\ cdir \in Slot
                    /\ \A fd \in FD : ofile[fd] # NoFile => file[ofile[fd]].inode \in Slot
  BY DEF UsedFact
<1>1. TypeOK /\ FileCountIsFds /\ cdir \in Slot /\ Held(tab, HeldSlot, call.mate, HeldLock)
  BY DEF IInv, TypeOK
<1>2. ASSUME NEW fd \in FD, ofile[fd] # NoFile
      PROVE  file[ofile[fd]].inode \in Slot /\ Base(file[ofile[fd]].inode) # 0
  <2>1. file[ofile[fd]].inode \in Slot /\ ofile[fd] \in FilesOf(file[ofile[fd]].inode)
    BY <1>1, <1>2, OpenFileOf
  <2> QED
    BY <1>1, <2>1, BaseCounts
<1>3. \A s \in Slot : UsedSlot(s) => tab[s].count # 0
  <2> SUFFICES ASSUME NEW s \in Slot, UsedSlot(s) PROVE tab[s].count # 0
    OBVIOUS
  <2>1. Base(s) # 0
    BY <1>1, <1>2, BaseCounts DEF UsedSlot
  <2> QED
    BY <1>1, <2>1, HeldCounts
<1>4. ASSUME NEW i \in Handles!InUse, i # NoEntry
      PROVE  \E s \in Slot : UsedSlot(s) /\ tab[s].number = i
  BY <1>1, <1>2, <1>4 DEF Handles!InUse, Handle, UsedSlot
<1> QED
  BY <1>1, <1>2, <1>3, <1>4

\* The same of the next state.
LEMMA UsedNext == UsedFact'
BY UsedIsLoaded, PTL

LiveFact == Sound(tab) => Live = LiveIn(tab, dinode)

LEMMA LiveNow == LiveFact
BY LiveIsLiveIn DEF LiveFact

LEMMA LiveNext == LiveFact'
BY LiveNow, PTL

\* The live inodes before and after a step.
LEMMA LiveBoth ==
    ASSUME IInv, IInv'
    PROVE  /\ Sound(tab) /\ Sound(tab')
           /\ Live = LiveIn(tab, dinode) /\ Live' = LiveIn(tab', dinode')
<1>1. Sound(tab) /\ Sound(tab')
  BY DEF IInv, Sound
<1>2. Live = LiveIn(tab, dinode)
  BY <1>1, LiveNow DEF LiveFact
<1>3. Live' = LiveIn(tab', dinode')
  <2>1. Sound(tab)' => Live' = LiveIn(tab, dinode)'
    BY LiveNext DEF LiveFact
  <2>2. Sound(tab)' <=> Sound(tab')
    BY DEF Sound
  <2>3. LiveIn(tab, dinode)' = LiveIn(tab', dinode')
    BY DEF LiveIn, LoadedIn
  <2> QED
    BY <1>1, <2>1, <2>2, <2>3
<1> QED
  BY <1>1, <1>2, <1>3

\* What is in use before and after a step that gives up none of it stays.
LEMMA UseStays ==
    ASSUME HInv, IInv', stage # "dead", stage' # "dead", NEW X, Lives(tab', dinode', X),
           \A s \in Slot : UsedSlot(s) => UsedSlot(s)'
    PROVE  /\ DiskFree(tab, dinode)'
           /\ Live' \subseteq Live \cup X
           /\ Handles!InUseStays
           /\ \A s \in Slot : UsedSlot(s) => tab'[s].number = tab[s].number
<1>1. /\ Sound(tab) /\ Sound(tab')
      /\ Live = LiveIn(tab, dinode) /\ Live' = LiveIn(tab', dinode')
  BY LiveBoth DEF HInv
<1>2. DiskFree(tab, dinode)'
  BY DEF Lives, DiskFree
<1>3. Live' \subseteq Live \cup X
  BY <1>1 DEF Lives
<1>4. /\ \A s \in Slot : UsedSlot(s) => tab[s].count # 0
      /\ \A i \in Handles!InUse :
            i # NoEntry => \E s \in Slot : UsedSlot(s) /\ tab[s].number = i
  BY UsedIsLoaded DEF UsedFact, HInv
<1>5. \A s \in Slot : UsedSlot(s)' => tab'[s].count # 0
  BY UsedNext DEF UsedFact
<1>6. \A s \in Slot : UsedSlot(s) =>
            /\ tab[s].count # 0 /\ tab'[s].count # 0 /\ tab'[s].number = tab[s].number
            /\ tab[s].core.type # "free" => tab'[s].core.type # "free"
  BY <1>4, <1>5 DEF Lives
<1>7. ASSUME NEW i \in Live, i \in Handles!InUse PROVE i \in Live'
  <2>1. i # NoEntry
    BY InoAssumption DEF Live
  <2>2. PICK s \in Slot : UsedSlot(s) /\ tab[s].number = i
    BY <1>4, <1>7, <2>1
  <2>3. tab[s].core.type # "free"
    BY <1>1, <1>6, <2>2, LiveByCore
  <2>4. tab'[s].core.type # "free" /\ tab'[s].number = i /\ tab'[s].count # 0
    BY <1>6, <2>2, <2>3
  <2> QED
    BY <1>1, <2>4, LiveByCore
<1>8. Handles!InUseStays
  BY <1>7 DEF Handles!InUseStays
<1> QED
  BY <1>2, <1>3, <1>6, <1>8

\* The tables change, the descriptors and the current directory do not.
LEMMA UseSame ==
    ASSUME HInv, IInv', stage # "dead", stage' # "dead", NEW X, Lives(tab', dinode', X),
           UNCHANGED <<files, cdir>>
    PROVE  /\ DiskFree(tab, dinode)'
           /\ Live' \subseteq Live \cup X
           /\ Handles!InUseStays
           /\ Handle' = Handle /\ tab'[cdir'].number = tab[cdir].number
<1>1. \A s \in Slot : UsedSlot(s) => UsedSlot(s)'
  BY DEF UsedSlot, files
<1>2. /\ DiskFree(tab, dinode)'
      /\ Live' \subseteq Live \cup X
      /\ Handles!InUseStays
      /\ \A s \in Slot : UsedSlot(s) => tab'[s].number = tab[s].number
  BY <1>1, UseStays
<1>3. cdir \in Slot /\ \A fd \in FD : ofile[fd] # NoFile => file[ofile[fd]].inode \in Slot
  BY UsedIsLoaded DEF UsedFact, HInv
<1>4. tab'[cdir'].number = tab[cdir].number
  BY <1>2, <1>3 DEF UsedSlot
<1>5. ofile' = ofile /\ file' = file
  BY DEF files
<1>6. \A fd \in FD : ofile[fd] # NoFile =>
            tab'[file[ofile[fd]].inode].number = tab[file[ofile[fd]].inode].number
  BY <1>2, <1>3 DEF UsedSlot
<1>7. Handle' = Handle
  BY <1>5, <1>6 DEF Handle
<1> QED
  BY <1>2, <1>4, <1>7

\* Then inodes that nothing uses may be gone, and nothing else has changed.
LEMMA Removing ==
    ASSUME HInv, IInv', stage # "dead", stage' # "dead", Lives(tab', dinode', {}),
           UNCHANGED <<files, cdir>>
    PROVE  DiskFree(tab, dinode)' /\ Handles!Next
<1> DEFINE X == {}
<1>1. Lives(tab', dinode', X)
  OBVIOUS
<1> HIDE DEF X
<1>2. /\ DiskFree(tab, dinode)'
      /\ Live' \subseteq Live \cup X
      /\ Handles!InUseStays
      /\ Handle' = Handle /\ tab'[cdir'].number = tab[cdir].number
  BY <1>1, UseSame
<1>3. Live' \subseteq Live
  BY <1>2 DEF X
<1>4. Handles!Remove
  BY <1>2, <1>3 DEF Handles!Remove
<1> QED
  BY <1>2, <1>4 DEF Handles!Next

\* Or one inode has come to life.
LEMMA Making ==
    ASSUME HInv, IInv', stage # "dead", stage' # "dead", NEW i \in Ino \ Live,
           Lives(tab', dinode', {i}), i \in LiveIn(tab', dinode'),
           UNCHANGED <<files, cdir>>
    PROVE  DiskFree(tab, dinode)' /\ Handles!Next
<1>1. /\ DiskFree(tab, dinode)'
      /\ Live' \subseteq Live \cup {i}
      /\ Handles!InUseStays
      /\ Handle' = Handle /\ tab'[cdir'].number = tab[cdir].number
  BY UseSame
<1>2. i \in Live'
  BY LiveBoth DEF HInv
<1>3. Handles!Make
  BY <1>1, <1>2 DEF Handles!Make
<1> QED
  BY <1>1, <1>3 DEF Handles!Next

\* The last inode the call holds is given back.
LEMMA PutRemoves ==
    ASSUME HInv, IInv', stage # "dead", stage' # "dead", UNCHANGED <<files, cdir>>,
           NEW t, Sound(t), NEW d \in Disk, NEW e, NEW s \in Slot, t[s].count # 0,
           Lives(t, d, {}), PutIs(t, d, e, s)
    PROVE  DiskFree(tab, dinode)' /\ Handles!Next
<1> DEFINE X == {}
<1>1. Lives(t, d, X)
  OBVIOUS
<1> HIDE DEF X
<1>2. Lives(IPut(t, s), IPutDisk(t, d, s), X)
  BY <1>1, LivesPut
<1>3. tab' = IPut(t, s) /\ dinode' = IPutDisk(t, d, s)
  BY DEF PutIs, TableIs
<1>4. Lives(tab', dinode', {})
  BY <1>2, <1>3 DEF X
<1> QED
  BY <1>4, Removing

\* The last two.
LEMMA PutBothRemoves ==
    ASSUME HInv, IInv', stage # "dead", stage' # "dead", UNCHANGED <<files, cdir>>,
           NEW t, NEW d \in Disk, NEW e \in Entries, NEW s \in Slot, NEW u \in Slot, NEW L,
           Held(t, s, u, L), Lives(t, d, {}), PutBothIs(t, d, e, s, u)
    PROVE  DiskFree(tab, dinode)' /\ Handles!Next
<1> DEFINE p  == IPut(t, s)
           d2 == IPutDisk(t, d, s)
           e2 == IPutEntry(t, e, s)
           X  == {}
<1>1. TypeOK /\ Sound(t) /\ t[s].count # 0
  <2>1. TypeOK /\ Sound(t)
    BY DEF HInv, IInv, Held
  <2> QED
    BY <2>1, HeldCounts
<1>2. Held(p, NoSlot, u, L \ {s})
  BY <1>1, HeldPut
<1>3. Sound(p) /\ p[u].count # 0
  <2> HIDE DEF p
  <2>1. Sound(p)
    BY <1>2 DEF Held
  <2> QED
    BY <1>1, <1>2, <2>1, HeldCounts
<1>4. d2 \in Disk /\ PutIs(p, d2, e2, u)
  BY <1>1, PutTypes DEF PutBothIs
<1>5. Lives(t, d, X)
  OBVIOUS
<1> HIDE DEF X
<1>6. Lives(p, d2, X)
  BY <1>1, <1>5, LivesPut
<1>7. Lives(p, d2, {})
  BY <1>6 DEF X
<1> HIDE DEF p, d2, e2
<1> QED
  BY <1>3, <1>4, <1>7, PutRemoves

\* NameI's `out`.
LEMMA FailedRemoves ==
    ASSUME HInv, IInv', stage # "dead", dinode \in Disk, entry \in Entries, cur \in Slot,
           call.mate \in Slot \cup {NoSlot},
           NEW t, Held(t, cur, call.mate, {cur}), Lives(t, dinode, {}), FailedWith(t)
    PROVE  DiskFree(tab, dinode)' /\ Handles!Next
<1>1. UNCHANGED <<files, cdir>> /\ stage' # "dead"
  BY DEF FailedWith, Done
<1>2. TypeOK /\ Sound(t) /\ t[cur].count # 0
  <2>1. TypeOK /\ Sound(t)
    BY DEF HInv, IInv, Held
  <2> QED
    BY <2>1, HeldCounts
<1>3. CASE call.mate = NoSlot
  <2>1. PutIs(t, dinode, entry, cur)
    BY <1>3 DEF FailedWith
  <2> QED
    BY <1>1, <1>2, <2>1, PutRemoves
<1>4. CASE call.mate # NoSlot
  <2>1. PutBothIs(t, dinode, entry, cur, call.mate) /\ call.mate \in Slot
    BY <1>4 DEF FailedWith
  <2> QED
    BY <1>1, <2>1, PutBothRemoves
<1> QED
  BY <1>3, <1>4

-----------------------------------------------------------------------------
(* The operations of a call on the table it has made so far.               *)

LEMMA LivesUnlock ==
    ASSUME NEW t, Sound(t), NEW d, NEW X, Lives(t, d, X), NEW s \in Slot
    PROVE  Lives(Prele(t, s), d, X)
<1> DEFINE q == Prele(t, s)
<1>1. /\ Sound(q)
      /\ q[s].count = t[s].count /\ q[s].number = t[s].number /\ q[s].core = t[s].core
      /\ \A u \in Slot : u # s => q[u] = t[u]
  BY Unlocking
<1> HIDE DEF q
<1>2. Lives(q, d, X)
  BY <1>1, LivesSlot
<1> QED
  BY <1>2 DEF q

LEMMA LivesChange ==
    ASSUME NEW t, Sound(t), NEW d, NEW X, Lives(t, d, X), NEW s \in Slot, t[s].count # 0,
           NEW c \in Inode, c.type = t[s].core.type
    PROVE  Lives(Changed(t, s, c), d, X)
<1> DEFINE q == Changed(t, s, c)
<1>1. /\ Sound(q)
      /\ q[s].count = t[s].count /\ q[s].number = t[s].number /\ q[s].core = c
      /\ \A u \in Slot : u # s => q[u] = t[u]
  BY Changing
<1> HIDE DEF q
<1>2. Lives(q, d, X)
  BY <1>1, LivesSlot
<1> QED
  BY <1>2 DEF q

\* The new inode that comes into a slot.
LEMMA LivesNew ==
    ASSUME NEW t, Sound(t), NEW d, NEW X, Lives(t, d, X), NEW s \in Slot, t[s].count # 0,
           NEW c \in Inode, c.type # "free", t[s].number \in X
    PROVE  Lives(Changed(t, s, c), d, X)
<1> DEFINE q == Changed(t, s, c)
<1>1. /\ Sound(q)
      /\ q[s].count = t[s].count /\ q[s].number = t[s].number /\ q[s].core = c
      /\ \A u \in Slot : u # s => q[u] = t[u]
  BY Changing
<1> HIDE DEF q
<1>2. Lives(q, d, X)
  BY <1>1, LivesSlot
<1> QED
  BY <1>2 DEF q

LEMMA LivesPermitted ==
    ASSUME TypeOK, NEW t, NEW a, NEW b, NEW L, Held(t, a, b, L), NEW d, NEW X, Lives(t, d, X),
           NEW s \in Slot
    PROVE  Lives(WithPerm(t, s), d, X)
<1> DEFINE q == WithPerm(t, s)
<1>1. /\ Held(q, a, b, L)
      /\ \A u \in Slot : q[u].number = t[u].number /\ q[u].count = t[u].count
      /\ \A u \in Slot : q[u].core.type = t[u].core.type
  BY HeldPermitted
<1> HIDE DEF q
<1>2. Sound(t) /\ Sound(q)
  BY <1>1 DEF Held
<1>3. Lives(q, d, X)
  BY <1>1, <1>2, LivesSlot
<1> QED
  BY <1>3 DEF q

-----------------------------------------------------------------------------
(* The steps that end with no descriptor more or less.                     *)

LEMMA EnterRemoves == ASSUME HInv, IInv', Enter PROVE DiskFree(tab, dinode)' /\ Handles!Next
<1>0. /\ TypeOK /\ dinode \in Disk /\ entry \in Entries
      /\ cur \in Slot /\ cur \in {Root, cdir} /\ call.mate \in Slot \cup {NoSlot}
      /\ Held(tab, NoSlot, call.mate, {}) /\ Gets(tab, Here.number, cur) /\ stage # "dead"
  <2>1. TypeOK /\ cur \in {Root, cdir} /\ Held(tab, NoSlot, call.mate, {})
        /\ Gets(tab, Here.number, cur) /\ stage # "dead"
    BY DEF HInv, IInv, CallOK, HeldSlot, HeldLock, Enter
  <2> QED
    BY <2>1, Sizes DEF TypeOK, Call, Disk, Entries
<1>1. tab[cur].count # 0 /\ Here.number \in Ino
  <2>1. tab[cur].count # 0
    BY <1>0, HeldCounts, BaseCounts
  <2> QED
    BY <1>0, <2>1 DEF Held, Sound, Here
<1> DEFINE t == Got(tab, dinode, Here.number, cur)
<1>2. Held(t, cur, call.mate, {cur}) /\ Lives(t, dinode, {})
  BY <1>0, <1>1, HeldTake, LivesGet
<1>3. CASE call.left = 0 /\ (Creating \/ Deleting)
  <2>1. FailedWith(t)
    BY <1>3 DEF Enter
  <2> HIDE DEF t
  <2> QED
    BY <1>0, <1>2, <2>1, FailedRemoves
<1>4. CASE ~ (call.left = 0 /\ (Creating \/ Deleting))
  <2>1. /\ tab' = t /\ stage' = "search" /\ UNCHANGED <<dinode, files, cdir>>
    BY <1>4 DEF Enter
  <2> HIDE DEF t
  <2> QED
    BY <1>0, <1>2, <2>1, Removing
<1> QED
  BY <1>3, <1>4

LEMMA SearchFailRemoves ==
    ASSUME HInv, IInv', SearchRefused \/ SearchMissed
    PROVE  DiskFree(tab, dinode)' /\ Handles!Next
<1>1. stage = "search" /\ FailedWith(tab)
  BY DEF SearchRefused, SearchMissed, Searching, Failed
<1>2. IInv
  BY DEF HInv
<1> QED
  BY <1>1, <1>2, Holding, StartLives, FailedRemoves

LEMMA AbsentRemoves ==
    ASSUME HInv, IInv', NEW n \in Name, SearchAbsent(n)
    PROVE  DiskFree(tab, dinode)' /\ Handles!Next
<1>1. /\ stage = "search" /\ stage' = "create" /\ UNCHANGED <<dinode, files, cdir>>
      /\ tab' \in {tab, Changed(tab, cur, Here.core)}
  BY DEF SearchAbsent, Searching
<1>2. Sound(tab) /\ cur \in Slot /\ tab[cur].count # 0 /\ Here.core \in Inode
  BY <1>1, Holding DEF HInv, Held
<1>3. Lives(tab', dinode', {})
  <2>1. CASE tab' = tab
    BY <1>1, <2>1, StartLives
  <2>2. CASE tab' = Changed(tab, cur, Here.core)
    BY <1>1, <1>2, <2>2, StartLives, LivesChange DEF Here
  <2> QED
    BY <1>1, <2>1, <2>2
<1> QED
  BY <1>1, <1>3, Removing

LEMMA VictimRemoves ==
    ASSUME HInv, IInv', NEW n \in Name, SearchVictim(n)
    PROVE  DiskFree(tab, dinode)' /\ Handles!Next
<1>1. /\ stage = "search" /\ stage' = "erase" /\ UNCHANGED <<dinode, files, cdir>>
      /\ tab' = Prele(tab, cur)
  BY DEF SearchVictim, Searching
<1>2. Sound(tab) /\ cur \in Slot
  BY <1>1, Holding DEF HInv, Held
<1> QED
  BY <1>1, <1>2, StartLives, LivesUnlock, Removing

LEMMA MatchesRemoves ==
    ASSUME HInv, IInv', NEW n \in Name, SearchMatches(n)
    PROVE  DiskFree(tab, dinode)' /\ Handles!Next
<1>1. /\ stage = "search" /\ stage' = "get" /\ UNCHANGED <<files, cdir>>
      /\ PutIs(tab, dinode, entry, cur)
  BY DEF SearchMatches, Searching
<1>2. Sound(tab) /\ cur \in Slot /\ tab[cur].count # 0 /\ dinode \in Disk
  BY <1>1, Holding DEF HInv, Held
<1> QED
  BY <1>1, <1>2, StartLives, PutRemoves

LEMMA GetRemoves == ASSUME HInv, IInv', Get PROVE DiskFree(tab, dinode)' /\ Handles!Next
<1>1. /\ stage = "get" /\ stage' = "search" /\ UNCHANGED <<dinode, files, cdir>>
      /\ \E s \in Slot : Gets(tab, call.target, s) /\ tab' = Got(tab, dinode, call.target, s)
  BY DEF Get
<1> DEFINE i == call.target
<1>2. PICK s \in Slot : Gets(tab, i, s) /\ tab' = Got(tab, dinode, i, s)
  BY <1>1
<1>3. i \in Ino
  BY <1>1 DEF HInv, IInv, CallOK
<1> HIDE DEF i
<1> QED
  BY <1>1, <1>2, <1>3, LivesGet, Removing

-----------------------------------------------------------------------------
(* The steps that open a file.                                             *)

LEMMA Opening ==
    ASSUME HInv, IInv', stage # "dead", stage' # "dead", FreeFD # {}, FreeFile # {},
           NEW t, Sound(t), NEW d, NEW e, NEW s \in Slot, t[s].count # 0,
           NEW X \in SUBSET {t[s].number}, Lives(t, d, X),
           tab[s].count # 0 \/ t[s].core.type # "free", Opened(t, d, e, s)
    PROVE  DiskFree(tab, dinode)' /\ Handles!Next
<1> DEFINE fd == Lowest(FreeFD)
           f  == Lowest(FreeFile)
           q  == Prele(t, s)
           i  == t[s].number
<1>0. TypeOK /\ FileCountIsFds /\ i \in Ino
  BY DEF HInv, IInv, Sound
<1>1. fd \in FD /\ ofile[fd] = NoFile /\ f \in File /\ file[f].count = 0
  <2>1. FreeFD \in SUBSET Nat /\ FreeFile \in SUBSET Nat
    BY Sizes DEF FreeFD, FreeFile
  <2>2. fd \in FreeFD /\ f \in FreeFile
    BY <2>1, LowestIn
  <2> QED
    BY <2>2 DEF FreeFD, FreeFile
<1>2. /\ tab' = q /\ dinode' = d /\ cdir' = cdir
      /\ ofile' = [ofile EXCEPT ![fd] = f]
      /\ file' = [file EXCEPT ![f] = [count |-> 1, inode |-> s]]
  BY DEF Opened, TableIs
<1>3. /\ Sound(q)
      /\ q[s].count = t[s].count /\ q[s].number = i /\ q[s].core = t[s].core
      /\ \A u \in Slot : u # s => q[u] = t[u]
  BY Unlocking
<1>4. Lives(q, d, X)
  BY LivesUnlock
<1> HIDE DEF fd, f, q, i
<1>5. /\ ofile'[fd] = f /\ file'[f].inode = s /\ f # NoFile
      /\ \A g \in FD : g # fd => ofile'[g] = ofile[g]
      /\ \A x \in File : x # f => file'[x] = file[x]
  BY <1>0, <1>1, <1>2, Sizes DEF TypeOK
<1>6. \A g \in FD : ofile[g] # NoFile =>
            /\ g # fd /\ ofile'[g] = ofile[g] /\ ofile[g] \in File
            /\ file'[ofile[g]].inode = file[ofile[g]].inode
  <2> SUFFICES ASSUME NEW g \in FD, ofile[g] # NoFile
               PROVE  /\ g # fd /\ ofile'[g] = ofile[g] /\ ofile[g] \in File
                      /\ file'[ofile[g]].inode = file[ofile[g]].inode
    OBVIOUS
  <2>1. ofile[g] \in File /\ file[ofile[g]].count # 0
    BY <1>0, OpenFileOf
  <2> QED
    BY <1>1, <1>5, <2>1
<1>7. \A u \in Slot : UsedSlot(u) => UsedSlot(u)'
  BY <1>2, <1>6 DEF UsedSlot
<1>8. /\ DiskFree(tab, dinode)'
      /\ Live' \subseteq Live \cup X
      /\ Handles!InUseStays
      /\ \A u \in Slot : UsedSlot(u) => tab'[u].number = tab[u].number
  BY <1>2, <1>4, <1>7, UseStays
<1>9. cdir \in Slot /\ \A g \in FD : ofile[g] # NoFile => file[ofile[g]].inode \in Slot
  BY UsedIsLoaded DEF UsedFact, HInv
<1>10. tab'[cdir'].number = tab[cdir].number
  BY <1>2, <1>8, <1>9 DEF UsedSlot
<1>11. Handle' = [Handle EXCEPT ![fd] = i] /\ Handle[fd] = NoEntry
  <2>1. Handle[fd] = NoEntry
    BY <1>1 DEF Handle
  <2>2. ASSUME NEW g \in FD, g # fd, ofile[g] # NoFile
        PROVE  /\ ofile'[g] = ofile[g]
               /\ tab'[file'[ofile'[g]].inode].number = tab[file[ofile[g]].inode].number
    BY <1>6, <1>8, <1>9, <2>2 DEF UsedSlot
  <2>3. \A g \in FD : (IF ofile'[g] = NoFile THEN NoEntry ELSE tab'[file'[ofile'[g]].inode].number)
                        = IF g = fd THEN i ELSE Handle[g]
    BY <1>2, <1>3, <1>5, <2>2 DEF Handle
  <2>4. Handle' = [g \in FD |-> IF g = fd THEN i ELSE Handle[g]]
    BY <2>3 DEF Handle
  <2>5. Handle = [g \in FD |-> Handle[g]]
    BY DEF Handle
  <2> QED
    BY <1>1, <2>1, <2>4, <2>5
<1>12. i \in Live => i \in Live'
  <2> SUFFICES ASSUME i \in Live PROVE i \in Live'
    OBVIOUS
  <2>1. /\ Sound(tab) /\ Live = LiveIn(tab, dinode) /\ Live' = LiveIn(tab', dinode')
    BY LiveBoth DEF HInv
  <2>2. q[s].core.type # "free"
    <3>1. CASE tab[s].count # 0
      <4>1. tab[s].number = i /\ (tab[s].core.type # "free" => q[s].core.type # "free")
        BY <1>3, <1>4, <3>1 DEF Lives
      <4> QED
        BY <2>1, <3>1, <4>1, LiveByCore
    <3> QED
      BY <1>3, <3>1
  <2>3. q[s].number \in LiveIn(q, d)
    BY <1>3, <2>2, LiveByCore
  <2> QED
    BY <1>2, <1>3, <2>1, <2>3
<1>13. Live' \subseteq Live \cup {i}
  BY <1>8 DEF i
<1>14. Handles!OpenFile
  BY <1>0, <1>1, <1>8, <1>10, <1>11, <1>12, <1>13 DEF Handles!OpenFile
<1> QED
  BY <1>8, <1>14 DEF Handles!Next

\* Open1 of what is there.
LEMMA OpeningFound ==
    ASSUME HInv, IInv', stage # "dead", stage' # "dead", dinode \in Disk,
           NEW t, NEW e, NEW s \in Slot, Sound(t), tab[s].count # 0, t[s].count # 0,
           Lives(t, dinode, {}), Opened(t, dinode, e, s)
    PROVE  DiskFree(tab, dinode)' /\ Handles!Next
<1>1. CASE FreeFD = {} \/ FreeFile = {}
  <2> DEFINE p == Prele(t, s)
  <2>1. PutIs(p, dinode, e, s) /\ UNCHANGED <<files, cdir>>
    BY <1>1 DEF Opened
  <2>2. Sound(p) /\ p[s].count # 0 /\ Lives(p, dinode, {})
    BY Unlocking, LivesUnlock
  <2> HIDE DEF p
  <2> QED
    BY <2>1, <2>2, PutRemoves
<1>2. CASE ~ (FreeFD = {} \/ FreeFile = {})
  <2> DEFINE X == {}
  <2>1. Lives(t, dinode, X) /\ X \in SUBSET {t[s].number}
    OBVIOUS
  <2> HIDE DEF X
  <2> QED
    BY <1>2, <2>1, Opening
<1> QED
  BY <1>1, <1>2

LEMMA HereFacts ==
    ASSUME HInv, stage \in {"search", "create"}
    PROVE  /\ stage # "dead" /\ TypeOK /\ dinode \in Disk /\ entry \in Entries
           /\ cur \in Slot /\ call.mate \in Slot \cup {NoSlot}
           /\ Held(tab, cur, call.mate, {cur}) /\ Sound(tab)
           /\ tab[cur].count # 0 /\ tab[cur].core \in Inode
           /\ Lives(tab, dinode, {})
BY Holding, StartLives DEF HInv, Here, Held

LEMMA OpenImplements ==
    ASSUME HInv, IInv', Open \/ OpenToRead PROVE DiskFree(tab, dinode)' /\ Handles!Next
<1>1. stage = "search" /\ stage' # "dead"
  BY DEF Open, OpenToRead, Found, Done
<1>2. CASE Opened(tab, dinode, entry, cur)
  BY <1>1, <1>2, HereFacts, OpeningFound
<1>3. CASE ~ Opened(tab, dinode, entry, cur)
  <2>1. PutIs(tab, dinode, entry, cur) /\ UNCHANGED <<files, cdir>>
    BY <1>3 DEF Open, OpenToRead
  <2> QED
    BY <1>1, <2>1, HereFacts, PutRemoves
<1> QED
  BY <1>2, <1>3

\* Creat's change of permissions of a slot it has given back.
LEMMA PermittedRemoves ==
    ASSUME HInv, IInv', stage # "dead", stage' # "dead", UNCHANGED <<files, cdir>>,
           dinode \in Disk, cur \in Slot,
           NEW t, NEW L, Held(t, cur, NoSlot, L), Lives(t, dinode, {}),
           tab' = WithPerm(IPut(t, cur), cur), dinode' = IPutDisk(t, dinode, cur)
    PROVE  DiskFree(tab, dinode)' /\ Handles!Next
<1> DEFINE p == IPut(t, cur)
           d == IPutDisk(t, dinode, cur)
           q == WithPerm(p, cur)
<1>0. TypeOK /\ Sound(t)
  BY DEF HInv, IInv, Held
<1>1. t[cur].count # 0
  BY <1>0, HeldCounts
<1>2. Held(p, NoSlot, NoSlot, L \ {cur})
  BY <1>0, HeldPut
<1>3. Lives(p, d, {})
  BY <1>0, <1>1, LivesPut
<1> HIDE DEF p, d
<1>4. Lives(q, d, {})
  BY <1>0, <1>2, <1>3, LivesPermitted
<1>5. tab' = q /\ dinode' = d
  BY DEF p, d
<1> HIDE DEF q
<1> QED
  BY <1>4, <1>5, Removing

LEMMA CreatFoundImplements ==
    ASSUME HInv, IInv', CreatFound PROVE DiskFree(tab, dinode)' /\ Handles!Next
<1> DEFINE c == [Here.core EXCEPT !.nlink = 1]
           truncated == Changed(tab, cur, c)
           unlocked  == Prele(truncated, cur)
<1>1. stage = "search" /\ call.mate = NoSlot /\ stage' # "dead"
  BY DEF CreatFound, Found, Done
<1>2. /\ stage # "dead" /\ TypeOK /\ dinode \in Disk
      /\ cur \in Slot /\ Held(tab, cur, NoSlot, {cur}) /\ Sound(tab)
      /\ tab[cur].count # 0 /\ tab[cur].core \in Inode
      /\ Lives(tab, dinode, {})
  BY <1>1, HereFacts
<1>3. CASE Here.core.type = "dir"
  <2>1. /\ tab' = WithPerm(IPut(tab, cur), cur) /\ dinode' = IPutDisk(tab, dinode, cur)
        /\ UNCHANGED <<files, cdir>>
    BY <1>3 DEF CreatFound, TableIs
  <2> QED
    BY <1>1, <1>2, <2>1, PermittedRemoves
<1>4. CASE Here.core.type # "dir"
  <2>1. /\ \/ /\ tab' = WithPerm(IPut(unlocked, cur), cur)
              /\ dinode' = IPutDisk(unlocked, dinode, cur)
              /\ UNCHANGED <<files, cdir>>
           \/ Opened(WithPerm(truncated, cur), dinode, entry, cur)
    BY <1>4 DEF CreatFound, TableIs
  <2>2. c \in Inode /\ c.type = tab[cur].core.type
    BY <1>2, CoreFields DEF Here
  <2> HIDE DEF c
  <2>3. Held(truncated, cur, NoSlot, {cur}) /\ Lives(truncated, dinode, {})
    BY <1>2, <2>2, HeldChange, LivesChange
  <2> HIDE DEF truncated
  <2>4. Sound(truncated)
    BY <2>3 DEF Held
  <2>5. CASE Opened(WithPerm(truncated, cur), dinode, entry, cur)
    <3> DEFINE q == WithPerm(truncated, cur)
    <3>1. Held(q, cur, NoSlot, {cur}) /\ Lives(q, dinode, {})
      BY <1>2, <2>3, HeldPermitted, LivesPermitted
    <3>2. Opened(q, dinode, entry, cur)
      BY <2>5
    <3> HIDE DEF q
    <3>3. Sound(q) /\ q[cur].count # 0
      <4>1. q[cur].count # 0
        BY <1>2, <3>1, HeldCounts
      <4> QED
        BY <3>1, <4>1 DEF Held
    <3> QED
      BY <1>1, <1>2, <3>1, <3>2, <3>3, OpeningFound
  <2>6. CASE /\ tab' = WithPerm(IPut(unlocked, cur), cur)
             /\ dinode' = IPutDisk(unlocked, dinode, cur)
             /\ UNCHANGED <<files, cdir>>
    <3>1. Held(unlocked, cur, NoSlot, {cur} \ {cur}) /\ Lives(unlocked, dinode, {})
      BY <1>2, <2>3, <2>4, HeldUnlock, LivesUnlock
    <3> HIDE DEF unlocked
    <3> QED
      BY <1>1, <1>2, <2>6, <3>1, PermittedRemoves
  <2> QED
    BY <2>1, <2>5, <2>6
<1> QED
  BY <1>3, <1>4

LEMMA FoundRemoves ==
    ASSUME HInv, IInv', LinkExists \/ MkNodFound \/ ChMod \/ Stat \/ LinkFirst
    PROVE  DiskFree(tab, dinode)' /\ Handles!Next
<1>1. /\ stage = "search" /\ stage' # "dead" /\ UNCHANGED <<files, cdir>>
  BY DEF LinkExists, MkNodFound, ChMod, Stat, LinkFirst, Found, Done
<1>2. /\ stage # "dead" /\ TypeOK /\ dinode \in Disk /\ entry \in Entries
      /\ cur \in Slot /\ call.mate \in Slot \cup {NoSlot}
      /\ Held(tab, cur, call.mate, {cur}) /\ Sound(tab)
      /\ tab[cur].count # 0 /\ tab[cur].core \in Inode
      /\ Lives(tab, dinode, {})
  BY <1>1, HereFacts
<1>3. CASE PutIs(tab, dinode, entry, cur)
  BY <1>1, <1>2, <1>3, PutRemoves
<1>4. CASE LinkExists
  <2>1. PutBothIs(tab, dinode, entry, cur, call.mate) /\ call.mate \in Slot
    BY <1>2, <1>4 DEF LinkExists
  <2> QED
    BY <1>1, <1>2, <2>1, PutBothRemoves
<1>5. CASE Stat
  <2> DEFINE d == IUpdate(tab, dinode, cur)
  <2>1. PutIs(tab, d, entry, cur)
    BY <1>5 DEF Stat
  <2>2. d \in Disk /\ Lives(tab, d, {})
    BY <1>2, PutTypes, LivesIUpdate
  <2> HIDE DEF d
  <2> QED
    BY <1>1, <1>2, <2>1, <2>2, PutRemoves
<1>6. CASE ChMod
  <2>1. PICK p \in {"none", "some"} :
            PutIs(Changed(tab, cur, [Here.core EXCEPT !.perm = p]), dinode, entry, cur)
    BY <1>6 DEF ChMod
  <2> DEFINE c == [Here.core EXCEPT !.perm = p]
             t == Changed(tab, cur, c)
  <2>2. c \in Inode /\ c.type = tab[cur].core.type
    BY <1>2, CoreFields DEF Here, Inode
  <2>3. PutIs(t, dinode, entry, cur)
    BY <2>1
  <2> HIDE DEF c
  <2>4. Sound(t) /\ t[cur].count # 0 /\ Lives(t, dinode, {})
    BY <1>2, <2>2, Changing, LivesChange
  <2> HIDE DEF t
  <2> QED
    BY <1>1, <1>2, <2>3, <2>4, PutRemoves
<1>7. CASE TableIs(Prele(tab, cur), dinode, entry)
  BY <1>1, <1>2, <1>7, LivesUnlock, Removing DEF TableIs
<1> QED
  BY <1>3, <1>4, <1>5, <1>6, <1>7 DEF MkNodFound, LinkFirst

LEMMA LinkNewRemoves == ASSUME HInv, IInv', LinkNew PROVE DiskFree(tab, dinode)' /\ Handles!Next
<1> DEFINE m == call.mate
           t == ChangedByWrite(tab, cur)
           e == WriteDir(tab[m].number)
           p == IPut(t, cur)
           d == IPutDisk(t, dinode, cur)
           e2 == IPutEntry(t, e, cur)
           q == LinkedTab(p, m)
<1>1. /\ stage = "create" /\ m # NoSlot /\ stage' # "dead" /\ UNCHANGED <<files, cdir>>
      /\ PutIs(q, d, e2, m)
  BY DEF LinkNew, Done
<1>2. /\ stage # "dead" /\ TypeOK /\ dinode \in Disk /\ entry \in Entries
      /\ cur \in Slot /\ m \in Slot /\ Held(tab, cur, m, {cur}) /\ Sound(tab)
      /\ tab[cur].count # 0 /\ tab[cur].core \in Inode
      /\ Lives(tab, dinode, {})
  BY <1>1, HereFacts
<1>3. tab[m].core.nlink < NLINK /\ tab[m].count # 0
  <2>1. tab[m].core.nlink < NLINK
    BY <1>1 DEF HInv, IInv, CallOK
  <2> QED
    BY <1>2, <2>1, HeldCounts
<1> HIDE DEF m
<1>4. Held(t, cur, m, {cur}) /\ t[m].core.nlink < NLINK /\ Lives(t, dinode, {}) /\ Sound(t)
  <2> DEFINE c == tab[cur].core
  <2>1. t = Changed(tab, cur, c)
    BY DEF ChangedByWrite
  <2>2. c \in Inode /\ c.type = tab[cur].core.type /\ c = tab[cur].core
    BY <1>2
  <2> HIDE DEF c, t
  <2>3. /\ Held(t, cur, m, {cur}) /\ t[cur].core = c
        /\ \A u \in Slot : u # cur => t[u] = tab[u]
        /\ Lives(t, dinode, {})
    BY <1>2, <2>1, <2>2, HeldChange, LivesChange
  <2> QED
    BY <1>2, <1>3, <2>2, <2>3 DEF Held
<1> HIDE DEF t, e
<1>5. t[cur].count # 0
  BY <1>2, <1>4, HeldCounts
<1>6. d \in Disk /\ Lives(p, d, {})
  BY <1>2, <1>4, <1>5, PutTypes, LivesPut
<1>7. Held(p, NoSlot, m, {cur} \ {cur}) /\ (p[m].count # 0 => p[m].core = t[m].core)
  BY <1>2, <1>4, HeldPut
<1> HIDE DEF p, d, e2
<1>8. Sound(p) /\ p[m].count # 0 /\ p[m].core \in Inode
  <2>1. Sound(p) /\ p[m].count # 0
    BY <1>2, <1>7, HeldCounts DEF Held
  <2> QED
    BY <1>2, <2>1, SlotFields
<1>9. Sound(q) /\ q[m].count # 0 /\ Lives(q, d, {})
  <2> DEFINE c == [p[m].core EXCEPT !.nlink = @ + 1]
  <2>1. c \in Inode /\ c.type = p[m].core.type
    BY <1>4, <1>7, <1>8, CoreFields DEF Inode
  <2>2. q = Changed(p, m, c)
    BY DEF LinkedTab
  <2> HIDE DEF c, q
  <2> QED
    BY <1>2, <1>6, <1>8, <2>1, <2>2, Changing, LivesChange
<1> HIDE DEF q
<1> QED
  BY <1>1, <1>2, <1>6, <1>9, PutRemoves

LEMMA UnlinkRemoves ==
    ASSUME HInv, IInv', NEW s \in Slot, Unlink(s)
    PROVE  DiskFree(tab, dinode)' /\ Handles!Next
<1> DEFINE i == call.target
           g == Got(tab, dinode, i, s)
           k == ChangedByWrite(g, cur)
           q == UnlinkedTab(k, s)
           e == WriteDir(NoEntry)
<1>1. /\ stage = "erase" /\ Gets(tab, i, s) /\ k[s].core.nlink >= 0
      /\ PutBothIs(q, dinode, e, cur, s)
      /\ stage' # "dead" /\ UNCHANGED <<files, cdir>>
  BY DEF Unlink, Done
<1>2. /\ TypeOK /\ cur \in Slot /\ Held(tab, cur, NoSlot, {}) /\ i \in Ino /\ IInv
  BY <1>1 DEF HInv, IInv, CallOK, HeldSlot, HeldLock
<1>3. dinode \in Disk /\ entry \in Entries
  BY <1>2 DEF TypeOK, Disk, Entries
<1>4. Held(tab, NoSlot, cur, {})
  BY <1>2, HeldSwap
<1> HIDE DEF i
<1>5. Held(g, s, cur, {s}) /\ Lives(g, dinode, {})
  BY <1>1, <1>2, <1>3, <1>4, HeldTake, LivesGet
<1> HIDE DEF g
<1>6. Held(k, s, cur, {s}) /\ Lives(k, dinode, {})
  <2> DEFINE c == g[cur].core
  <2>1. g[cur].count # 0 /\ Sound(g)
    BY <1>2, <1>5, HeldCounts DEF Held
  <2>2. c \in Inode /\ c.type = g[cur].core.type
    BY <1>2, <2>1, SlotFields
  <2>3. k = Changed(g, cur, c)
    BY DEF ChangedByWrite
  <2> HIDE DEF c, k
  <2> QED
    BY <1>2, <1>5, <2>1, <2>2, <2>3, HeldChange, LivesChange
<1> HIDE DEF k
<1>7. Held(q, s, cur, {s}) /\ Lives(q, dinode, {})
  <2> DEFINE c == [k[s].core EXCEPT !.nlink = @ - 1]
  <2>1. k[s].count # 0 /\ Sound(k)
    BY <1>2, <1>6, HeldCounts DEF Held
  <2>2. c \in Inode /\ c.type = k[s].core.type
    <3>1. k[s].core \in Inode
      BY <2>1, SlotFields
    <3> QED
      BY <1>1, <3>1, CoreFields DEF Inode
  <2>3. q = Changed(k, s, c)
    BY DEF UnlinkedTab
  <2> HIDE DEF c, q
  <2> QED
    BY <1>2, <1>6, <2>1, <2>2, <2>3, HeldChange, LivesChange
<1> HIDE DEF q
<1>8. Held(q, cur, s, {s})
  BY <1>2, <1>7, HeldSwap
<1>9. e \in Entries /\ stage # "dead"
  BY <1>1, <1>3, Kinds DEF WriteDir, Entries
<1> HIDE DEF e
<1> QED
  BY <1>1, <1>2, <1>3, <1>7, <1>8, <1>9, PutBothRemoves

\* Reads and writes, and what is written to the disk between calls.
LEMMA WriteRemoves ==
    ASSUME HInv, IInv', RdwrLocked \/ Update \/ Exit
    PROVE  DiskFree(tab, dinode)' /\ Handles!Next
<1>1. stage \in {"idle", "lock"} /\ stage' # "dead" /\ UNCHANGED <<files, cdir>>
  BY DEF RdwrLocked, Update, Exit, Done
<1>2. CASE Update \/ Exit
  <2>1. tab' = tab /\ dinode' = UpdateInodeTable(tab, dinode)
    BY <1>2 DEF Update, Exit
  <2> QED
    BY <1>1, <2>1, LivesUpdate, Removing
<1>3. CASE RdwrLocked
  <2>1. cur \in Slot /\ tab[cur].count # 0 /\ Sound(tab)
    BY <1>3 DEF HInv, IInv, CallOK, RdwrLocked
  <2>2. dinode' = dinode /\ tab' \in {tab, Changed(tab, cur, tab[cur].core)}
    BY <1>3 DEF RdwrLocked, ChangedByWrite
  <2>3. tab[cur].core \in Inode
    BY <2>1, SlotFields
  <2>4. Lives(tab', dinode', {})
    BY <2>1, <2>2, <2>3, StartLives, LivesChange
  <2> QED
    BY <1>1, <2>4, Removing
<1> QED
  BY <1>2, <1>3

LEMMA FStatRemoves ==
    ASSUME HInv, IInv', NEW fd \in FD, FStat(fd) PROVE DiskFree(tab, dinode)' /\ Handles!Next
<1> DEFINE s == file[ofile[fd]].inode
<1>1. /\ stage = "idle" /\ stage' # "dead" /\ ofile[fd] # NoFile /\ tab' = tab
      /\ dinode' = IUpdate(tab, dinode, s) /\ UNCHANGED <<files, cdir>>
  BY DEF FStat, FdCalled
<1>2. UsedSlot(s) /\ s \in Slot /\ tab[s].count # 0
  BY <1>1, UsedIsLoaded DEF UsedFact, HInv, UsedSlot
<1> HIDE DEF s
<1> QED
  BY <1>1, <1>2, LivesIUpdate, Removing

\* Nothing that the abstract state is made of changes.
LEMMA NothingChanges ==
    ASSUME HInv, UNCHANGED <<tab, dinode, files, cdir>>
    PROVE  DiskFree(tab, dinode)' /\ UNCHANGED Handles!ofVars
<1>1. DiskFree(tab, dinode)'
  BY DEF HInv, DiskFree
<1>2. ofile' = ofile /\ file' = file
  BY DEF files
<1>3. Handle' = Handle
  BY <1>2 DEF Handle
<1>4. Live' = Live
  BY DEF Live, Effective, IsLoaded
<1> QED
  BY <1>1, <1>3, <1>4 DEF Handles!ofVars

-----------------------------------------------------------------------------
(* The steps that give up a use.                                           *)

\* The inode in slot a is given back, and perhaps another one unlocked.
LEMMA Dropping ==
    ASSUME HInv, IInv', stage # "dead", stage' # "dead", NEW a \in Slot, tab[a].count # 0,
           dinode' = IPutDisk(tab, dinode, a),
           \A u \in Slot : /\ tab'[u].count = IPut(tab, a)[u].count
                           /\ tab'[u].number = IPut(tab, a)[u].number
                           /\ tab'[u].core = IPut(tab, a)[u].core
    PROVE  /\ DiskFree(tab, dinode)'
           /\ Live' \in {Live, Live \ {tab[a].number}}
           /\ tab[a].number \in Handles!InUse' => Live' = Live
           /\ \A u \in Slot : tab[u].count # 0 /\ tab'[u].count # 0 =>
                                    tab'[u].number = tab[u].number
<1> DEFINE p == IPut(tab, a)
           d == IPutDisk(tab, dinode, a)
           n == tab[a].number
<1>0. /\ Sound(tab) /\ Sound(tab')
      /\ Live = LiveIn(tab, dinode) /\ Live' = LiveIn(tab', dinode')
      /\ dinode \in Disk /\ DiskFree(tab, dinode)
  BY LiveBoth DEF HInv, IInv, TypeOK, Disk
<1>1. /\ DiskFree(p, d)
      /\ LiveIn(p, d) \subseteq LiveIn(tab, dinode)
      /\ LiveIn(tab, dinode) \ {n} \subseteq LiveIn(p, d)
      /\ p[a].count # 0 => LiveIn(p, d) = LiveIn(tab, dinode)
      /\ \A u \in Slot : p[u].count # 0 =>
            /\ tab[u].count # 0 /\ p[u].number = tab[u].number /\ p[u].core = tab[u].core
  BY <1>0, PutLive
<1>2. \A u \in Slot : tab'[u].count = p[u].count /\ tab'[u].number = p[u].number
                      /\ tab'[u].core = p[u].core
  OBVIOUS
<1>3. dinode' = d
  OBVIOUS
<1> HIDE DEF p, d
<1>4. \A i : LoadedIn(tab', i) <=> LoadedIn(p, i)
  BY <1>2 DEF LoadedIn
<1>5. LiveIn(tab', dinode') = LiveIn(p, d)
  BY <1>2, <1>3, <1>4 DEF LiveIn
<1>6. DiskFree(tab, dinode)'
  BY <1>1, <1>2, <1>3 DEF DiskFree
<1>7. Live' \in {Live, Live \ {n}}
  <2> HIDE DEF n
  <2> QED
    BY <1>0, <1>1, <1>5
<1>8. \A u \in Slot : tab[u].count # 0 /\ tab'[u].count # 0 => tab'[u].number = tab[u].number
  BY <1>1, <1>2
<1>9. ASSUME n \in Handles!InUse' PROVE Live' = Live
  <2>1. n \in Ino /\ n # NoEntry
    BY <1>0, InoAssumption DEF Sound
  <2>2. PICK s \in Slot : UsedSlot(s)' /\ tab'[s].number = n
    BY <1>9, <2>1, UsedNext DEF UsedFact
  <2>3. tab'[s].count # 0
    BY <2>2, UsedNext DEF UsedFact
  <2>4. tab[s].count # 0 /\ tab[s].number = n
    BY <1>1, <1>2, <2>2, <2>3
  <2>5. s = a
    BY <1>0, <2>4 DEF Sound
  <2> QED
    BY <1>0, <1>1, <1>2, <1>5, <2>3, <2>5
<1> QED
  BY <1>6, <1>7, <1>8, <1>9

LEMMA ChDirImplements == ASSUME HInv, IInv', ChDir PROVE DiskFree(tab, dinode)' /\ Handles!Next
<1>1. stage = "search" /\ stage' # "dead" /\ UNCHANGED files
  BY DEF ChDir, Found, Done
<1>2. /\ stage # "dead" /\ TypeOK /\ dinode \in Disk /\ cdir \in Slot
      /\ cur \in Slot /\ Held(tab, cur, call.mate, {cur}) /\ Sound(tab)
      /\ tab[cur].count # 0 /\ Lives(tab, dinode, {})
  BY <1>1, HereFacts DEF TypeOK
<1>3. CASE PutIs(tab, dinode, entry, cur) /\ cdir' = cdir
  BY <1>1, <1>2, <1>3, PutRemoves
<1>4. CASE tab' = Prele(IPut(tab, cdir), cur) /\ dinode' = IPutDisk(tab, dinode, cdir) /\ cdir' = cur
  <2> DEFINE p == IPut(tab, cdir)
             a == cdir
  <2>1. tab[a].count # 0 /\ a \in Slot
    BY <1>2, HeldCounts, BaseCounts
  <2>2. Sound(p)
    BY <1>2, <2>1, Putting
  <2>3. \A u \in Slot : /\ tab'[u].count = p[u].count /\ tab'[u].number = p[u].number
                        /\ tab'[u].core = p[u].core
    <3>1. tab' = Prele(p, cur)
      BY <1>4
    <3> HIDE DEF p
    <3> DEFINE r == Prele(p, cur)
    <3>2. /\ r[cur].count = p[cur].count /\ r[cur].number = p[cur].number
          /\ r[cur].core = p[cur].core
          /\ \A u \in Slot : u # cur => r[u] = p[u]
      BY <1>2, <2>2, Unlocking
    <3> HIDE DEF r
    <3> QED
      BY <3>1, <3>2 DEF r
  <2>4. dinode' = IPutDisk(tab, dinode, a)
    BY <1>4
  <2>5. /\ DiskFree(tab, dinode)'
        /\ Live' \in {Live, Live \ {tab[a].number}}
        /\ tab[a].number \in Handles!InUse' => Live' = Live
        /\ \A u \in Slot : tab[u].count # 0 /\ tab'[u].count # 0 => tab'[u].number = tab[u].number
    BY <1>1, <1>2, <2>1, <2>3, <2>4, Dropping
  <2>6. \A s \in Slot : UsedSlot(s)' => tab'[s].count # 0
    BY <1>1, UsedNext DEF UsedFact
  <2>7. \A s \in Slot : UsedSlot(s) => tab[s].count # 0
    BY <1>1, UsedIsLoaded DEF UsedFact, HInv
  <2>8. ofile' = ofile /\ file' = file
    BY <1>1 DEF files
  <2>9. Handle' = Handle
    <3>1. ASSUME NEW fd \in FD, ofile[fd] # NoFile
          PROVE  tab'[file[ofile[fd]].inode].number = tab[file[ofile[fd]].inode].number
      <4> DEFINE s == file[ofile[fd]].inode
      <4>1. s \in Slot
        BY <1>1, <3>1, UsedIsLoaded DEF UsedFact, HInv
      <4>2. UsedSlot(s) /\ UsedSlot(s)'
        BY <2>8, <3>1 DEF UsedSlot
      <4>3. tab[s].count # 0
        BY <2>7, <4>1, <4>2
      <4>4. tab'[s].count # 0
        <5>1. \E w \in Slot : w = s /\ UsedSlot(w)'
          BY <2>8, <3>1, <4>1 DEF UsedSlot
        <5> QED
          BY <2>6, <5>1
      <4> HIDE DEF s
      <4>5. tab'[s].number = tab[s].number
        BY <2>5, <4>1, <4>3, <4>4
      <4> QED
        BY <4>5 DEF s
    <3> QED
      BY <2>8, <3>1 DEF Handle
  <2>10. tab'[cdir'].number \in Ino
    <3>1. Sound(tab') /\ tab'[cur].count # 0
      BY <1>2, <1>4, <2>6, LiveBoth DEF HInv, UsedSlot
    <3> QED
      BY <1>2, <1>4, <3>1 DEF Sound
  <2>11. Handles!ChangeDir
    BY <2>5, <2>9, <2>10 DEF Handles!ChangeDir
  <2> QED
    BY <2>5, <2>11 DEF Handles!Next
<1> QED
  BY <1>1, <1>3, <1>4 DEF ChDir, TableIs

LEMMA CloseImplements ==
    ASSUME HInv, IInv', NEW fd \in FD, ofile[fd] # NoFile, stage \in {"idle", "exit"},
           Closed(fd), UNCHANGED stage
    PROVE  DiskFree(tab, dinode)' /\ Handles!Next
<1> DEFINE f == ofile[fd]
           a == file[f].inode
<1>1. /\ stage # "dead" /\ stage' # "dead" /\ IInv /\ TypeOK /\ FileCountIsFds /\ Sound(tab)
      /\ cdir' = cdir
  BY DEF HInv, IInv, Closed
<1>2. a \in Slot /\ UsedSlot(a) /\ tab[a].count # 0 /\ f \in File
  BY <1>1, UsedIsLoaded, OpenFileOf DEF UsedFact, UsedSlot
<1>3. /\ DiskFree(tab, dinode)'
      /\ Live' \in {Live, Live \ {tab[a].number}}
      /\ tab[a].number \in Handles!InUse' => Live' = Live
      /\ \A u \in Slot : tab[u].count # 0 /\ tab'[u].count # 0 => tab'[u].number = tab[u].number
  <2>1. CASE Closes(f)
    <3>1. tab' = IPut(tab, a) /\ dinode' = IPutDisk(tab, dinode, a)
      BY <2>1 DEF Closed, PutIs, TableIs
    <3> HIDE DEF a
    <3> QED
      BY <1>1, <1>2, <3>1, Dropping
  <2>2. CASE ~ Closes(f)
    <3>1. tab' = tab /\ dinode' = dinode
      BY <2>2 DEF Closed, table
    <3>2. Live' = Live
      BY <3>1 DEF Live, Effective, IsLoaded
    <3> QED
      BY <3>1, <3>2 DEF HInv, DiskFree
  <2> QED
    BY <2>1, <2>2
<1>4. /\ ofile' = [ofile EXCEPT ![fd] = NoFile]
      /\ file' = [file EXCEPT ![f] = IF file[f].count = 1 THEN ClosedFile
                                     ELSE [count |-> file[f].count - 1, inode |-> a]]
  BY DEF Closed
<1>5. ofile'[fd] = NoFile /\ \A g \in FD : g # fd => ofile'[g] = ofile[g]
  BY <1>1, <1>4 DEF TypeOK
<1>6. ASSUME NEW g \in FD, ofile'[g] # NoFile
      PROVE  g # fd /\ ofile'[g] = ofile[g] /\ file'[ofile[g]].inode = file[ofile[g]].inode
  <2>1. g # fd /\ ofile'[g] = ofile[g] /\ ofile[g] \in File
    BY <1>1, <1>5, <1>6 DEF TypeOK
  <2>2. CASE ofile[g] # f
    <3> HIDE DEF f
    <3> QED
      BY <1>1, <1>4, <2>1, <2>2 DEF TypeOK
  <2>3. CASE ofile[g] = f
    <3> DEFINE fds == {x \in FD : ofile'[x] = f}
    <3>1. file'[f].count # 0
      <4>1. FileCountIsFds' /\ TypeOK'
        BY DEF IInv
      <4>2. file'[f].count = Cardinality(fds) /\ IsFiniteSet(fds)
        <5>1. fds \in SUBSET FD
          OBVIOUS
        <5>2. IsFiniteSet(fds)
          BY <5>1, Sizes, FS_Subset
        <5> QED
          BY <1>2, <4>1, <5>2 DEF FileCountIsFds
      <4>3. g \in fds
        BY <2>1, <2>3
      <4> HIDE DEF fds
      <4> QED
        BY <4>2, <4>3, FS_EmptySet
    <3>2. file[f].count # 1
      <4>1. file[f].count = 1 => file'[f] = ClosedFile
        <5> HIDE DEF f
        <5> QED
          BY <1>1, <1>2, <1>4 DEF TypeOK
      <4> QED
        BY <3>1, <4>1 DEF ClosedFile
    <3>3. file'[f].inode = a
      <4> DEFINE v == [count |-> file[f].count - 1, inode |-> a]
      <4>1. file' = [file EXCEPT ![f] = v]
        BY <1>4, <3>2
      <4>2. v.inode = a
        OBVIOUS
      <4> HIDE DEF f, a, v
      <4> QED
        BY <1>1, <1>2, <4>1, <4>2 DEF TypeOK
    <3> QED
      BY <2>1, <2>3, <3>3
  <2> QED
    BY <2>1, <2>2, <2>3
<1>7. \A s \in Slot : UsedSlot(s)' => UsedSlot(s) /\ tab'[s].number = tab[s].number
  <2>1. \A s \in Slot : UsedSlot(s)' => tab'[s].count # 0
    BY <1>1, UsedNext DEF UsedFact
  <2>2. \A s \in Slot : UsedSlot(s) => tab[s].count # 0
    BY <1>1, UsedIsLoaded DEF UsedFact
  <2>3. \A s \in Slot : UsedSlot(s)' => UsedSlot(s)
    BY <1>1, <1>6 DEF UsedSlot
  <2> QED
    BY <1>3, <2>1, <2>2, <2>3
<1>8. Handle[fd] = tab[a].number /\ Handle[fd] # NoEntry
  <2>1. tab[a].number \in Ino
    BY <1>1, <1>2 DEF Sound
  <2>2. Handle[fd] = tab[a].number
    BY DEF Handle
  <2> QED
    BY <2>1, <2>2, InoAssumption
<1>9. Handle' = [Handle EXCEPT ![fd] = NoEntry]
  <2>1. ASSUME NEW g \in FD
        PROVE  (IF ofile'[g] = NoFile THEN NoEntry ELSE tab'[file'[ofile'[g]].inode].number)
                    = IF g = fd THEN NoEntry ELSE Handle[g]
    <3>1. CASE ofile'[g] = NoFile
      BY <1>5, <3>1 DEF Handle
    <3>2. CASE ofile'[g] # NoFile
      <4>1. g # fd /\ ofile'[g] = ofile[g] /\ file'[ofile[g]].inode = file[ofile[g]].inode
        BY <1>6, <3>2
      <4>2. file[ofile[g]].inode \in Slot
        BY <1>1, <3>2, <4>1, UsedIsLoaded DEF UsedFact
      <4>3. UsedSlot(file[ofile[g]].inode)'
        BY <3>2, <4>1 DEF UsedSlot
      <4> QED
        BY <1>7, <3>2, <4>1, <4>2, <4>3 DEF Handle
    <3> QED
      BY <3>1, <3>2
  <2>2. Handle' = [g \in FD |-> IF g = fd THEN NoEntry ELSE Handle[g]]
    BY <2>1 DEF Handle
  <2>3. Handle = [g \in FD |-> Handle[g]]
    BY DEF Handle
  <2> QED
    BY <2>2, <2>3
<1>10. tab'[cdir'].number = tab[cdir].number
  <2>1. cdir \in Slot /\ UsedSlot(cdir)'
    BY <1>1 DEF TypeOK, UsedSlot
  <2> QED
    BY <1>1, <1>7, <2>1
<1>11. Handles!CloseFile
  <2> HIDE DEF f, a
  <2> QED
    BY <1>3, <1>8, <1>9, <1>10 DEF Handles!CloseFile
<1> QED
  BY <1>3, <1>11 DEF Handles!Next

-----------------------------------------------------------------------------
(* The steps that make an inode.                                           *)

\* What a call holds is in a slot in use.
LEMMA HeldLoaded ==
    ASSUME TypeOK, NEW t, NEW a, NEW b, NEW L, Held(t, a, b, L)
    PROVE  Sound(t) /\ \A s \in Slot : a = s \/ b = s => t[s].count # 0
<1>1. Sound(t)
  BY DEF Held
<1> QED
  BY <1>1, HeldCounts

\* MakNode: the new inode is live by its slot, marked to be written, and named.
LEMMA MakNodeLives ==
    ASSUME HInv, stage = "create", call.mate = NoSlot,
           NEW i \in Ino, NEW s \in Slot, Gets(tab, i, s),
           NEW c \in Inode, c.type # "free"
    PROVE  LET t == MakNodeTab(i, s, c)
           IN  /\ Sound(t) /\ t[s].count # 0 /\ t[s].number = i /\ t[s].core = c /\ t[s].marked
               /\ MakNodeDisk(i, s, c) \in Disk
               /\ Lives(t, MakNodeDisk(i, s, c), {i})
<1> DEFINE g == Got(tab, dinode, i, s)
           h == Changed(g, s, c)
           k == Changed(h, cur, h[cur].core)
           p == IPut(k, cur)
           d == IPutDisk(k, dinode, cur)
           L == {cur} \cup {s}
           X == {i}
<1>1. /\ TypeOK /\ dinode \in Disk /\ entry \in Entries
      /\ cur \in Slot /\ Held(tab, NoSlot, cur, {cur}) /\ i \in X
  <2>1. TypeOK /\ dinode \in Disk /\ entry \in Entries /\ cur \in Slot /\ Held(tab, cur, NoSlot, {cur})
    BY HereFacts
  <2> QED
    BY <2>1, HeldSwap
<1>2. Held(g, s, cur, L) /\ g[s].number = i /\ Lives(g, dinode, X)
  <2>1. Held(g, s, cur, L) /\ g[s].number = i
    BY <1>1, HeldGet
  <2>2. Lives(g, dinode, {})
    BY LivesGet
  <2> HIDE DEF g
  <2>3. Lives(g, dinode, X)
    BY <2>2 DEF Lives
  <2> QED
    BY <2>1, <2>3
<1> HIDE DEF g, X
<1>3. Sound(g) /\ g[s].count # 0
  BY <1>1, <1>2, HeldLoaded
<1>4. /\ Held(h, s, cur, L) /\ Lives(h, dinode, X)
      /\ h[s].core = c /\ h[s].marked /\ h[s].number = i
  <2>1. Held(h, s, cur, L)
    BY <1>1, <1>2, <1>3, HeldChange
  <2>2. h[s].core = c /\ h[s].marked /\ h[s].number = g[s].number
    BY <1>3, Changing
  <2>3. Lives(h, dinode, X)
    BY <1>1, <1>2, <1>3, LivesNew
  <2> HIDE DEF h
  <2> QED
    BY <1>2, <2>1, <2>2, <2>3
<1> HIDE DEF h
<1>5. Sound(h) /\ h[cur].count # 0 /\ h[cur].core \in Inode
  <2>1. Sound(h) /\ h[cur].count # 0
    BY <1>1, <1>4, HeldLoaded
  <2> QED
    BY <1>1, <2>1, SlotFields
<1>6. /\ Held(k, cur, s, L) /\ Lives(k, dinode, X)
      /\ k[s].core = c /\ k[s].marked /\ k[s].number = i
  <2> DEFINE x == h[cur].core
  <2>1. x \in Inode /\ x.type = h[cur].core.type /\ x = h[cur].core /\ k = Changed(h, cur, x)
    BY <1>5
  <2> HIDE DEF x, k
  <2>2. Held(k, s, cur, L)
    BY <1>1, <1>4, <1>5, <2>1, HeldChange
  <2>3. Lives(k, dinode, X)
    BY <1>1, <1>4, <1>5, <2>1, LivesChange
  <2>4. /\ k[cur].core = x /\ k[cur].marked /\ k[cur].number = h[cur].number
        /\ \A u \in Slot : u # cur => k[u] = h[u]
    BY <1>1, <1>5, <2>1, Changing
  <2> QED
    BY <1>1, <1>4, <2>1, <2>2, <2>3, <2>4, HeldSwap
<1>7. k = Allocated(i, s, c)
  BY DEF g, h, k, Allocated, ChangedByWrite
<1> HIDE DEF k
<1>8. Sound(k) /\ k[cur].count # 0
  BY <1>1, <1>6, HeldLoaded
<1>9. /\ p[cur].count # 0 => p[cur].number = k[cur].number /\ p[cur].core = k[cur].core
                             /\ p[cur].marked = k[cur].marked
      /\ \A u \in Slot : u # cur => p[u] = k[u]
  BY <1>1, <1>8, Putting
<1>10. d \in Disk /\ Lives(p, d, X)
  BY <1>1, <1>6, <1>8, PutTypes, LivesPut
<1>11. Held(p, NoSlot, s, L \ {cur})
  BY <1>1, <1>6, HeldPut
<1> HIDE DEF p, d, L
<1>12. Sound(p) /\ p[s].count # 0
  BY <1>1, <1>11, HeldLoaded
<1>13. p[s].number = i /\ p[s].core = c /\ p[s].marked
  BY <1>1, <1>6, <1>9, <1>12
<1>14. MakNodeTab(i, s, c) = p /\ MakNodeDisk(i, s, c) = d
  BY <1>7 DEF MakNodeTab, MakNodeDisk, p, d
<1> QED
  BY <1>10, <1>12, <1>13, <1>14 DEF X

LEMMA NewKinds ==
    /\ NewFile \in Inode /\ NewFile.type # "free" /\ NewFile.nlink > 0
    /\ NewDir \in Inode /\ NewDir.type # "free"
BY NewInodes DEF NewFile, NewDir

\* The new inode is given back at once: it lives on the disk.
LEMMA PutMakes ==
    ASSUME HInv, IInv', stage # "dead", stage' # "dead", UNCHANGED <<files, cdir>>,
           NEW i \in Ino \ Live, NEW t, Sound(t), NEW d \in Disk, NEW e, NEW s \in Slot,
           t[s].count # 0, t[s].number = i, t[s].core = NewFile, t[s].marked,
           Lives(t, d, {i}), PutIs(t, d, e, s)
    PROVE  DiskFree(tab, dinode)' /\ Handles!Next
<1>1. tab' = IPut(t, s) /\ dinode' = IPutDisk(t, d, s)
  BY DEF PutIs, TableIs
<1>2. Lives(tab', dinode', {i})
  BY <1>1, LivesPut
<1>3. i \in LiveIn(tab', dinode')
  <2>1. DiskFree(t, d) /\ t[s].core.nlink > 0 /\ t[s].core.type # "free"
    BY NewKinds DEF Lives
  <2> QED
    BY <1>1, <2>1, PutLive
<1> QED
  BY <1>2, <1>3, Making

LEMMA MakeImplements ==
    ASSUME HInv, IInv', NEW i \in FreeInode, NEW s \in Slot,
           CreatNew(i, s) \/ MkNodNew(i, s) \/ MkdirNew(i, s)
    PROVE  DiskFree(tab, dinode)' /\ Handles!Next
<1>1. i \in Ino \ Live
  BY DEF FreeInode, Live
<1>2. stage = "create" /\ stage # "dead" /\ stage' # "dead" /\ call.mate = NoSlot /\ Gets(tab, i, s)
  BY DEF CreatNew, MkNodNew, MkdirNew, Fresh, Done
<1>3. CASE MkdirNew(i, s)
  <2> DEFINE t == MakNodeTab(i, s, NewDir)
             d == MakNodeDisk(i, s, NewDir)
             p == Prele(t, s)
  <2>1. tab' = p /\ dinode' = d /\ UNCHANGED <<files, cdir>>
    BY <1>3 DEF MkdirNew, TableIs
  <2>2. Sound(t) /\ t[s].count # 0 /\ t[s].number = i /\ t[s].core = NewDir /\ Lives(t, d, {i})
    BY <1>1, <1>2, NewKinds, MakNodeLives
  <2> HIDE DEF t, d
  <2>3. /\ Sound(p) /\ p[s].count = t[s].count /\ p[s].number = t[s].number
        /\ p[s].core = t[s].core /\ Lives(p, d, {i})
    BY <2>2, Unlocking, LivesUnlock
  <2> HIDE DEF p
  <2>4. i \in LiveIn(p, d)
    <3>1. p[s].count # 0 /\ p[s].number = i /\ p[s].core.type # "free"
      BY <2>2, <2>3, NewKinds
    <3> QED
      BY <2>3, <3>1, LiveByCore
  <2> QED
    BY <1>1, <1>2, <2>1, <2>3, <2>4, Making
<1>4. CASE CreatNew(i, s) \/ MkNodNew(i, s)
  <2> DEFINE t == MakNodeTab(i, s, NewFile)
             d == MakNodeDisk(i, s, NewFile)
             e == MakNodeEntry(i, s, NewFile)
  <2>1. Opened(t, d, e, s) \/ (PutIs(t, d, e, s) /\ UNCHANGED <<files, cdir>>)
    BY <1>4 DEF CreatNew, MkNodNew
  <2>2. /\ Sound(t) /\ t[s].count # 0 /\ t[s].number = i /\ t[s].core = NewFile /\ t[s].marked
        /\ d \in Disk /\ Lives(t, d, {i})
    BY <1>1, <1>2, NewKinds, MakNodeLives
  <2> HIDE DEF t, d, e
  <2>3. CASE PutIs(t, d, e, s) /\ UNCHANGED <<files, cdir>>
    BY <1>1, <1>2, <2>2, <2>3, PutMakes
  <2>4. CASE Opened(t, d, e, s) /\ (FreeFD = {} \/ FreeFile = {})
    <3> DEFINE p == Prele(t, s)
    <3>1. PutIs(p, d, e, s) /\ UNCHANGED <<files, cdir>>
      BY <2>4 DEF Opened
    <3>2. /\ Sound(p) /\ p[s].count = t[s].count /\ p[s].number = t[s].number
          /\ p[s].core = t[s].core /\ p[s].marked = t[s].marked /\ Lives(p, d, {i})
      BY <2>2, Unlocking, LivesUnlock
    <3> HIDE DEF p
    <3> QED
      BY <1>1, <1>2, <2>2, <3>1, <3>2, PutMakes
  <2>5. CASE Opened(t, d, e, s) /\ ~ (FreeFD = {} \/ FreeFile = {})
    <3> DEFINE X == {i}
    <3>1. Lives(t, d, X) /\ X \in SUBSET {t[s].number} /\ t[s].core.type # "free"
      BY <2>2, NewKinds
    <3> HIDE DEF X
    <3> QED
      BY <1>2, <2>2, <2>5, <3>1, Opening
  <2> QED
    BY <2>1, <2>3, <2>4, <2>5
<1> QED
  BY <1>3, <1>4

LEMMA DupImplements ==
    ASSUME HInv, NEW fd \in FD, Dup(fd)
    PROVE  DiskFree(tab, dinode)' /\ Handles!Next
<1> DEFINE f == ofile[fd]
           x == Lowest(FreeFD)
<1>1. /\ stage = "idle" /\ f # NoFile /\ FreeFD # {}
      /\ ofile' = [ofile EXCEPT ![x] = f]
      /\ file' = [file EXCEPT ![f].count = @ + 1]
      /\ tab' = tab /\ dinode' = dinode /\ cdir' = cdir
  BY DEF Dup, FdCalled, table
<1>2. TypeOK /\ FileCountIsFds /\ Sound(tab)
  BY DEF HInv, IInv
<1>3. x \in FD /\ ofile[x] = NoFile
  <2>1. FreeFD \in SUBSET Nat
    BY Sizes DEF FreeFD
  <2>2. x \in FreeFD
    BY <1>1, <2>1, LowestIn
  <2> QED
    BY <2>2 DEF FreeFD
<1>4. f \in File /\ file \in [File -> OpenFile] /\ ofile \in [FD -> File \cup {NoFile}]
  BY <1>1, <1>2 DEF TypeOK
<1>5. \A g \in File : file'[g].inode = file[g].inode
  <2> HIDE DEF f, x
  <2> QED
    BY <1>1, <1>4 DEF OpenFile
<1>6. Handle[x] = NoEntry /\ Handle[fd] = tab[file[f].inode].number
  BY <1>1, <1>3 DEF Handle
<1>7. Handle[fd] # NoEntry
  <2>1. file[f].inode \in Slot /\ UsedSlot(file[f].inode)
    BY <1>1, UsedIsLoaded DEF UsedFact, UsedSlot, HInv
  <2>2. tab[file[f].inode].count # 0
    BY <1>1, <2>1, UsedIsLoaded DEF UsedFact, HInv
  <2>3. tab[file[f].inode].number \in Ino
    <3> HIDE DEF f
    <3> QED
      BY <1>2, <2>1, <2>2 DEF Sound
  <2> QED
    BY <1>6, <2>3, InoAssumption
<1>8. Handle' = [Handle EXCEPT ![x] = Handle[fd]]
  <2>1. ofile'[x] = f /\ \A g \in FD : g # x => ofile'[g] = ofile[g]
    <3> HIDE DEF f, x
    <3> QED
      BY <1>1, <1>3, <1>4
  <2>2. ASSUME NEW g \in FD
        PROVE  (IF ofile'[g] = NoFile THEN NoEntry ELSE tab'[file'[ofile'[g]].inode].number)
                    = IF g = x THEN Handle[fd] ELSE Handle[g]
    <3>1. CASE g = x
      BY <1>1, <1>4, <1>5, <1>6, <2>1, <3>1
    <3>2. CASE g # x
      BY <1>1, <1>4, <1>5, <2>1, <3>2 DEF Handle
    <3> QED
      BY <3>1, <3>2
  <2>3. Handle' = [g \in FD |-> IF g = x THEN Handle[fd] ELSE Handle[g]]
    BY <2>2 DEF Handle
  <2>4. Handle = [g \in FD |-> Handle[g]]
    BY DEF Handle
  <2> QED
    BY <2>3, <2>4
<1>9. Live' = Live
  BY <1>1 DEF Live, Effective, IsLoaded
<1>10. Handles!Duplicate
  <2> HIDE DEF f, x
  <2> QED
    BY <1>1, <1>3, <1>6, <1>7, <1>8, <1>9 DEF Handles!Duplicate
<1>11. DiskFree(tab, dinode)'
  BY <1>1 DEF HInv, DiskFree
<1> QED
  BY <1>10, <1>11 DEF Handles!Next

-----------------------------------------------------------------------------
(* The end of a session, and the next.                                     *)

\* A session ends: what is live on the disk was live.
LEMMA RestartImplements ==
    ASSUME HInv, IInv', Restart
    PROVE  DiskFree(tab, dinode)' /\ Handles!Next
<1>1. /\ stage = "exit" /\ tab' = StartTab(dinode) /\ cdir' = Root /\ dinode' = dinode
      /\ \A fd \in FD : ofile[fd] = NoFile /\ ofile'[fd] = NoFile
  BY DEF Restart, files
<1>2. /\ Sound(tab) /\ Sound(tab')
      /\ Live = LiveIn(tab, dinode) /\ Live' = LiveIn(tab', dinode')
      /\ dinode \in Disk /\ DiskFree(tab, dinode)
  BY LiveBoth DEF HInv, IInv, TypeOK, Disk
<1>3. /\ \A s \in Slot : tab'[s].count # 0 => s = Root
      /\ tab'[Root].number = RootIno /\ tab'[Root].core = dinode[RootIno]
  <2> DEFINE v == [number |-> RootIno, count |-> 2, locked |-> FALSE, marked |-> FALSE,
                   core |-> dinode[RootIno]]
  <2>1. tab' = [s \in Slot |-> IF s # Root THEN FreeSlot ELSE v]
    BY <1>1 DEF StartTab
  <2>2. v.number = RootIno /\ v.core = dinode[RootIno]
    OBVIOUS
  <2> HIDE DEF v
  <2> QED
    BY <2>1, <2>2, Kinds, Sizes
<1>4. Live' \subseteq Live
  <2> SUFFICES ASSUME NEW i \in Live' PROVE i \in Live
    OBVIOUS
  <2>1. i \in Ino /\ dinode[i].type # "free"
    BY <1>1, <1>2, <1>3 DEF LiveIn
  <2> QED
    BY <1>2, <2>1 DEF LiveIn, LoadedIn, DiskFree
<1>5. DiskFree(tab, dinode)'
  BY <1>1, <1>3 DEF DiskFree
<1>6. Handle' = [fd \in FD |-> NoEntry]
  BY <1>1 DEF Handle
<1>7. Handles!Restart
  BY <1>1, <1>3, <1>4, <1>6 DEF Handles!Restart
<1> QED
  BY <1>5, <1>7 DEF Handles!Next

LEMMA InitHandles == Init => DiskFree(tab, dinode) /\ Handles!Init
<1> SUFFICES ASSUME Init PROVE DiskFree(tab, dinode) /\ Handles!Init
  OBVIOUS
<1>0. IInv
  BY InitIInv
<1>1. /\ tab = StartTab(dinode) /\ dinode = FormatDinode /\ cdir = Root /\ ofile = NoFiles
      /\ Sound(tab) /\ Live = LiveIn(tab, dinode)
  BY <1>0, LiveNow DEF Init, IInv, LiveFact
<1>2. /\ \A s \in Slot : tab[s].count # 0 => s = Root
      /\ tab[Root].number = RootIno /\ tab[Root].core = dinode[RootIno] /\ tab[Root].count = 2
  <2> DEFINE v == [number |-> RootIno, count |-> 2, locked |-> FALSE, marked |-> FALSE,
                   core |-> dinode[RootIno]]
  <2>1. tab = [s \in Slot |-> IF s # Root THEN FreeSlot ELSE v]
    BY <1>1 DEF StartTab
  <2>2. v.number = RootIno /\ v.core = dinode[RootIno] /\ v.count = 2
    OBVIOUS
  <2> HIDE DEF v
  <2> QED
    BY <2>1, <2>2, Kinds, Sizes
<1>3. DiskFree(tab, dinode)
  BY <1>2 DEF DiskFree
<1>4. dinode[RootIno].type = "dir"
  BY <1>1, Kinds DEF FormatDinode
<1>5. RootIno \in Live /\ Live \subseteq Ino
  <2>1. tab[Root].number \in LiveIn(tab, dinode)
    BY <1>1, <1>2, <1>4, Sizes, LiveByCore
  <2> QED
    BY <1>1, <1>2, <2>1 DEF LiveIn
<1>6. Handle = [fd \in FD |-> NoEntry]
  BY <1>1 DEF Handle, NoFiles
<1>7. Handles!Init
  BY <1>1, <1>2, <1>5, <1>6 DEF Handles!Init
<1> QED
  BY <1>3, <1>7

LEMMA NextHandles ==
    ASSUME HInv, IInv', Next
    PROVE  DiskFree(tab, dinode)' /\ [Handles!Next]_Handles!ofVars
<1> DEFINE G == DiskFree(tab, dinode)' /\ [Handles!Next]_Handles!ofVars
<1>1. CASE UNCHANGED <<tab, dinode, files, cdir>>
  BY <1>1, NothingChanges
<1>2. CASE NameI
  <2>1. CASE GetFails
    BY <1>1, <2>1 DEF GetFails, Dies, table
  <2>2. ASSUME NEW n \in Name, SearchAbsent(n) \/ SearchVictim(n) \/ SearchMatches(n) PROVE G
    BY <2>2, AbsentRemoves, VictimRemoves, MatchesRemoves
  <2> QED
    BY <1>2, <2>1, <2>2, EnterRemoves, SearchFailRemoves, GetRemoves DEF NameI
<1>3. CASE Rest
  <2>1. CASE MkdirFound \/ MakNodeExhausted \/ UnlinkFails
    BY <1>1, <2>1 DEF MkdirFound, MakNodeExhausted, UnlinkFails, Dies, table
  <2>2. ASSUME NEW i \in FreeInode, MakNodeOverflows(i) PROVE G
    BY <1>1, <2>2 DEF MakNodeOverflows, Dies, table
  <2>3. ASSUME NEW i \in FreeInode, NEW s \in Slot,
               CreatNew(i, s) \/ MkNodNew(i, s) \/ MkdirNew(i, s)
        PROVE  G
    BY <2>3, MakeImplements
  <2>4. ASSUME NEW s \in Slot, Unlink(s) PROVE G
    BY <2>4, UnlinkRemoves
  <2> QED
    BY <1>3, <2>1, <2>2, <2>3, <2>4, OpenImplements, CreatFoundImplements, ChDirImplements,
       FoundRemoves, LinkNewRemoves, WriteRemoves
    DEF Rest
<1>4. CASE ExitClose
  <2> DEFINE S  == {fd \in FD : ofile[fd] # NoFile}
             fd == Lowest(S)
  <2>1. stage = "exit" /\ S # {} /\ Closed(fd) /\ UNCHANGED stage
    BY <1>4 DEF ExitClose
  <2>2. fd \in S
    <3>1. S \in SUBSET Nat
      BY Sizes
    <3> HIDE DEF S
    <3> QED
      BY <2>1, <3>1, LowestIn
  <2>3. fd \in FD /\ ofile[fd] # NoFile
    BY <2>2
  <2> HIDE DEF fd
  <2> QED
    BY <2>1, <2>3, CloseImplements
<1>5. ASSUME NEW m \in SearchMode, Begin(m) PROVE G
  BY <1>1, <1>5 DEF Begin, table
<1>6. ASSUME NEW fd \in FD, Close(fd) \/ Dup(fd) \/ FStat(fd) \/ Rdwr(fd) PROVE G
  <2>1. CASE Close(fd)
    BY <2>1, CloseImplements DEF Close, FdCalled
  <2>2. CASE Rdwr(fd)
    BY <1>1, <2>2 DEF Rdwr, table
  <2> QED
    BY <1>6, <2>1, <2>2, DupImplements, FStatRemoves
<1> QED
  BY <1>2, <1>3, <1>4, <1>5, <1>6, RestartImplements, WriteRemoves DEF Next, Proceed

LEMMA InitHInv == Init => HInv
BY InitIInv, InitHandles DEF HInv

LEMMA StepHInv == HInv /\ [Next]_vars => HInv'
<1> SUFFICES ASSUME HInv, [Next]_vars PROVE HInv'
  OBVIOUS
<1>1. IInv'
  BY StepIInv DEF HInv
<1>2. CASE Next
  BY <1>1, <1>2, NextHandles DEF HInv
<1>3. CASE UNCHANGED vars
  <2>1. UNCHANGED <<tab, dinode, files, cdir>>
    BY <1>3 DEF vars, table
  <2> QED
    BY <1>1, <2>1, NothingChanges DEF HInv
<1> QED
  BY <1>2, <1>3

\* What IPut leaves free in core is free on the disk, at every step of every call.
THEOREM HandlesInvariant == Spec => []HInv
BY InitHInv, StepHInv, PTL DEF Spec

\* Descriptors and the current directory keep their inodes through every sequence
\* of calls: the reference counts of the in-core table implement OpenFileSpec.
THEOREM FilesImplementHandles == Spec => ImplementsHandles
<1>1. Init => Handles!Init
  BY InitHandles
<1>2. HInv /\ HInv' /\ [Next]_vars => [Handles!Next]_Handles!ofVars
  <2> SUFFICES ASSUME HInv, HInv', [Next]_vars PROVE [Handles!Next]_Handles!ofVars
    OBVIOUS
  <2>1. CASE Next
    BY <2>1, NextHandles DEF HInv
  <2>2. CASE UNCHANGED vars
    <3>1. UNCHANGED <<tab, dinode, files, cdir>>
      BY <2>2 DEF vars, table
    <3> QED
      BY <3>1, NothingChanges
  <2> QED
    BY <2>1, <2>2
<1> QED
  BY <1>1, <1>2, HandlesInvariant, PTL DEF Spec, ImplementsHandles, Handles!Spec

-----------------------------------------------------------------------------
(* Names and link counts, through the calls the shell makes.               *)

OneLink(c) == c.type # "free" => c.nlink = 1

\* The inodes of tables t and d have one link each, those outside K are not free
\* while in core, and one that is not marked has on the disk the type it has in core.
CoresKept(t, d, K) ==
    /\ DiskFree(t, d)
    /\ \A i \in Ino : OneLink(d[i])
    /\ \A s \in Slot : t[s].count # 0 =>
        /\ OneLink(t[s].core)
        /\ t[s].core.type = "free" => t[s].number \in K
        /\ ~ t[s].marked => d[t[s].number].type = t[s].core.type
    /\ t[Root].count # 0 => t[Root].number = RootIno

\* The directories outside X have "." and "..", on the disk and in core, so that
\* neither is a free name.
HasDots(e, i) == e[i][Dot] # NoEntry /\ e[i][DotDot] # NoEntry

Dotted(t, d, e, X) ==
    /\ \A i \in Ino \ X : d[i].type = "dir" => HasDots(e, i)
    /\ \A s \in Slot : t[s].count # 0 /\ t[s].core.type = "dir" /\ t[s].number \notin X =>
            HasDots(e, t[s].number)

\* Entries lead to live inodes or to those of K; those of ".." may be -1.
EntriesLead(L, e, K) ==
    \A j \in Ino, n \in Name :
        /\ e[j][n] \in {NoEntry, Stray} \cup L \cup K
        /\ e[j][n] = Stray => n = DotDot

NamedOnce(L, e, K) ==
    \A i \in L \ ({RootIno} \cup K) :
        /\ \A x, y \in NamesIn(e, i) : x = y
        /\ K = {} => NamesIn(e, i) # {}

Orderly(t, d, e, K, X) ==
    /\ CoresKept(t, d, K)
    /\ Dotted(t, d, e, X)
    /\ EntriesLead(LiveIn(t, d), e, K)
    /\ NamedOnce(LiveIn(t, d), e, K)

\* What a call of the shell remembers: it removes no name and makes no link.
ShellCall ==
    /\ stage # "erase" /\ call.mate = NoSlot /\ call.mode # "DELETE"
    /\ stage = "get" => call.target \in LiveIn(tab, dinode) \cup skipped
    /\ stage = "create" =>
        call.name \in Name \ {Dot, DotDot} /\ entry[Here.number][call.name] = NoEntry

\* The disk has the type of every inode in core, but of those in K.
Written(t, d, K) ==
    \A s \in Slot : t[s].count # 0 => t[s].number \in K \/ d[t[s].number].type = t[s].core.type

NInv ==
    /\ Orderly(tab, dinode, entry, skipped, {})
    /\ ShellCall
    /\ stage = "exit" => Written(tab, dinode, skipped)

\* An inode in core is live or in K.
LEMMA LoadedLeads ==
    ASSUME NEW t, Sound(t), NEW d, NEW K, CoresKept(t, d, K), NEW s \in Slot, t[s].count # 0
    PROVE  t[s].number \in LiveIn(t, d) \cup K
BY LiveByCore DEF CoresKept

\* Slots change in nothing that counts here.
LEMMA OrderlySlots ==
    ASSUME NEW t, NEW q, NEW d, NEW e, NEW K, NEW X, Orderly(t, d, e, K, X),
           \A u \in Slot : q[u].count # 0 <=> t[u].count # 0,
           \A u \in Slot : t[u].count # 0 =>
                /\ q[u].number = t[u].number /\ q[u].core.type = t[u].core.type
                /\ OneLink(q[u].core) /\ (t[u].marked => q[u].marked)
    PROVE  Orderly(q, d, e, K, X) /\ LiveIn(q, d) = LiveIn(t, d)
<1>1. LiveIn(q, d) = LiveIn(t, d)
  <2>1. \A i : LoadedIn(q, i) <=> LoadedIn(t, i)
    BY DEF LoadedIn
  <2> QED
    BY <2>1 DEF LiveIn
<1>2. CoresKept(q, d, K)
  BY Sizes DEF Orderly, CoresKept, DiskFree
<1>3. Dotted(q, d, e, X)
  BY DEF Orderly, Dotted
<1> QED
  BY <1>1, <1>2, <1>3 DEF Orderly

LEMMA OrderlyUnlock ==
    ASSUME NEW t, Sound(t), NEW d, NEW e, NEW K, NEW X, Orderly(t, d, e, K, X), NEW s \in Slot
    PROVE  Orderly(Prele(t, s), d, e, K, X)
<1> DEFINE q == Prele(t, s)
<1>1. /\ q[s].count = t[s].count /\ q[s].number = t[s].number /\ q[s].core = t[s].core
      /\ q[s].marked = t[s].marked
      /\ \A u \in Slot : u # s => q[u] = t[u]
  BY Unlocking
<1> HIDE DEF q
<1>2. \A u \in Slot : t[u].count # 0 => OneLink(t[u].core)
  BY DEF Orderly, CoresKept
<1>3. \A u \in Slot : q[u].count = t[u].count /\ q[u].number = t[u].number
                      /\ q[u].core = t[u].core /\ q[u].marked = t[u].marked
  BY <1>1
<1>4. Orderly(q, d, e, K, X)
  BY <1>2, <1>3, OrderlySlots
<1> QED
  BY <1>4 DEF q

LEMMA OrderlyChange ==
    ASSUME NEW t, Sound(t), NEW d, NEW e, NEW K, NEW X, Orderly(t, d, e, K, X),
           NEW s \in Slot, t[s].count # 0, NEW c \in Inode, c.type = t[s].core.type, OneLink(c)
    PROVE  Orderly(Changed(t, s, c), d, e, K, X)
<1> DEFINE q == Changed(t, s, c)
<1>1. /\ q[s].count = t[s].count /\ q[s].number = t[s].number /\ q[s].core = c /\ q[s].marked
      /\ \A u \in Slot : u # s => q[u] = t[u]
  BY Changing
<1> HIDE DEF q
<1>2. \A u \in Slot : t[u].count # 0 => OneLink(t[u].core)
  BY DEF Orderly, CoresKept
<1>3. Orderly(q, d, e, K, X)
  BY <1>1, <1>2, OrderlySlots
<1> QED
  BY <1>3 DEF q

\* The permissions of a slot change, if it is in use.
LEMMA OrderlyPermitted ==
    ASSUME NEW t, Sound(t), NEW d, NEW e, NEW K, NEW X, Orderly(t, d, e, K, X), NEW s \in Slot
    PROVE  Orderly(WithPerm(t, s), d, e, K, X)
<1>1. CASE t[s].count = 0
  BY <1>1 DEF WithPerm
<1>2. CASE t[s].count # 0
  <2> DEFINE c == [t[s].core EXCEPT !.perm = "all"]
             x == t[s]
             y == [x EXCEPT !.core = c]
             q == WithPerm(t, s)
  <2>0. t \in [Slot -> InCore] /\ x \in InCore /\ x.core \in Inode
    BY SlotFields DEF Sound
  <2>1. c.type = t[s].core.type /\ c.nlink = t[s].core.nlink
    BY <2>0 DEF Inode
  <2>2. q = [t EXCEPT ![s] = y]
    BY <1>2, <2>0 DEF WithPerm
  <2> HIDE DEF c
  <2>3. y.count = x.count /\ y.number = x.number /\ y.core = c /\ y.marked = x.marked
    BY <2>0 DEF InCore
  <2> HIDE DEF q, y
  <2>4. q[s] = y /\ \A u \in Slot : u # s => q[u] = t[u]
    BY <2>0, <2>2
  <2>5. \A u \in Slot : t[u].count # 0 => OneLink(t[u].core)
    BY DEF Orderly, CoresKept
  <2>6. Orderly(q, d, e, K, X)
    BY <2>1, <2>3, <2>4, <2>5, OrderlySlots DEF OneLink
  <2> QED
    BY <2>6 DEF q
<1> QED
  BY <1>1, <1>2

\* IGet of an inode that an entry leads to.
LEMMA OrderlyGet ==
    ASSUME NEW t, Sound(t), NEW d \in Disk, NEW e, NEW K, NEW X, Orderly(t, d, e, K, X),
           t[Root].count # 0,
           NEW i \in Ino, i \in LiveIn(t, d) \cup K, NEW s, Gets(t, i, s)
    PROVE  Orderly(Got(t, d, i, s), d, e, K, X)
<1> DEFINE g == Got(t, d, i, s)
<1>1. /\ s \in Slot
      /\ g[s].count = t[s].count + 1 /\ g[s].number = i
      /\ t[s].count # 0 => t[s].number = i
      /\ g[s].core = IF t[s].count # 0 THEN t[s].core ELSE d[i]
      /\ g[s].marked <=> (t[s].count # 0 /\ t[s].marked)
      /\ \A u \in Slot : u # s => g[u] = t[u]
      /\ t[s].count = 0 => \A u \in Slot : t[u].count # 0 => t[u].number # i
  BY Getting
<1>2. t[s].count \in Nat
  BY <1>1, SlotFields
<1> HIDE DEF g
<1>3. \A u \in Slot : t[u].count # 0 => OneLink(t[u].core)
  BY DEF Orderly, CoresKept
<1>4. CASE t[s].count # 0
  <2>1. \A u \in Slot : g[u].count # 0 <=> t[u].count # 0
    BY <1>1, <1>2, <1>4
  <2>2. Orderly(g, d, e, K, X)
    BY <1>1, <1>3, <1>4, <2>1, OrderlySlots
  <2> QED
    BY <2>2 DEF g
<1>5. CASE t[s].count = 0
  <2>1. /\ g[s].count # 0 /\ g[s].core = d[i] /\ ~ g[s].marked
        /\ ~ LoadedIn(t, i) /\ s # Root
    BY <1>1, <1>2, <1>5 DEF LoadedIn
  <2>2. LiveIn(g, d) = LiveIn(t, d)
    <3>1. \A j \in Ino : j # i => (LoadedIn(g, j) <=> LoadedIn(t, j))
      BY <1>1, <1>5 DEF LoadedIn
    <3>2. \A j \in Ino : j # i => (j \in LiveIn(g, d) <=> j \in LiveIn(t, d))
      BY <1>1, <1>5, <3>1 DEF LiveIn
    <3>3. i \in LiveIn(g, d) <=> d[i].type # "free"
      <4>1. LoadedIn(g, i)
        BY <1>1, <2>1 DEF LoadedIn
      <4>2. \A u \in Slot : g[u].count # 0 /\ g[u].number = i => u = s
        BY <1>1, <2>1 DEF LoadedIn
      <4> QED
        BY <1>1, <2>1, <4>1, <4>2 DEF LiveIn
    <3>4. i \in LiveIn(t, d) <=> d[i].type # "free"
      BY <2>1 DEF LiveIn, LoadedIn
    <3> QED
      BY <3>2, <3>3, <3>4 DEF LiveIn
  <2>3. CoresKept(g, d, K)
    <3>1. CoresKept(t, d, K)
      BY DEF Orderly
    <3>2. OneLink(d[i])
      BY <3>1 DEF CoresKept
    <3>3. d[i].type = "free" => i \in K
      BY <2>1 DEF LiveIn, LoadedIn
    <3>4. DiskFree(g, d)
      BY <1>1, <2>1, <3>1 DEF CoresKept, DiskFree
    <3>5. ASSUME NEW u \in Slot, g[u].count # 0
          PROVE  /\ OneLink(g[u].core)
                 /\ g[u].core.type = "free" => g[u].number \in K
                 /\ ~ g[u].marked => d[g[u].number].type = g[u].core.type
      <4>1. CASE u = s
        BY <1>1, <2>1, <3>2, <3>3, <4>1
      <4>2. CASE u # s
        BY <1>1, <3>1, <3>5, <4>2 DEF CoresKept
      <4> QED
        BY <4>1, <4>2
    <3>6. g[Root].count # 0 => g[Root].number = RootIno
      BY <1>1, <2>1, <3>1, Sizes DEF CoresKept
    <3> QED
      BY <3>1, <3>4, <3>5, <3>6 DEF CoresKept
  <2>4. Dotted(g, d, e, X)
    BY <1>1, <2>1 DEF Orderly, Dotted
  <2>5. Orderly(g, d, e, K, X)
    BY <2>2, <2>3, <2>4 DEF Orderly
  <2> QED
    BY <2>5 DEF g
<1> QED
  BY <1>4, <1>5

\* What IPut does to the disk inode and to the directory contents.
LEMMA PutWrites ==
    ASSUME NEW t, Sound(t), NEW s \in Slot, t[s].count # 0, NEW d \in Disk, NEW e \in Entries
    PROVE  LET n  == t[s].number
               d2 == IPutDisk(t, d, s)
               e2 == IPutEntry(t, e, s)
               p  == IPut(t, s)
           IN  /\ \A i \in Ino : i # n => d2[i] = d[i] /\ e2[i] = e[i]
               /\ p[s].count # 0 => d2 = d /\ e2 = e
               /\ t[s].core.nlink > 0 => e2 = e
               /\ p[s].count = 0 /\ t[s].core.nlink > 0 =>
                    d2[n] = IF t[s].marked THEN t[s].core ELSE d[n]
               /\ ~ (t[s].core.nlink > 0) =>
                    \/ d2[n] = Reclaimed /\ e2[n] = Empty
                    \/ d2 = d /\ e2 = e
<1> DEFINE n  == t[s].number
           c  == t[s].core
           d2 == IPutDisk(t, d, s)
           e2 == IPutEntry(t, e, s)
           p  == IPut(t, s)
<1>0. /\ t[s].count \in Nat /\ n \in Ino /\ c.nlink \in Int
      /\ d \in [Ino -> Inode] /\ e \in [Ino -> [Name -> Ino \cup {Stray, NoEntry}]]
      /\ p[s].count = t[s].count - 1
  BY SlotFields, Putting DEF Sound, Disk, Entries
<1>1. p[s].count = 0 <=> IsLast(t, s)
  BY <1>0 DEF IsLast
<1>2. CASE Dropped(t, s)
  <2>1. /\ d2 = [d EXCEPT ![n] = Reclaimed] /\ e2 = [e EXCEPT ![n] = Empty]
        /\ IsLast(t, s) /\ ~ (c.nlink > 0)
    BY <1>0, <1>2 DEF IPutDisk, IPutEntry, Dropped
  <2> HIDE DEF d2, e2, p, n, c
  <2>2. /\ d2[n] = Reclaimed /\ e2[n] = Empty
        /\ \A i \in Ino : i # n => d2[i] = d[i] /\ e2[i] = e[i]
    BY <1>0, <2>1
  <2> QED
    BY <1>1, <2>1, <2>2 DEF d2, e2, p, n, c
<1>3. CASE ~ Dropped(t, s)
  <2>1. e2 = e /\ d2 = IF IsLast(t, s) /\ t[s].marked THEN [d EXCEPT ![n] = c] ELSE d
    BY <1>3 DEF IPutDisk, IPutEntry, Dropped, IUpdate
  <2>2. ~ (c.nlink > 0) => ~ IsLast(t, s)
    BY <1>0, <1>3 DEF Dropped
  <2> HIDE DEF d2, e2, p, n, c
  <2>3. \A i \in Ino : i # n => d2[i] = d[i]
    BY <1>0, <2>1
  <2>4. IsLast(t, s) => d2[n] = IF t[s].marked THEN c ELSE d[n]
    BY <1>0, <2>1
  <2> QED
    BY <1>1, <2>1, <2>2, <2>3, <2>4 DEF d2, e2, p, n, c
<1> QED
  BY <1>2, <1>3

\* IPut frees none but an inode of K, and takes a name from none but what that one led to.
LEMMA OrderlyPut ==
    ASSUME NEW t, Sound(t), NEW s \in Slot, t[s].count # 0, NEW d \in Disk, NEW e \in Entries,
           NEW K, NEW X, Orderly(t, d, e, K, X)
    PROVE  LET p  == IPut(t, s)
               d2 == IPutDisk(t, d, s)
           IN  /\ Orderly(p, d2, IPutEntry(t, e, s), K, X)
               /\ LiveIn(p, d2) = LiveIn(t, d)
               /\ Written(t, d, K) => Written(p, d2, K)
<1> DEFINE n  == t[s].number
           c  == t[s].core
           d2 == IPutDisk(t, d, s)
           e2 == IPutEntry(t, e, s)
           p  == IPut(t, s)
<1>0. /\ Sound(p) /\ p[s].count = t[s].count - 1 /\ t[s].count \in Nat /\ n \in Ino
      /\ p[s].count # 0 => p[s].number = n /\ p[s].core = c /\ p[s].marked = t[s].marked
      /\ \A u \in Slot : u # s => p[u] = t[u]
      /\ c.nlink \in Int /\ d \in [Ino -> Inode] /\ e \in Entries
  BY SlotFields, Putting DEF Sound, Disk
<1>1. /\ \A i \in Ino : i # n => d2[i] = d[i] /\ e2[i] = e[i]
      /\ p[s].count # 0 => d2 = d /\ e2 = e
      /\ c.nlink > 0 => e2 = e
      /\ p[s].count = 0 /\ c.nlink > 0 => d2[n] = IF t[s].marked THEN c ELSE d[n]
      /\ ~ (c.nlink > 0) => (d2[n] = Reclaimed /\ e2[n] = Empty) \/ (d2 = d /\ e2 = e)
  BY PutWrites
<1>2. /\ DiskFree(p, d2)
      /\ LiveIn(p, d2) \subseteq LiveIn(t, d)
      /\ LiveIn(t, d) \ {n} \subseteq LiveIn(p, d2)
      /\ p[s].count # 0 => LiveIn(p, d2) = LiveIn(t, d)
  <2>1. DiskFree(t, d)
    BY DEF Orderly, CoresKept
  <2> QED
    BY <2>1, PutLive
<1>3. /\ \A u \in Slot : u # s /\ t[u].count # 0 => t[u].number # n /\ t[u].number \in Ino
      /\ n \in LiveIn(t, d) <=> c.type # "free"
  BY LiveByCore DEF Sound
<1>4. /\ OneLink(c) /\ (c.type = "free" => n \in K) /\ (~ t[s].marked => d[n].type = c.type)
      /\ CoresKept(t, d, K) /\ Dotted(t, d, e, X)
      /\ EntriesLead(LiveIn(t, d), e, K) /\ NamedOnce(LiveIn(t, d), e, K)
  BY DEF Orderly, CoresKept
<1>5. c.type # "free" => c.nlink > 0
  BY <1>4 DEF OneLink
<1> HIDE DEF d2, e2, p, n, c
<1>6. p[s].count = 0 /\ c.type # "free" => d2[n].type = c.type /\ d2[n] \in {c, d[n]}
  BY <1>1, <1>4, <1>5
<1>7. LiveIn(p, d2) = LiveIn(t, d)
  <2>1. CASE p[s].count # 0 \/ c.type = "free"
    BY <1>2, <1>3, <2>1
  <2>2. CASE p[s].count = 0 /\ c.type # "free"
    <3>1. ~ LoadedIn(p, n)
      BY <1>0, <1>3, <2>2 DEF LoadedIn
    <3>2. n \in LiveIn(p, d2)
      BY <1>0, <1>6, <2>2, <3>1 DEF LiveIn
    <3> QED
      BY <1>2, <3>2
  <2> QED
    BY <2>1, <2>2
<1>8. d2[n] \in {c, d[n], Reclaimed} /\ (d2[n].type = "dir" => e2[n] = e[n])
  <2>1. CASE p[s].count # 0
    BY <1>1, <2>1
  <2>2. CASE p[s].count = 0 /\ c.nlink > 0
    BY <1>1, <2>2
  <2>3. CASE ~ (c.nlink > 0)
    BY <1>1, <2>3, Kinds
  <2> QED
    BY <2>1, <2>2, <2>3
<1>9. \A u \in Slot : p[u].count # 0 =>
        /\ t[u].count # 0 /\ p[u].number = t[u].number /\ p[u].core = t[u].core
        /\ p[u].marked = t[u].marked /\ d2[p[u].number] = d[p[u].number]
        /\ e2[p[u].number] = e[p[u].number]
  <2> SUFFICES ASSUME NEW u \in Slot, p[u].count # 0
               PROVE  /\ t[u].count # 0 /\ p[u].number = t[u].number /\ p[u].core = t[u].core
                      /\ p[u].marked = t[u].marked /\ d2[p[u].number] = d[p[u].number]
                      /\ e2[p[u].number] = e[p[u].number]
    OBVIOUS
  <2>1. CASE u = s
    BY <1>0, <1>1, <2>1 DEF n, c
  <2>2. CASE u # s
    BY <1>0, <1>1, <1>3, <2>2
  <2> QED
    BY <2>1, <2>2
<1>10. CoresKept(p, d2, K)
  <2>1. ASSUME NEW i \in Ino PROVE OneLink(d2[i])
    <3>1. OneLink(Reclaimed)
      BY Kinds DEF OneLink
    <3>2. OneLink(d[i])
      BY <1>4 DEF CoresKept
    <3> QED
      BY <1>1, <1>4, <1>8, <3>1, <3>2
  <2>2. ASSUME NEW u \in Slot, p[u].count # 0
        PROVE  /\ OneLink(p[u].core)
               /\ p[u].core.type = "free" => p[u].number \in K
               /\ ~ p[u].marked => d2[p[u].number].type = p[u].core.type
    BY <1>4, <1>9, <2>2 DEF CoresKept
  <2>3. p[Root].count # 0 => p[Root].number = RootIno
    BY <1>4, <1>9, Sizes DEF CoresKept
  <2> QED
    BY <1>2, <2>1, <2>2, <2>3 DEF CoresKept
<1>11. Dotted(p, d2, e2, X)
  <2>1. ASSUME NEW i \in Ino \ X, d2[i].type = "dir" PROVE HasDots(e2, i)
    <3>1. CASE i # n
      BY <1>1, <1>4, <2>1, <3>1 DEF Dotted, HasDots
    <3>2. CASE i = n
      <4>1. e2[n] = e[n] /\ d2[n] \in {c, d[n]}
        BY <1>8, <2>1, <3>2, Kinds
      <4>2. HasDots(e, n)
        BY <1>4, <2>1, <3>2, <4>1 DEF Dotted, n, c
      <4> QED
        BY <3>2, <4>1, <4>2 DEF HasDots
    <3> QED
      BY <3>1, <3>2
  <2>2. ASSUME NEW u \in Slot, p[u].count # 0, p[u].core.type = "dir", p[u].number \notin X
        PROVE  HasDots(e2, p[u].number)
    <3>1. HasDots(e, p[u].number)
      BY <1>4, <1>9, <2>2 DEF Dotted
    <3> QED
      BY <1>9, <2>2, <3>1 DEF HasDots
  <2> QED
    BY <2>1, <2>2 DEF Dotted
<1>12. \A i \in Ino : e2[i] = e[i] \/ (e2[i] = Empty /\ n \in K)
  BY <1>1, <1>4, <1>5
<1>13. EntriesLead(LiveIn(p, d2), e2, K)
  <2> SUFFICES ASSUME NEW j \in Ino, NEW m \in Name
               PROVE  /\ e2[j][m] \in {NoEntry, Stray} \cup LiveIn(t, d) \cup K
                      /\ e2[j][m] = Stray => m = DotDot
    BY <1>7 DEF EntriesLead
  <2>1. e2[j][m] \in {e[j][m], NoEntry}
    BY <1>12 DEF Empty
  <2> QED
    BY <1>4, <2>1, Kinds DEF EntriesLead
<1>14. NamedOnce(LiveIn(p, d2), e2, K)
  <2> SUFFICES ASSUME NEW i \in LiveIn(t, d) \ ({RootIno} \cup K)
               PROVE  /\ \A x, y \in NamesIn(e2, i) : x = y
                      /\ K = {} => NamesIn(e2, i) # {}
    BY <1>7 DEF NamedOnce
  <2>1. NamesIn(e2, i) \subseteq NamesIn(e, i)
    <3> SUFFICES ASSUME NEW x \in NamesIn(e2, i) PROVE x \in NamesIn(e, i)
      OBVIOUS
    <3>1. x \in Ino \X Name /\ e2[x[1]][x[2]] = i /\ x[2] \notin {Dot, DotDot} /\ i \in Ino
      BY DEF NamesIn, LiveIn
    <3>2. e2[x[1]][x[2]] = e[x[1]][x[2]]
      BY <1>12, <3>1, Kinds DEF Empty
    <3> QED
      BY <3>1, <3>2 DEF NamesIn
  <2>2. K = {} => NamesIn(e2, i) = NamesIn(e, i)
    BY <1>12 DEF NamesIn
  <2> QED
    BY <1>4, <2>1, <2>2 DEF NamedOnce
<1>15. Written(t, d, K) => Written(p, d2, K)
  BY <1>9 DEF Written
<1> QED
  BY <1>7, <1>10, <1>11, <1>13, <1>14, <1>15 DEF Orderly, d2, e2, p

\* A free inode i comes into slot s as c and gets the name n in directory D: table t
\* becomes q and the directory contents e become f.
Adds(t, d, e, i, s, c, D, n, q, f) ==
    /\ t[Root].count # 0 /\ i \in Ino /\ i \notin LiveIn(t, d) /\ Gets(t, i, s)
    /\ c \in Inode /\ c.type # "free" /\ c.nlink = 1
    /\ D \in Ino /\ n \in Name \ {Dot, DotDot} /\ e[D][n] = NoEntry
    /\ q = Changed(Got(t, d, i, s), s, c) /\ f = [e EXCEPT ![D][n] = i]

LEMMA OrderlyNew ==
    ASSUME NEW t, Sound(t), NEW d \in Disk, NEW e \in Entries, NEW K, Orderly(t, d, e, K, {}),
           NEW i, NEW s, NEW c, NEW D, NEW n, NEW q, NEW e2, Adds(t, d, e, i, s, c, D, n, q, e2),
           NEW X, c.type = "dir" => i \in X
    PROVE  /\ Sound(q) /\ s \in Slot /\ q[s].count # 0 /\ q[s].number = i /\ q[s].core = c
           /\ \A u \in Slot : t[u].count # 0 => q[u].count # 0 /\ q[u].number = t[u].number
           /\ LiveIn(q, d) = LiveIn(t, d) \cup {i}
           /\ Orderly(q, d, e2, K, X)
<1>a. /\ t[Root].count # 0 /\ i \in Ino /\ i \notin LiveIn(t, d) /\ Gets(t, i, s)
      /\ c \in Inode /\ c.type # "free" /\ c.nlink = 1
      /\ D \in Ino /\ n \in Name \ {Dot, DotDot} /\ e[D][n] = NoEntry
      /\ q = Changed(Got(t, d, i, s), s, c) /\ e2 = [e EXCEPT ![D][n] = i]
  BY DEF Adds
<1> USE <1>a
<1> DEFINE g  == Got(t, d, i, s)
<1>0. q = Changed(g, s, c)
  OBVIOUS
<1>1. /\ s \in Slot /\ Sound(g)
      /\ g[s].count = t[s].count + 1 /\ g[s].number = i
      /\ t[s].count # 0 => t[s].number = i
      /\ \A u \in Slot : u # s => g[u] = t[u]
      /\ t[s].count = 0 => \A u \in Slot : t[u].count # 0 => t[u].number # i
  BY Getting
<1>2. t[s].count \in Nat
  BY <1>1, SlotFields
<1> HIDE DEF g
<1>3. g[s].count # 0
  BY <1>1, <1>2
<1>4. /\ Sound(q) /\ q[s].core = c /\ q[s].marked
      /\ q[s].count = g[s].count /\ q[s].number = g[s].number
      /\ \A u \in Slot : u # s => q[u] = g[u]
  BY <1>0, <1>1, <1>3, Changing
<1>5. /\ q[s].count # 0 /\ q[s].number = i /\ \A u \in Slot : u # s => q[u] = t[u]
      /\ \A u \in Slot : t[u].count # 0 => q[u].count # 0 /\ q[u].number = t[u].number
  BY <1>1, <1>3, <1>4
<1>6. /\ e2[D][n] = i
      /\ \A j \in Ino, m \in Name : j # D \/ m # n => e2[j][m] = e[j][m]
  BY DEF Entries
<1>7. /\ CoresKept(t, d, K) /\ Dotted(t, d, e, {})
      /\ EntriesLead(LiveIn(t, d), e, K) /\ NamedOnce(LiveIn(t, d), e, K)
  BY DEF Orderly
<1>8. \A u \in Slot : u # s /\ q[u].count # 0 => q[u].number # i
  BY <1>4, <1>5, <1>1 DEF Sound
<1>9. LiveIn(q, d) = LiveIn(t, d) \cup {i}
  <2>1. i \in LiveIn(q, d)
    BY <1>1, <1>4, <1>5 DEF LiveIn
  <2>2. ASSUME NEW j \in Ino, j # i PROVE j \in LiveIn(q, d) <=> j \in LiveIn(t, d)
    <3>1. \A u \in Slot : t[u].count # 0 /\ t[u].number = j <=> q[u].count # 0 /\ q[u].number = j
      BY <1>1, <1>5, <2>2
    <3>2. \A u \in Slot : q[u].count # 0 /\ q[u].number = j => q[u] = t[u]
      BY <1>5, <2>2
    <3>3. LoadedIn(q, j) <=> LoadedIn(t, j)
      BY <3>1 DEF LoadedIn
    <3> QED
      BY <3>1, <3>2, <3>3 DEF LiveIn
  <2> QED
    BY <2>1, <2>2 DEF LiveIn
<1>10. CoresKept(q, d, K)
  <2>1. DiskFree(q, d)
    BY <1>1, <1>4, <1>5, <1>7 DEF CoresKept, DiskFree
  <2>2. ASSUME NEW u \in Slot, q[u].count # 0
        PROVE  /\ OneLink(q[u].core)
               /\ q[u].core.type = "free" => q[u].number \in K
               /\ ~ q[u].marked => d[q[u].number].type = q[u].core.type
    <3>1. CASE u = s
      BY <1>4, <3>1 DEF OneLink
    <3>2. CASE u # s
      BY <1>5, <1>7, <2>2, <3>2 DEF CoresKept
    <3> QED
      BY <3>1, <3>2
  <2>3. q[Root].number = RootIno
    BY <1>5, <1>7, Sizes DEF CoresKept
  <2> QED
    BY <1>7, <2>1, <2>2, <2>3 DEF CoresKept
<1>11. Dotted(q, d, e2, X)
  <2>1. ASSUME NEW j \in Ino, HasDots(e, j) PROVE HasDots(e2, j)
    BY <1>6, <2>1, Kinds DEF HasDots
  <2>2. ASSUME NEW j \in Ino \ X, d[j].type = "dir" PROVE HasDots(e2, j)
    BY <1>7, <2>1, <2>2 DEF Dotted
  <2>3. ASSUME NEW u \in Slot, q[u].count # 0, q[u].core.type = "dir", q[u].number \notin X
        PROVE  HasDots(e2, q[u].number)
    <3>1. u # s
      BY <1>4, <1>5, <2>3
    <3>2. q[u] = t[u] /\ HasDots(e, t[u].number) /\ t[u].number \in Ino
      BY <1>5, <1>7, <2>3, <3>1 DEF Dotted, Sound
    <3> QED
      BY <2>1, <3>2
  <2> QED
    BY <2>2, <2>3 DEF Dotted
<1>12. EntriesLead(LiveIn(q, d), e2, K)
  <2> SUFFICES ASSUME NEW j \in Ino, NEW m \in Name
               PROVE  /\ e2[j][m] \in {NoEntry, Stray} \cup (LiveIn(t, d) \cup {i}) \cup K
                      /\ e2[j][m] = Stray => m = DotDot
    BY <1>9 DEF EntriesLead
  <2>1. e2[j][m] = i \/ e2[j][m] = e[j][m]
    BY <1>6
  <2> QED
    BY <1>7, <2>1, Kinds DEF EntriesLead
<1>13. NamedOnce(LiveIn(q, d), e2, K)
  <2> SUFFICES ASSUME NEW j \in (LiveIn(t, d) \cup {i}) \ ({RootIno} \cup K)
               PROVE  /\ \A x, y \in NamesIn(e2, j) : x = y
                      /\ K = {} => NamesIn(e2, j) # {}
    BY <1>9 DEF NamedOnce
  <2>0. j \in Ino /\ j # NoEntry /\ j # Stray
    BY Kinds DEF LiveIn
  <2>1. CASE j = i
    <3>1. ASSUME NEW x \in NamesIn(e2, j) PROVE x = <<D, n>>
      <4>1. x \in Ino \X Name /\ e2[x[1]][x[2]] = i /\ x = <<x[1], x[2]>>
        BY <2>1, <3>1 DEF NamesIn
      <4>2. e[x[1]][x[2]] # i
        BY <1>7, <2>0, <2>1, <4>1 DEF EntriesLead
      <4> QED
        BY <1>6, <4>1, <4>2
    <3>2. <<D, n>> \in NamesIn(e2, j)
      BY <1>6, <2>1 DEF NamesIn
    <3> QED
      BY <3>1, <3>2
  <2>2. CASE j # i
    <3>1. ASSUME NEW x \in Ino \X Name
          PROVE  e2[x[1]][x[2]] = j <=> e[x[1]][x[2]] = j
      BY <1>6, <2>0, <2>2
    <3>2. NamesIn(e2, j) = NamesIn(e, j)
      BY <3>1 DEF NamesIn
    <3> QED
      BY <1>7, <2>2, <3>2 DEF NamedOnce
  <2> QED
    BY <2>1, <2>2
<1>14. Orderly(q, d, e2, K, X)
  BY <1>10, <1>11, <1>12, <1>13 DEF Orderly
<1> QED
  BY <1>1, <1>4, <1>5, <1>9, <1>14

\* mkdir writes the entries "." and ".." of a new directory.
LEMMA OrderlyDots ==
    ASSUME NEW t, Sound(t), NEW d, NEW e \in Entries, NEW K, NEW i \in Ino,
           Orderly(t, d, e, K, {i}),
           i \in LiveIn(t, d) \cup K, NEW v, v \in {Stray} \cup LiveIn(t, d) \cup K, v # NoEntry
    PROVE  Orderly(t, d, [e EXCEPT ![i][Dot] = i, ![i][DotDot] = v], K, {})
<1> DEFINE a  == [e EXCEPT ![i][Dot] = i]
           e2 == [e EXCEPT ![i][Dot] = i, ![i][DotDot] = v]
<1>1. /\ a[i][Dot] = i /\ \A j \in Ino, m \in Name : j # i \/ m # Dot => a[j][m] = e[j][m]
      /\ DOMAIN a = Ino /\ \A j \in Ino : DOMAIN a[j] = Name
  BY Kinds DEF Entries
<1>2. e2 = [a EXCEPT ![i][DotDot] = v]
  OBVIOUS
<1> HIDE DEF a, e2
<1>3. /\ e2[i][DotDot] = v /\ e2[i][Dot] = i
      /\ \A j \in Ino, m \in Name : j # i \/ m \notin {Dot, DotDot} => e2[j][m] = e[j][m]
  BY <1>1, <1>2, Kinds
<1>4. /\ CoresKept(t, d, K) /\ Dotted(t, d, e, {i})
      /\ EntriesLead(LiveIn(t, d), e, K) /\ NamedOnce(LiveIn(t, d), e, K)
  BY DEF Orderly
<1>5. Dotted(t, d, e2, {})
  <2>1. HasDots(e2, i)
    BY <1>3, Kinds DEF HasDots
  <2>2. ASSUME NEW j \in Ino, j # i, HasDots(e, j) PROVE HasDots(e2, j)
    BY <1>3, <2>2, Kinds DEF HasDots
  <2>3. \A s \in Slot : t[s].count # 0 => t[s].number \in Ino
    BY DEF Sound
  <2> QED
    BY <1>4, <2>1, <2>2, <2>3 DEF Dotted
<1>6. EntriesLead(LiveIn(t, d), e2, K)
  <2> SUFFICES ASSUME NEW j \in Ino, NEW m \in Name
               PROVE  /\ e2[j][m] \in {NoEntry, Stray} \cup LiveIn(t, d) \cup K
                      /\ e2[j][m] = Stray => m = DotDot
    BY DEF EntriesLead
  <2>1. \/ e2[j][m] = e[j][m]
        \/ e2[j][m] = i
        \/ m = DotDot /\ e2[j][m] = v
    BY <1>3
  <2> QED
    BY <1>4, <2>1, Kinds DEF EntriesLead
<1>7. NamedOnce(LiveIn(t, d), e2, K)
  <2>1. ASSUME NEW j PROVE NamesIn(e2, j) = NamesIn(e, j)
    BY <1>3 DEF NamesIn
  <2> QED
    BY <1>4, <2>1 DEF NamedOnce
<1> QED
  BY <1>4, <1>5, <1>6, <1>7 DEF Orderly, e2

\* Tables t, d and e are in order, with what exit has left out so far.
InOrder(t, d, e) ==
    /\ Sound(t) /\ d \in Disk /\ e \in Entries
    /\ Orderly(t, d, e, skipped, {})

LEMMA PutInOrder ==
    ASSUME NEW t, NEW d, NEW e, InOrder(t, d, e), NEW s \in Slot, t[s].count # 0
    PROVE  LET p  == IPut(t, s)
               d2 == IPutDisk(t, d, s)
           IN  /\ InOrder(p, d2, IPutEntry(t, e, s))
               /\ LiveIn(p, d2) = LiveIn(t, d)
               /\ Written(t, d, skipped) => Written(p, d2, skipped)
<1> DEFINE K == skipped
           X == {}
           p == IPut(t, s)
           d2 == IPutDisk(t, d, s)
           e2 == IPutEntry(t, e, s)
<1>1. Sound(t) /\ d \in Disk /\ e \in Entries /\ Orderly(t, d, e, K, X)
  BY DEF InOrder
<1> HIDE DEF K, X
<1>2. /\ Orderly(p, d2, e2, K, X)
      /\ LiveIn(p, d2) = LiveIn(t, d)
      /\ Written(t, d, K) => Written(p, d2, K)
  BY <1>1, OrderlyPut
<1>3. Sound(p) /\ d2 \in Disk /\ e2 \in Entries
  BY <1>1, Putting, PutTypes
<1> QED
  BY <1>2, <1>3 DEF InOrder, K, X

LEMMA UnlockInOrder ==
    ASSUME NEW t, NEW d, NEW e, InOrder(t, d, e), NEW s \in Slot
    PROVE  InOrder(Prele(t, s), d, e) /\ Prele(t, s)[s].count = t[s].count
<1> DEFINE K == skipped
           X == {}
           q == Prele(t, s)
<1>1. Sound(t) /\ d \in Disk /\ e \in Entries /\ Orderly(t, d, e, K, X)
  BY DEF InOrder
<1> HIDE DEF K, X
<1>2. Sound(q) /\ q[s].count = t[s].count /\ Orderly(q, d, e, K, X)
  BY <1>1, Unlocking, OrderlyUnlock
<1> QED
  BY <1>1, <1>2 DEF InOrder, K, X

LEMMA ChangeInOrder ==
    ASSUME NEW t, NEW d, NEW e, InOrder(t, d, e), NEW s \in Slot, t[s].count # 0,
           NEW c \in Inode, c.type = t[s].core.type, OneLink(c)
    PROVE  LET q == Changed(t, s, c)
           IN  /\ InOrder(q, d, e)
               /\ \A u \in Slot : q[u].count = t[u].count /\ q[u].number = t[u].number
<1> DEFINE K == skipped
           X == {}
           q == Changed(t, s, c)
<1>1. Sound(t) /\ d \in Disk /\ e \in Entries /\ Orderly(t, d, e, K, X)
  BY DEF InOrder
<1> HIDE DEF K, X
<1>2. /\ Sound(q) /\ q[s].count = t[s].count /\ q[s].number = t[s].number
      /\ \A u \in Slot : u # s => q[u] = t[u]
  BY <1>1, Changing
<1>3. Orderly(q, d, e, K, X)
  BY <1>1, OrderlyChange
<1> HIDE DEF q
<1>4. \A u \in Slot : q[u].count = t[u].count /\ q[u].number = t[u].number
  BY <1>2
<1> QED
  BY <1>1, <1>2, <1>3, <1>4 DEF InOrder, K, X, q

LEMMA GetInOrder ==
    ASSUME NEW t, NEW d, NEW e, InOrder(t, d, e), t[Root].count # 0,
           NEW i \in Ino, i \in LiveIn(t, d) \cup skipped, NEW s, Gets(t, i, s)
    PROVE  InOrder(Got(t, d, i, s), d, e) /\ s \in Slot /\ Got(t, d, i, s)[s].count # 0
<1> DEFINE K == skipped
           X == {}
           g == Got(t, d, i, s)
<1>1. Sound(t) /\ d \in Disk /\ e \in Entries /\ Orderly(t, d, e, K, X)
      /\ i \in LiveIn(t, d) \cup K
  BY DEF InOrder
<1> HIDE DEF K, X
<1>2. Sound(g) /\ s \in Slot /\ g[s].count = t[s].count + 1
  BY <1>1, Getting
<1>3. t[s].count \in Nat
  BY <1>1, <1>2, SlotFields
<1>4. Orderly(g, d, e, K, X)
  BY <1>1, OrderlyGet
<1> HIDE DEF g
<1>5. g[s].count # 0
  BY <1>2, <1>3
<1> QED
  BY <1>1, <1>2, <1>4, <1>5 DEF InOrder, K, X, g

LEMMA PermittedInOrder ==
    ASSUME TypeOK, NEW t, NEW a, NEW b, NEW L, Held(t, a, b, L), NEW d, NEW e, InOrder(t, d, e),
           NEW s \in Slot
    PROVE  /\ InOrder(WithPerm(t, s), d, e) /\ Held(WithPerm(t, s), a, b, L)
           /\ WithPerm(t, s)[s].count = t[s].count
<1> DEFINE K == skipped
           X == {}
           q == WithPerm(t, s)
<1>1. Sound(t) /\ d \in Disk /\ e \in Entries /\ Orderly(t, d, e, K, X)
  BY DEF InOrder
<1> HIDE DEF K, X
<1>2. Orderly(q, d, e, K, X)
  BY <1>1, OrderlyPermitted
<1>3. Held(q, a, b, L) /\ \A u \in Slot : q[u].count = t[u].count
  BY HeldPermitted
<1> HIDE DEF q
<1>4. Sound(q)
  BY <1>3 DEF Held
<1> QED
  BY <1>1, <1>2, <1>3, <1>4 DEF InOrder, K, X, q

-----------------------------------------------------------------------------
(* How a step ends.                                                        *)

LEMMA OrderGoesOn ==
    ASSUME NEW t, NEW d, NEW e, InOrder(t, d, e), TableIs(t, d, e), skipped' = skipped,
           stage' # "exit", ShellCall'
    PROVE  NInv'
<1> DEFINE X == {}
<1>1. Orderly(t, d, e, skipped, X) /\ tab' = t /\ dinode' = d /\ entry' = e
  BY DEF InOrder, TableIs
<1>2. Orderly(tab', dinode', entry', skipped', X)
  BY <1>1
<1>3. Orderly(tab, dinode, entry, skipped, {})'
  BY <1>2 DEF Orderly, CoresKept, DiskFree, OneLink, Dotted, HasDots, EntriesLead, NamedOnce,
              NamesIn, LiveIn, LoadedIn
<1> QED
  BY <1>3 DEF NInv

LEMMA OrderDone ==
    ASSUME NEW t, NEW d, NEW e, InOrder(t, d, e), TableIs(t, d, e), skipped' = skipped, Done
    PROVE  NInv'
<1>1. stage' = "idle" /\ call' = NoCall
  BY DEF Done
<1>2. ShellCall'
  BY <1>1 DEF ShellCall, NoCall
<1> QED
  BY <1>1, <1>2, OrderGoesOn

LEMMA OrderPutDone ==
    ASSUME NEW t, NEW d, NEW e, InOrder(t, d, e), NEW s \in Slot, t[s].count # 0,
           PutIs(t, d, e, s), skipped' = skipped, Done
    PROVE  NInv'
<1> DEFINE p  == IPut(t, s)
           d2 == IPutDisk(t, d, s)
           e2 == IPutEntry(t, e, s)
<1>1. InOrder(p, d2, e2) /\ TableIs(p, d2, e2)
  BY PutInOrder DEF PutIs
<1> HIDE DEF p, d2, e2
<1> QED
  BY <1>1, OrderDone

LEMMA OrderOpenedDone ==
    ASSUME NEW t, NEW d, NEW e, InOrder(t, d, e), NEW s \in Slot, t[s].count # 0,
           Opened(t, d, e, s), skipped' = skipped, Done
    PROVE  NInv'
<1> DEFINE q == Prele(t, s)
<1>1. InOrder(q, d, e) /\ q[s].count # 0
  BY UnlockInOrder
<1>2. PutIs(q, d, e, s) \/ TableIs(q, d, e)
  BY DEF Opened
<1> HIDE DEF q
<1> QED
  BY <1>1, <1>2, OrderPutDone, OrderDone

\* The process dies, or a step leaves the tables alone.
LEMMA OrderSame ==
    ASSUME NInv, UNCHANGED <<tab, dinode, entry>>, skipped' = skipped, stage' # "exit", ShellCall'
    PROVE  NInv'
BY DEF NInv, Orderly, CoresKept, DiskFree, OneLink, Dotted, HasDots, EntriesLead, NamedOnce,
       NamesIn, LiveIn, LoadedIn

LEMMA OrderDies == ASSUME NInv, Dies PROVE NInv'
<1>1. stage' = "dead" /\ UNCHANGED <<tab, dinode, entry, cur, call, skipped>>
  BY DEF Dies, table, history
<1>2. ShellCall'
  BY <1>1 DEF NInv, ShellCall
<1> QED
  BY <1>1, <1>2, OrderSame

LEMMA OrderNow == ASSUME HInv, NInv PROVE InOrder(tab, dinode, entry)
BY DEF HInv, IInv, TypeOK, NInv, InOrder, Disk, Entries

LEMMA OrderHere ==
    ASSUME HInv, NInv, stage \in {"search", "create"}
    PROVE  /\ TypeOK /\ InOrder(tab, dinode, entry) /\ call.mate = NoSlot /\ call.mode # "DELETE"
           /\ cur \in Slot /\ Held(tab, cur, NoSlot, {cur})
           /\ tab[cur].count # 0 /\ tab[cur].core \in Inode /\ tab[cur].number \in Ino
           /\ tab[Root].count # 0 /\ OneLink(tab[cur].core)
           /\ tab[cur].number \in LiveIn(tab, dinode) \cup skipped
<1>1. /\ TypeOK /\ cur \in Slot /\ Held(tab, cur, call.mate, {cur}) /\ Sound(tab)
      /\ tab[cur].count # 0 /\ tab[cur].core \in Inode
  BY HereFacts
<1>2. call.mate = NoSlot /\ call.mode # "DELETE"
  BY DEF NInv, ShellCall
<1>3. InOrder(tab, dinode, entry)
  BY OrderNow
<1>4. tab[Root].count # 0
  BY <1>1, HeldCounts, BaseCounts, Sizes
<1>5. CoresKept(tab, dinode, skipped)
  BY DEF NInv, Orderly
<1>6. tab[cur].number \in LiveIn(tab, dinode) \cup skipped
  BY <1>1, <1>5, LoadedLeads
<1>7. OneLink(tab[cur].core) /\ tab[cur].number \in Ino
  BY <1>1, <1>5 DEF CoresKept, Sound
<1> QED
  BY <1>1, <1>2, <1>3, <1>4, <1>6, <1>7

-----------------------------------------------------------------------------
(* The steps of a search.                                                  *)

LEMMA FailedOrder ==
    ASSUME NEW t, InOrder(t, dinode, entry), cur \in Slot, t[cur].count # 0,
           call.mate = NoSlot, FailedWith(t)
    PROVE  NInv'
<1>1. PutIs(t, dinode, entry, cur) /\ Done /\ skipped' = skipped
  BY DEF FailedWith, Balanced
<1> QED
  BY <1>1, OrderPutDone

LEMMA EnterOrder == ASSUME HInv, NInv, Enter PROVE NInv'
<1>1. /\ TypeOK /\ Held(tab, NoSlot, call.mate, {}) /\ cur \in {Root, cdir} /\ cur \in Slot
      /\ stage = "enter" /\ Gets(tab, Here.number, cur)
      /\ call.mate = NoSlot /\ call.mode # "DELETE"
  BY Sizes DEF HInv, IInv, TypeOK, CallOK, HeldSlot, HeldLock, Enter, NInv, ShellCall
<1>2. tab[cur].count # 0 /\ tab[Root].count # 0
  BY <1>1, HeldCounts, BaseCounts, Sizes
<1> DEFINE i == Here.number
           t == Got(tab, dinode, i, cur)
<1>3. i \in Ino /\ i \in LiveIn(tab, dinode) \cup skipped
  <2>1. CoresKept(tab, dinode, skipped) /\ Sound(tab)
    BY DEF HInv, IInv, NInv, Orderly
  <2> QED
    BY <1>1, <1>2, <2>1, LoadedLeads DEF Here, Sound
<1>4. InOrder(tab, dinode, entry)
  BY OrderNow
<1>5. Gets(tab, i, cur)
  BY <1>1
<1>6. \/ FailedWith(t)
      \/ tab' = t /\ stage' = "search" /\ UNCHANGED <<dinode, entry, files, cdir, cur, call, history>>
  BY DEF Enter
<1> HIDE DEF i
<1>7. InOrder(t, dinode, entry) /\ t[cur].count # 0
  BY <1>2, <1>3, <1>4, <1>5, GetInOrder
<1> HIDE DEF t
<1>8. CASE FailedWith(t)
  BY <1>1, <1>7, <1>8, FailedOrder
<1>9. CASE tab' = t /\ stage' = "search" /\ UNCHANGED <<dinode, entry, files, cdir, cur, call, history>>
  <2>1. ShellCall'
    BY <1>1, <1>9 DEF ShellCall
  <2>2. TableIs(t, dinode, entry) /\ skipped' = skipped
    BY <1>9 DEF TableIs, history
  <2> QED
    BY <1>7, <1>9, <2>1, <2>2, OrderGoesOn
<1> QED
  BY <1>6, <1>8, <1>9

LEMMA SearchFailsOrder == ASSUME HInv, NInv, SearchRefused \/ SearchMissed PROVE NInv'
<1>1. stage = "search" /\ FailedWith(tab)
  BY DEF SearchRefused, SearchMissed, Searching, Failed
<1> QED
  BY <1>1, OrderHere, FailedOrder

\* The name to create is neither "." nor "..": every directory has both.
LEMMA AbsentOrder == ASSUME HInv, NInv, NEW n \in Name, SearchAbsent(n) PROVE NInv'
<1>1. /\ stage = "search" /\ stage' = "create" /\ Usable /\ Dir[n] = NoEntry
      /\ call' = [call EXCEPT !.left = 0, !.name = n]
      /\ tab' \in {tab, Changed(tab, cur, Here.core)}
      /\ UNCHANGED <<dinode, entry, files, cdir, cur, history>>
  BY DEF SearchAbsent, Searching
<1>2. /\ InOrder(tab, dinode, entry) /\ call.mate = NoSlot /\ call.mode # "DELETE"
      /\ cur \in Slot /\ tab[cur].count # 0 /\ tab[cur].core \in Inode
      /\ OneLink(tab[cur].core) /\ call \in Call
  BY <1>1, OrderHere DEF TypeOK
<1>3. InOrder(tab', dinode, entry) /\ tab'[cur].number = tab[cur].number
  <2>1. CASE tab' = tab
    BY <1>2, <2>1
  <2>2. CASE tab' = Changed(tab, cur, Here.core)
    <3> DEFINE c == tab[cur].core
    <3>1. tab' = Changed(tab, cur, c)
      BY <2>2 DEF Here
    <3>2. c \in Inode /\ c.type = tab[cur].core.type /\ OneLink(c)
      BY <1>2
    <3> HIDE DEF c
    <3> QED
      BY <1>2, <3>1, <3>2, ChangeInOrder
  <2> QED
    BY <1>1, <2>1, <2>2
<1>4. n \notin {Dot, DotDot}
  <2>1. HasDots(entry, tab[cur].number)
    BY <1>1, <1>2 DEF NInv, Orderly, Dotted, Usable, Here
  <2> QED
    BY <1>1, <2>1 DEF HasDots, Dir, Here
<1>5. call'.name = n /\ call'.mate = call.mate /\ call'.mode = call.mode
  BY <1>1, <1>2 DEF Call
<1>6. entry'[tab'[cur'].number][n] = NoEntry
  BY <1>1, <1>3 DEF Dir, Here
<1>7. ShellCall'
  BY <1>1, <1>2, <1>4, <1>5, <1>6 DEF ShellCall, Here
<1>8. TableIs(tab', dinode, entry) /\ skipped' = skipped
  BY <1>1 DEF TableIs, history
<1> QED
  BY <1>1, <1>3, <1>7, <1>8, OrderGoesOn

LEMMA MatchesOrder == ASSUME HInv, NInv, NEW n \in Name, SearchMatches(n) PROVE NInv'
<1> DEFINE p  == IPut(tab, cur)
           d2 == IPutDisk(tab, dinode, cur)
           e2 == IPutEntry(tab, entry, cur)
<1>1. /\ stage = "search" /\ stage' = "get" /\ Dir[n] \in Ino
      /\ call' = [call EXCEPT !.left = @ - 1, !.target = Dir[n]]
      /\ TableIs(p, d2, e2) /\ skipped' = skipped
  BY DEF SearchMatches, Searching, PutIs, Balanced
<1>2. /\ InOrder(tab, dinode, entry) /\ call.mate = NoSlot /\ call.mode # "DELETE"
      /\ cur \in Slot /\ tab[cur].count # 0 /\ call \in Call /\ tab[cur].number \in Ino
  BY <1>1, OrderHere DEF TypeOK
<1>3. InOrder(p, d2, e2) /\ LiveIn(p, d2) = LiveIn(tab, dinode)
  BY <1>2, PutInOrder
<1>4. Dir[n] \in LiveIn(tab, dinode) \cup skipped
  <2>1. entry[tab[cur].number][n] \in {NoEntry, Stray} \cup LiveIn(tab, dinode) \cup skipped
    BY <1>2 DEF NInv, Orderly, EntriesLead
  <2> QED
    BY <1>1, <2>1, Kinds DEF Dir, Here
<1> HIDE DEF p, d2, e2
<1>5. call'.target = Dir[n] /\ call'.mate = call.mate /\ call'.mode = call.mode
  BY <1>1, <1>2 DEF Call
<1>6. LiveIn(tab, dinode)' = LiveIn(tab, dinode)
  <2>1. LiveIn(tab', dinode') = LiveIn(tab, dinode)
    BY <1>1, <1>3 DEF TableIs
  <2> QED
    BY <2>1 DEF LiveIn, LoadedIn
<1>7. ShellCall'
  BY <1>1, <1>2, <1>4, <1>5, <1>6 DEF ShellCall
<1> QED
  BY <1>1, <1>3, <1>7, OrderGoesOn

LEMMA GetOrder == ASSUME HInv, NInv, Get PROVE NInv'
<1> DEFINE i == call.target
<1>1. PICK s \in Slot : Gets(tab, i, s) /\ tab' = Got(tab, dinode, i, s) /\ cur' = s
  BY DEF Get
<1>2. /\ stage = "get" /\ stage' = "search" /\ call' = [call EXCEPT !.target = NoEntry]
      /\ UNCHANGED <<dinode, entry, files, cdir, history>>
  BY DEF Get
<1>3. /\ i \in Ino /\ i \in LiveIn(tab, dinode) \cup skipped /\ call \in Call
      /\ call.mate = NoSlot /\ call.mode # "DELETE" /\ TypeOK /\ Held(tab, NoSlot, call.mate, {})
  BY <1>2 DEF HInv, IInv, TypeOK, CallOK, HeldSlot, HeldLock, NInv, ShellCall
<1>4. tab[Root].count # 0
  BY <1>3, HeldCounts, BaseCounts, Sizes
<1>5. InOrder(tab, dinode, entry)
  BY OrderNow
<1>6. call'.mate = NoSlot /\ call'.mode # "DELETE"
  BY <1>2, <1>3 DEF Call
<1> HIDE DEF i
<1>7. InOrder(tab', dinode, entry)
  BY <1>1, <1>3, <1>4, <1>5, GetInOrder
<1>8. ShellCall'
  BY <1>2, <1>6 DEF ShellCall
<1>9. TableIs(tab', dinode, entry) /\ skipped' = skipped
  BY <1>2 DEF TableIs, history
<1> QED
  BY <1>2, <1>7, <1>8, <1>9, OrderGoesOn

-----------------------------------------------------------------------------
(* The steps that end a call which has found its name.                     *)

LEMMA OpenOrder == ASSUME HInv, NInv, Open \/ OpenToRead PROVE NInv'
<1>1. /\ stage = "search" /\ Done /\ skipped' = skipped
      /\ Opened(tab, dinode, entry, cur) \/ PutIs(tab, dinode, entry, cur)
  BY DEF Open, OpenToRead, Found, Balanced
<1>2. InOrder(tab, dinode, entry) /\ cur \in Slot /\ tab[cur].count # 0
  BY <1>1, OrderHere
<1> QED
  BY <1>1, <1>2, OrderOpenedDone, OrderPutDone

\* Creat's change of permissions of a slot it has given back.
LEMMA PermittedOrder ==
    ASSUME TypeOK, cur \in Slot, NEW t, NEW L, Held(t, cur, NoSlot, L),
           InOrder(t, dinode, entry), t[cur].count # 0,
           TableIs(WithPerm(IPut(t, cur), cur), IPutDisk(t, dinode, cur), IPutEntry(t, entry, cur)),
           skipped' = skipped, Done
    PROVE  NInv'
<1> DEFINE p  == IPut(t, cur)
           d2 == IPutDisk(t, dinode, cur)
           e2 == IPutEntry(t, entry, cur)
           q  == WithPerm(p, cur)
<1>1. Held(p, NoSlot, NoSlot, L \ {cur})
  BY HeldPut
<1>2. InOrder(p, d2, e2)
  BY PutInOrder
<1>3. TableIs(q, d2, e2)
  OBVIOUS
<1> HIDE DEF p, d2, e2
<1>4. InOrder(q, d2, e2)
  BY <1>1, <1>2, PermittedInOrder
<1> HIDE DEF q
<1> QED
  BY <1>3, <1>4, OrderDone

LEMMA CreatFoundOrder == ASSUME HInv, NInv, CreatFound PROVE NInv'
<1> DEFINE c == [Here.core EXCEPT !.nlink = 1]
           truncated == Changed(tab, cur, c)
           unlocked  == Prele(truncated, cur)
<1>1. stage = "search" /\ Done /\ skipped' = skipped
  BY DEF CreatFound, Found, Balanced
<1>2. /\ TypeOK /\ InOrder(tab, dinode, entry) /\ cur \in Slot /\ Held(tab, cur, NoSlot, {cur})
      /\ tab[cur].count # 0 /\ tab[cur].core \in Inode
  BY <1>1, OrderHere
<1>3. CASE Here.core.type = "dir"
  <2>1. TableIs(WithPerm(IPut(tab, cur), cur), IPutDisk(tab, dinode, cur),
                IPutEntry(tab, entry, cur))
    BY <1>3 DEF CreatFound
  <2> QED
    BY <1>1, <1>2, <2>1, PermittedOrder
<1>4. CASE Here.core.type # "dir"
  <2>1. \/ TableIs(WithPerm(IPut(unlocked, cur), cur), IPutDisk(unlocked, dinode, cur),
                   IPutEntry(unlocked, entry, cur))
        \/ Opened(WithPerm(truncated, cur), dinode, entry, cur)
    BY <1>4 DEF CreatFound
  <2>2. c \in Inode /\ c.type = tab[cur].core.type /\ OneLink(c)
    <3>1. c.nlink = 1
      BY <1>2 DEF Here, Inode
    <3> QED
      BY <1>2, <3>1, CoreFields DEF Here, OneLink
  <2> HIDE DEF c
  <2>3. /\ Held(truncated, cur, NoSlot, {cur}) /\ InOrder(truncated, dinode, entry)
        /\ truncated[cur].count # 0
    BY <1>2, <2>2, HeldChange, ChangeInOrder
  <2> HIDE DEF truncated
  <2>4. CASE Opened(WithPerm(truncated, cur), dinode, entry, cur)
    <3> DEFINE q == WithPerm(truncated, cur)
    <3>1. InOrder(q, dinode, entry) /\ q[cur].count # 0
      BY <1>2, <2>3, PermittedInOrder
    <3>2. Opened(q, dinode, entry, cur)
      BY <2>4
    <3> HIDE DEF q
    <3> QED
      BY <1>1, <1>2, <3>1, <3>2, OrderOpenedDone
  <2>5. CASE TableIs(WithPerm(IPut(unlocked, cur), cur), IPutDisk(unlocked, dinode, cur),
                     IPutEntry(unlocked, entry, cur))
    <3>1. /\ Held(unlocked, cur, NoSlot, {cur} \ {cur}) /\ InOrder(unlocked, dinode, entry)
          /\ unlocked[cur].count # 0
      BY <1>2, <2>3, HeldUnlock, UnlockInOrder
    <3> HIDE DEF unlocked
    <3> QED
      BY <1>1, <1>2, <2>5, <3>1, PermittedOrder
  <2> QED
    BY <2>1, <2>4, <2>5
<1> QED
  BY <1>3, <1>4

LEMMA MkdirFoundOrder == ASSUME HInv, NInv, MkdirFound PROVE NInv'
<1>1. /\ stage = "search" /\ Done /\ skipped' = skipped /\ TableIs(tab, dinode, entry)
  BY DEF MkdirFound, Found, Leaves, table, TableIs
<1> QED
  BY <1>1, OrderHere, OrderDone

LEMMA ChDirOrder == ASSUME HInv, NInv, ChDir PROVE NInv'
<1> DEFINE p  == IPut(tab, cdir)
           d2 == IPutDisk(tab, dinode, cdir)
           e2 == IPutEntry(tab, entry, cdir)
           q  == Prele(p, cur)
<1>1. /\ stage = "search" /\ Done /\ skipped' = skipped
      /\ PutIs(tab, dinode, entry, cur) \/ TableIs(q, d2, e2)
  BY DEF ChDir, Found, Balanced
<1>2. /\ TypeOK /\ InOrder(tab, dinode, entry) /\ cur \in Slot /\ Held(tab, cur, NoSlot, {cur})
      /\ tab[cur].count # 0
  BY <1>1, OrderHere
<1>3. cdir \in Slot /\ tab[cdir].count # 0
  BY <1>2, HeldCounts, BaseCounts DEF TypeOK
<1>4. InOrder(p, d2, e2)
  BY <1>2, <1>3, PutInOrder
<1> HIDE DEF p, d2, e2
<1>5. InOrder(q, d2, e2)
  BY <1>2, <1>4, UnlockInOrder
<1> HIDE DEF q
<1> QED
  BY <1>1, <1>2, <1>5, OrderPutDone, OrderDone

-----------------------------------------------------------------------------
(* The steps that make a file or a directory.                              *)

LEMMA FreeIsNotLive ==
    ASSUME Sound(tab), NEW i \in FreeInode
    PROVE  i \in Ino /\ i \notin LiveIn(tab, dinode)
BY LiveIsLiveIn DEF FreeInode, Live

LEMMA MakNodeOrder ==
    ASSUME HInv, NInv, stage = "create", NEW i \in FreeInode, NEW s \in Slot, Gets(tab, i, s),
           NEW c \in Inode, c.type # "free", c.nlink = 1, NEW X, c.type = "dir" => i \in X
    PROVE  LET t == MakNodeTab(i, s, c)
               d == MakNodeDisk(i, s, c)
               e == MakNodeEntry(i, s, c)
           IN  /\ Sound(t) /\ d \in Disk /\ e \in Entries /\ t[s].count # 0
               /\ i \in LiveIn(t, d) /\ Orderly(t, d, e, skipped, X)
<1> DEFINE q  == Changed(Got(tab, dinode, i, s), s, c)
           D  == Here.number
           n  == call.name
           e1 == [entry EXCEPT ![D][n] = i]
           a  == q[cur].core
           k  == Changed(q, cur, a)
           K  == skipped
           Y  == {}
<1>1. /\ TypeOK /\ InOrder(tab, dinode, entry) /\ call.mate = NoSlot
      /\ cur \in Slot /\ Held(tab, cur, NoSlot, {cur})
      /\ tab[cur].count # 0 /\ D \in Ino /\ tab[Root].count # 0
  BY OrderHere DEF Here
<1>2. i \in Ino /\ i \notin LiveIn(tab, dinode)
  BY <1>1, FreeIsNotLive DEF InOrder
<1>3. n \in Name \ {Dot, DotDot} /\ entry[D][n] = NoEntry
  BY DEF NInv, ShellCall
<1>4. /\ Sound(tab) /\ dinode \in Disk /\ entry \in Entries /\ Orderly(tab, dinode, entry, K, Y)
  BY <1>1 DEF InOrder
<1>5. e1 = WriteDir(i) /\ k = Allocated(i, s, c) /\ e1 \in Entries
  BY <1>1, <1>2, <1>4 DEF WriteDir, Allocated, ChangedByWrite, Entries
<1>6. /\ MakNodeDisk(i, s, c) \in Disk /\ MakNodeEntry(i, s, c) \in Entries
      /\ MakNodeTab(i, s, c)[s].count # 0
  <2>1. IInv
    BY DEF HInv
  <2>2. /\ \E L \in SUBSET {s} : Held(MakNodeTab(i, s, c), s, NoSlot, L)
        /\ MakNodeDisk(i, s, c) \in Disk /\ MakNodeEntry(i, s, c) \in Entries
    BY <1>1, <1>2, <2>1, MakNodeHeld
  <2> QED
    BY <1>1, <2>2, HeldCounts
<1>7. MakNodeTab(i, s, c) = IPut(k, cur) /\ MakNodeDisk(i, s, c) = IPutDisk(k, dinode, cur)
      /\ MakNodeEntry(i, s, c) = IPutEntry(k, e1, cur)
  BY <1>5 DEF MakNodeTab, MakNodeDisk, MakNodeEntry
<1> HIDE DEF D, n, K, Y
<1>8. /\ Sound(q) /\ q[s].count # 0 /\ q[s].number = i /\ q[s].core = c
      /\ \A u \in Slot : tab[u].count # 0 => q[u].count # 0 /\ q[u].number = tab[u].number
      /\ LiveIn(q, dinode) = LiveIn(tab, dinode) \cup {i}
      /\ Orderly(q, dinode, e1, K, X)
  <2>1. Orderly(tab, dinode, entry, K, {})
    BY <1>4 DEF Y
  <2> HIDE DEF a, k
  <2>2. Adds(tab, dinode, entry, i, s, c, D, n, q, e1)
    BY <1>1, <1>2, <1>3 DEF Adds
  <2> HIDE DEF q, e1
  <2> QED
    BY <1>4, <2>1, <2>2, OrderlyNew
<1> HIDE DEF q, e1
<1>9. q[cur].count # 0 /\ a \in Inode /\ a.type = q[cur].core.type /\ OneLink(a)
  <2>1. q[cur].count # 0
    BY <1>1, <1>8
  <2>2. a \in Inode
    BY <1>1, <1>8, SlotFields
  <2> QED
    BY <1>1, <1>8, <2>1, <2>2 DEF Orderly, CoresKept
<1> HIDE DEF a
<1>10. /\ Sound(k) /\ k[cur].core = a /\ k[cur].count = q[cur].count
       /\ k[cur].number = q[cur].number
       /\ \A u \in Slot : u # cur => k[u] = q[u]
  BY <1>1, <1>8, <1>9, Changing
<1>11. Orderly(k, dinode, e1, K, X)
  BY <1>1, <1>8, <1>9, OrderlyChange
<1> HIDE DEF k
<1>12. k[cur].count # 0
  BY <1>9, <1>10
<1>13. /\ Orderly(IPut(k, cur), IPutDisk(k, dinode, cur), IPutEntry(k, e1, cur), K, X)
       /\ LiveIn(IPut(k, cur), IPutDisk(k, dinode, cur)) = LiveIn(k, dinode)
       /\ Sound(IPut(k, cur))
  BY <1>1, <1>4, <1>5, <1>10, <1>11, <1>12, OrderlyPut, Putting
<1>14. i \in LiveIn(k, dinode)
  <2>1. k[s].core.type # "free" /\ k[s].count # 0 /\ k[s].number = i
    BY <1>8, <1>9, <1>10
  <2> QED
    BY <1>10, <2>1, LiveByCore
<1> QED
  BY <1>6, <1>7, <1>13, <1>14 DEF K

LEMMA CreatNewOrder ==
    ASSUME HInv, NInv, NEW i \in FreeInode, NEW s \in Slot, CreatNew(i, s) PROVE NInv'
<1> DEFINE t == MakNodeTab(i, s, NewFile)
           d == MakNodeDisk(i, s, NewFile)
           e == MakNodeEntry(i, s, NewFile)
           X == {}
<1>1. /\ stage = "create" /\ Gets(tab, i, s) /\ Opened(t, d, e, s) /\ Done /\ skipped' = skipped
  BY DEF CreatNew, Fresh, Balanced
<1>2. NewFile \in Inode /\ NewFile.type = "file" /\ NewFile.nlink = 1
  BY NewInodes DEF NewFile
<1>3. X = {}
  OBVIOUS
<1> HIDE DEF X
<1>4. /\ Sound(t) /\ d \in Disk /\ e \in Entries /\ t[s].count # 0
      /\ Orderly(t, d, e, skipped, X)
  BY <1>1, <1>2, MakNodeOrder
<1> HIDE DEF t, d, e
<1>5. InOrder(t, d, e)
  BY <1>3, <1>4 DEF InOrder
<1> QED
  BY <1>1, <1>4, <1>5, OrderOpenedDone

\* The number in ".." is that of a directory in core, or -1 when none is left there.
LEMMA MkdirNewOrder ==
    ASSUME HInv, NInv, NEW i \in FreeInode, NEW s \in Slot, MkdirNew(i, s) PROVE NInv'
<1> DEFINE t == MakNodeTab(i, s, NewDir)
           d == MakNodeDisk(i, s, NewDir)
           e == MakNodeEntry(i, s, NewDir)
           v == t[cur].number
           w == [e EXCEPT ![i][Dot] = i, ![i][DotDot] = v]
           X == {i}
           K == skipped
<1>1. /\ stage = "create" /\ Gets(tab, i, s) /\ TableIs(Prele(t, s), d, w) /\ Done
      /\ skipped' = skipped
  BY DEF MkdirNew, Fresh
<1>2. NewDir \in Inode /\ NewDir.type = "dir" /\ NewDir.nlink = 1
  BY NewInodes DEF NewDir
<1>3. /\ Sound(t) /\ d \in Disk /\ e \in Entries /\ t[s].count # 0 /\ i \in LiveIn(t, d)
      /\ Orderly(t, d, e, K, X)
  <2> HIDE DEF K
  <2>1. i \in X
    OBVIOUS
  <2> HIDE DEF X
  <2> QED
    BY <1>1, <1>2, <2>1, MakNodeOrder DEF K
<1>4. i \in Ino /\ cur \in Slot
  BY <1>1, OrderHere DEF FreeInode
<1> HIDE DEF t, d, e, K
<1>5. v \in {Stray} \cup LiveIn(t, d) \cup K /\ v # NoEntry /\ v \in Ino \cup {Stray}
  <2>1. CASE t[cur].count = 0
    BY <1>3, <1>4, <2>1, Kinds DEF Sound, FreeSlot
  <2>2. CASE t[cur].count # 0
    <3>1. v \in LiveIn(t, d) \cup K
      BY <1>3, <1>4, <2>2, LoadedLeads DEF Orderly
    <3> QED
      BY <1>3, <1>4, <2>2, <3>1, Kinds DEF Sound
  <2> QED
    BY <2>1, <2>2
<1> HIDE DEF v
<1>6. Orderly(t, d, w, K, {})
  BY <1>3, <1>4, <1>5, OrderlyDots
<1>7. w \in Entries
  <2> DEFINE a == [e EXCEPT ![i][Dot] = i]
  <2>1. a \in Entries
    BY <1>3, <1>4, Kinds DEF Entries
  <2>2. w = [a EXCEPT ![i][DotDot] = v]
    OBVIOUS
  <2> HIDE DEF a, w
  <2> QED
    BY <1>4, <1>5, <2>1, <2>2, Kinds DEF Entries
<1> HIDE DEF w
<1>8. InOrder(t, d, w)
  BY <1>3, <1>6, <1>7 DEF InOrder, K
<1>9. InOrder(Prele(t, s), d, w)
  BY <1>8, UnlockInOrder
<1> QED
  BY <1>1, <1>9, OrderDone

-----------------------------------------------------------------------------
(* Calls on a descriptor, exit and the next session.                       *)

LEMMA BeginOrder ==
    ASSUME NInv, Calls \subseteq ShellCalls, NEW m \in SearchMode, Begin(m) PROVE NInv'
<1>1. /\ stage' = "enter" /\ UNCHANGED <<tab, dinode, entry>> /\ skipped' = skipped
      /\ \E n \in 0 .. MaxPath : call' = [NoCall EXCEPT !.mode = m, !.left = n]
  BY DEF Begin, table, history
<1>2. m # "DELETE"
  BY DEF Begin, CallOf, SearchMode, ShellCalls
<1>3. call'.mate = NoSlot /\ call'.mode = m
  BY <1>1 DEF NoCall
<1>4. ShellCall'
  BY <1>1, <1>2, <1>3 DEF ShellCall
<1> QED
  BY <1>1, <1>4, OrderSame

LEMMA ClosingOrder ==
    ASSUME HInv, NInv, NEW fd \in FD, ofile[fd] # NoFile, stage \in {"idle", "exit"},
           Closed(fd), UNCHANGED <<stage, call>>
    PROVE  NInv'
<1> DEFINE s  == file[ofile[fd]].inode
           p  == IPut(tab, s)
           d2 == IPutDisk(tab, dinode, s)
           e2 == IPutEntry(tab, entry, s)
           X  == {}
<1>1. /\ stage' = stage /\ call' = call /\ cur' = cur /\ skipped' = skipped
      /\ (TableIs(p, d2, e2) \/ TableIs(tab, dinode, entry))
  BY DEF Closed, Balanced, PutIs, TableIs, table
<1>2. s \in Slot /\ tab[s].count # 0
  BY UsedIsLoaded DEF UsedFact, HInv, UsedSlot
<1>3. InOrder(tab, dinode, entry)
  BY OrderNow
<1> HIDE DEF s
<1>4. InOrder(p, d2, e2) /\ (Written(tab, dinode, skipped) => Written(p, d2, skipped))
  BY <1>2, <1>3, PutInOrder
<1> HIDE DEF p, d2, e2
<1>5. PICK t, d, e : /\ TableIs(t, d, e) /\ InOrder(t, d, e)
                     /\ Written(tab, dinode, skipped) => Written(t, d, skipped)
  BY <1>1, <1>3, <1>4
<1>6. ShellCall'
  BY <1>1 DEF ShellCall, NInv
<1>7. Orderly(tab', dinode', entry', skipped', X)
  BY <1>1, <1>5 DEF InOrder, TableIs
<1>8. Orderly(tab, dinode, entry, skipped, {})'
  BY <1>7 DEF Orderly, CoresKept, DiskFree, OneLink, Dotted, HasDots, EntriesLead, NamedOnce,
              NamesIn, LiveIn, LoadedIn
<1>9. stage' = "exit" => Written(tab, dinode, skipped)'
  <2>1. stage' = "exit" => Written(tab', dinode', skipped')
    BY <1>1, <1>5 DEF NInv, TableIs
  <2> QED
    BY <2>1 DEF Written
<1> QED
  BY <1>6, <1>8, <1>9 DEF NInv

LEMMA RdwrOrder == ASSUME NInv, NEW fd \in FD, Rdwr(fd) PROVE NInv'
<1>1. /\ stage' = "lock" /\ UNCHANGED <<tab, dinode, entry, call>> /\ skipped' = skipped
  BY DEF Rdwr, table, history
<1>2. ShellCall'
  BY <1>1 DEF ShellCall, NInv
<1> QED
  BY <1>1, <1>2, OrderSame

LEMMA RdwrLockedOrder == ASSUME HInv, NInv, RdwrLocked PROVE NInv'
<1> DEFINE c == tab[cur].core
<1>1. /\ Done /\ skipped' = skipped /\ UNCHANGED <<dinode, entry>>
      /\ tab' \in {tab, Changed(tab, cur, c)} /\ stage = "lock"
  BY DEF RdwrLocked, history, ChangedByWrite
<1>2. cur \in Slot /\ tab[cur].count # 0 /\ InOrder(tab, dinode, entry)
  BY <1>1, OrderNow DEF HInv, IInv, CallOK
<1>3. c \in Inode /\ c.type = tab[cur].core.type /\ OneLink(c)
  BY <1>2, SlotFields DEF InOrder, Orderly, CoresKept
<1> HIDE DEF c
<1>4. InOrder(tab', dinode, entry)
  BY <1>1, <1>2, <1>3, ChangeInOrder
<1>5. TableIs(tab', dinode, entry)
  BY <1>1 DEF TableIs
<1> QED
  BY <1>1, <1>4, <1>5, OrderDone

\* What exit writes: every inode in core is on the disk by its type, but those that
\* are locked, marked and different there.
LEMMA ExitWrites ==
    ASSUME HInv, NInv, stage = "idle"
    PROVE  LET d == UpdateInodeTable(tab, dinode)
           IN  /\ \A i \in Ino :
                    \/ d[i] = dinode[i]
                    \/ \E s \in Slot : tab[s].count # 0 /\ tab[s].number = i /\ d[i] = tab[s].core
               /\ \A s \in Slot : tab[s].count # 0 =>
                    \/ d[tab[s].number] = tab[s].core
                    \/ ~ tab[s].marked /\ d[tab[s].number] = dinode[tab[s].number]
                    \/ s \in stuck /\ tab[s].locked
<1> DEFINE d == UpdateInodeTable(tab, dinode)
           W(i) == {s \in IsLoaded(tab, i) : ~tab[s].locked /\ tab[s].marked}
<1>0. Sound(tab)
  BY DEF HInv, IInv
<1>1. \A i \in Ino : d[i] = IF W(i) = {} THEN dinode[i] ELSE tab[CHOOSE s \in W(i) : TRUE].core
  BY DEF UpdateInodeTable
<1>2. ASSUME NEW i \in Ino, W(i) # {}
      PROVE  \E s \in Slot : tab[s].count # 0 /\ tab[s].number = i /\ d[i] = tab[s].core
  <2> DEFINE s == CHOOSE u \in W(i) : TRUE
  <2>1. s \in W(i)
    BY <1>2
  <2>2. d[i] = tab[s].core
    BY <1>1, <1>2
  <2> HIDE DEF s, d
  <2> QED
    BY <2>1, <2>2 DEF IsLoaded
<1>3. \A s \in Slot : tab[s].locked => s \in stuck
  BY DEF HInv, IInv, Held, HeldLock
<1> HIDE DEF d
<1>4. ASSUME NEW s \in Slot, tab[s].count # 0
      PROVE  \/ d[tab[s].number] = tab[s].core
             \/ ~ tab[s].marked /\ d[tab[s].number] = dinode[tab[s].number]
             \/ s \in stuck /\ tab[s].locked
  <2> DEFINE i == tab[s].number
  <2>1. i \in Ino /\ \A u \in Slot : tab[u].count # 0 /\ tab[u].number = i => u = s
    BY <1>0, <1>4 DEF Sound
  <2>2. CASE W(i) # {}
    BY <1>2, <2>1, <2>2
  <2>3. CASE W(i) = {}
    <3>1. d[i] = dinode[i]
      BY <1>1, <2>1, <2>3
    <3>2. s \notin W(i) /\ s \in IsLoaded(tab, i)
      BY <1>4, <2>3 DEF IsLoaded
    <3>3. tab[s].locked \/ ~ tab[s].marked
      BY <3>2
    <3> QED
      BY <1>3, <3>1, <3>3
  <2> QED
    BY <2>2, <2>3
<1>5. \A i \in Ino :
        \/ d[i] = dinode[i]
        \/ \E s \in Slot : tab[s].count # 0 /\ tab[s].number = i /\ d[i] = tab[s].core
  BY <1>1, <1>2
<1> QED
  BY <1>4, <1>5 DEF d

LEMMA ExitOrder == ASSUME HInv, NInv, Exit PROVE NInv'
<1> DEFINE d == UpdateInodeTable(tab, dinode)
           K == skipped
           Q == skipped'
           X == {}
<1>1. /\ stage = "idle" /\ stage' = "exit" /\ UNCHANGED <<tab, entry, cur, call>> /\ dinode' = d
      /\ Q = K \cup {tab[s].number : s \in {u \in stuck :
                            tab[u].locked /\ tab[u].core # d[tab[u].number]}}
  BY DEF Exit
<1>2. /\ \A i \in Ino :
            \/ d[i] = dinode[i]
            \/ \E s \in Slot : tab[s].count # 0 /\ tab[s].number = i /\ d[i] = tab[s].core
      /\ \A s \in Slot : tab[s].count # 0 =>
            \/ d[tab[s].number] = tab[s].core
            \/ ~ tab[s].marked /\ d[tab[s].number] = dinode[tab[s].number]
            \/ s \in stuck /\ tab[s].locked
  BY <1>1, ExitWrites
<1>3. DiskFree(tab, d) /\ LiveIn(tab, d) = LiveIn(tab, dinode)
  BY LivesUpdate DEF Lives
<1>4. /\ CoresKept(tab, dinode, K) /\ Dotted(tab, dinode, entry, X)
      /\ EntriesLead(LiveIn(tab, dinode), entry, K) /\ NamedOnce(LiveIn(tab, dinode), entry, K)
      /\ Sound(tab)
  BY DEF HInv, IInv, NInv, Orderly
<1> HIDE DEF d, K, Q, X
<1>5. K \subseteq Q
  BY <1>1
<1>6. ASSUME NEW s \in Slot, tab[s].count # 0
      PROVE  tab[s].number \in Q \/ d[tab[s].number].type = tab[s].core.type
  <2>1. s \in stuck /\ tab[s].locked => d[tab[s].number] = tab[s].core \/ tab[s].number \in Q
    BY <1>1
  <2> QED
    BY <1>2, <1>4, <1>6, <2>1 DEF CoresKept
<1>7. CoresKept(tab, d, Q)
  <2>1. \A i \in Ino : OneLink(d[i])
    BY <1>2, <1>4 DEF CoresKept
  <2>2. ASSUME NEW s \in Slot, tab[s].count # 0, ~ tab[s].marked
        PROVE  d[tab[s].number].type = tab[s].core.type
    <3>1. tab[s].number \in Ino /\ dinode[tab[s].number].type = tab[s].core.type
      BY <1>4, <2>2 DEF CoresKept, Sound
    <3>2. \A u \in Slot : tab[u].count # 0 /\ tab[u].number = tab[s].number => u = s
      BY <1>4, <2>2 DEF Sound
    <3> QED
      BY <1>2, <3>1, <3>2
  <2> QED
    BY <1>3, <1>4, <1>5, <2>1, <2>2 DEF CoresKept
<1>8. Dotted(tab, d, entry, X)
  <2>1. ASSUME NEW i \in Ino \ X, d[i].type = "dir" PROVE HasDots(entry, i)
    BY <1>2, <1>4, <2>1 DEF Dotted
  <2> QED
    BY <1>4, <2>1 DEF Dotted
<1>9. EntriesLead(LiveIn(tab, d), entry, Q)
  BY <1>3, <1>4, <1>5 DEF EntriesLead
<1>10. NamedOnce(LiveIn(tab, d), entry, Q)
  BY <1>3, <1>4, <1>5 DEF NamedOnce
<1>11. Orderly(tab', dinode', entry', skipped', X)
  BY <1>1, <1>7, <1>8, <1>9, <1>10 DEF Orderly, Q
<1>12. Orderly(tab, dinode, entry, skipped, {})'
  BY <1>11 DEF Orderly, CoresKept, DiskFree, OneLink, Dotted, HasDots, EntriesLead, NamedOnce,
               NamesIn, LiveIn, LoadedIn, X
<1>13. Written(tab, dinode, skipped)'
  BY <1>1, <1>6 DEF Written, Q
<1>14. ShellCall'
  BY <1>1 DEF ShellCall, NInv
<1> QED
  BY <1>12, <1>13, <1>14 DEF NInv

\* A session begins with what the last one has left on the disk.
LEMMA OrderlyStart ==
    ASSUME NEW t, Sound(t), NEW d \in Disk, NEW e, NEW K, NEW X, Orderly(t, d, e, K, X),
           Written(t, d, K), t[Root].count # 0
    PROVE  Orderly(StartTab(d), d, e, K, X)
<1> DEFINE q == StartTab(d)
<1>1. /\ q[Root].number = RootIno /\ q[Root].count = 2 /\ ~ q[Root].marked
      /\ q[Root].core = d[RootIno]
      /\ \A u \in Slot : u # Root => q[u].count = 0
  BY Sizes, Kinds DEF StartTab
<1>2. /\ CoresKept(t, d, K) /\ Dotted(t, d, e, X)
      /\ EntriesLead(LiveIn(t, d), e, K) /\ NamedOnce(LiveIn(t, d), e, K)
  BY DEF Orderly
<1>3. \A u \in Slot : q[u].count # 0 => u = Root
  BY <1>1
<1> HIDE DEF q
<1>4. \A i \in Ino : i \in LiveIn(q, d) <=> d[i].type # "free"
  <2>1. \A i \in Ino : LoadedIn(q, i) <=> i = RootIno
    BY <1>1, <1>3, Sizes, Kinds DEF LoadedIn
  <2> QED
    BY <1>1, <1>3, <2>1, Sizes, Kinds DEF LiveIn
<1>5. ASSUME NEW i \in Ino \ K PROVE i \in LiveIn(t, d) <=> d[i].type # "free"
  <2>1. CASE LoadedIn(t, i)
    <3>1. PICK s \in Slot : t[s].count # 0 /\ t[s].number = i
      BY <2>1 DEF LoadedIn
    <3>2. d[i].type = t[s].core.type
      BY <3>1 DEF Written
    <3> QED
      BY <3>1, <3>2, LiveByCore
  <2>2. CASE ~ LoadedIn(t, i)
    BY <2>2 DEF LiveIn, LoadedIn
  <2> QED
    BY <2>1, <2>2
<1>6. LiveIn(t, d) \subseteq LiveIn(q, d) \cup K /\ LiveIn(q, d) \ K \subseteq LiveIn(t, d)
  BY <1>4, <1>5 DEF LiveIn
<1>7. CoresKept(q, d, K)
  <2>1. d[RootIno].type = "free" => RootIno \in K
    <3>1. t[Root].number = RootIno /\ Root \in Slot
      BY <1>2, Sizes DEF CoresKept
    <3>2. t[Root].core.type = "free" => RootIno \in K
      BY <1>2, <3>1 DEF CoresKept
    <3>3. RootIno \in K \/ d[RootIno].type = t[Root].core.type
      BY <3>1 DEF Written
    <3> QED
      BY <3>2, <3>3
  <2>2. DiskFree(q, d)
    BY <1>1, <1>3 DEF DiskFree
  <2> QED
    BY <1>1, <1>2, <1>3, <2>1, <2>2, Kinds DEF CoresKept
<1>8. Dotted(q, d, e, X)
  BY <1>1, <1>2, <1>3, Kinds DEF Dotted
<1>9. EntriesLead(LiveIn(q, d), e, K)
  BY <1>2, <1>6 DEF EntriesLead
<1>10. NamedOnce(LiveIn(q, d), e, K)
  BY <1>2, <1>6 DEF NamedOnce
<1> QED
  BY <1>7, <1>8, <1>9, <1>10 DEF Orderly, q

LEMMA RestartOrder == ASSUME HInv, NInv, Restart PROVE NInv'
<1> DEFINE X == {}
<1>1. /\ stage = "exit" /\ tab' = StartTab(dinode) /\ Done /\ skipped' = skipped
      /\ UNCHANGED <<dinode, entry>>
  BY DEF Restart
<1>2. InOrder(tab, dinode, entry) /\ Written(tab, dinode, skipped)
  BY <1>1, OrderNow DEF NInv
<1>3. tab[Root].count # 0
  <2>1. TypeOK /\ Held(tab, NoSlot, NoSlot, {})
    BY <1>1, IdleFacts DEF HInv
  <2> QED
    BY <2>1, HeldCounts, BaseCounts, Sizes
<1>4. Sound(tab) /\ dinode \in Disk /\ entry \in Entries /\ Orderly(tab, dinode, entry, skipped, X)
  BY <1>2 DEF InOrder
<1> HIDE DEF X
<1>5. Orderly(StartTab(dinode), dinode, entry, skipped, X)
  BY <1>2, <1>3, <1>4, OrderlyStart
<1>6. InOrder(tab', dinode, entry)
  BY <1>1, <1>4, <1>5, StartTable DEF InOrder, X
<1>7. TableIs(tab', dinode, entry)
  BY <1>1 DEF TableIs
<1> QED
  BY <1>1, <1>6, <1>7, OrderDone

-----------------------------------------------------------------------------
(* Every step, and the volume that Format leaves.                          *)

LEMMA OverflowsOrder ==
    ASSUME HInv, NInv, NEW i \in FreeInode, MakNodeOverflows(i) PROVE NInv'
<1>1. CASE Dies
  BY <1>1, OrderDies
<1>2. CASE ~ Dies
  <2>1. stage = "create" /\ Leaves(cur) /\ Done /\ UNCHANGED table
    BY <1>2 DEF MakNodeOverflows, Fresh
  <2>2. skipped' = skipped /\ TableIs(tab, dinode, entry)
    BY <2>1 DEF Leaves, table, TableIs
  <2> QED
    BY <2>1, <2>2, OrderNow, OrderDone
<1> QED
  BY <1>1, <1>2

\* The calls that the shell does not make.
LEMMA ShellMakesNo ==
    ASSUME NInv, Calls \subseteq ShellCalls
    PROVE  /\ ~ LinkFirst /\ ~ LinkExists /\ ~ LinkNew /\ ~ MkNodFound /\ ~ ChMod /\ ~ Stat
           /\ ~ UnlinkFails /\ ~ Update
           /\ \A s \in Slot : ~ Unlink(s)
           /\ \A n \in Name : ~ SearchVictim(n)
           /\ \A i, s : ~ MkNodNew(i, s)
           /\ \A fd \in FD : ~ Dup(fd) /\ ~ FStat(fd)
<1>1. /\ "link" \notin Calls /\ "mknod" \notin Calls /\ "chmod" \notin Calls
      /\ "stat" \notin Calls /\ "update" \notin Calls /\ "dup" \notin Calls /\ "fstat" \notin Calls
  BY DEF ShellCalls
<1>2. stage # "erase" /\ call.mate = NoSlot /\ call.mode # "DELETE"
  BY DEF NInv, ShellCall
<1>3. ~ LinkFirst /\ ~ MkNodFound /\ ~ ChMod /\ ~ Stat /\ \A i, s : ~ MkNodNew(i, s)
  BY <1>1 DEF LinkFirst, MkNodFound, ChMod, Stat, MkNodNew, Found, Fresh
<1>4. ~ LinkExists /\ ~ LinkNew
  BY <1>2 DEF LinkExists, LinkNew
<1>5. ~ UnlinkFails /\ (\A s \in Slot : ~ Unlink(s)) /\ \A n \in Name : ~ SearchVictim(n)
  BY <1>2 DEF UnlinkFails, Unlink, SearchVictim, Deleting
<1>6. ~ Update /\ \A fd \in FD : ~ Dup(fd) /\ ~ FStat(fd)
  BY <1>1 DEF Update, Dup, FStat, FdCalled
<1> QED
  BY <1>3, <1>4, <1>5, <1>6

LEMMA RestOrder == ASSUME HInv, NInv, Calls \subseteq ShellCalls, Rest PROVE NInv'
<1>1. CASE MakNodeExhausted
  BY <1>1, OrderDies DEF MakNodeExhausted
<1>2. ASSUME NEW i \in FreeInode, MakNodeOverflows(i) PROVE NInv'
  BY <1>2, OverflowsOrder
<1>3. ASSUME NEW i \in FreeInode, NEW s \in Slot, CreatNew(i, s) \/ MkdirNew(i, s) PROVE NInv'
  BY <1>3, CreatNewOrder, MkdirNewOrder
<1>4. \/ Open \/ OpenToRead \/ CreatFound \/ MkdirFound \/ ChDir \/ RdwrLocked
      \/ MakNodeExhausted
      \/ \E i \in FreeInode :
            \/ \E s \in Slot : CreatNew(i, s) \/ MkdirNew(i, s)
            \/ MakNodeOverflows(i)
  BY ShellMakesNo DEF Rest
<1> QED
  BY <1>1, <1>2, <1>3, <1>4, OpenOrder, CreatFoundOrder, MkdirFoundOrder, ChDirOrder,
     RdwrLockedOrder

LEMMA ProceedOrder == ASSUME HInv, NInv, Calls \subseteq ShellCalls, Proceed PROVE NInv'
<1>1. CASE NameI
  <2>1. CASE GetFails
    BY <2>1, OrderDies DEF GetFails
  <2>2. ASSUME NEW n \in Name, SearchAbsent(n) \/ SearchVictim(n) \/ SearchMatches(n) PROVE NInv'
    BY <2>2, AbsentOrder, MatchesOrder, ShellMakesNo
  <2> QED
    BY <1>1, <2>1, <2>2, EnterOrder, SearchFailsOrder, GetOrder DEF NameI
<1>2. CASE ExitClose
  <2> DEFINE S  == {fd \in FD : ofile[fd] # NoFile}
             fd == Lowest(S)
  <2>1. stage = "exit" /\ S # {} /\ Closed(fd) /\ UNCHANGED <<stage, call>>
    BY <1>2 DEF ExitClose
  <2>2. fd \in S
    <3>1. S \in SUBSET Nat
      BY Sizes
    <3> HIDE DEF S
    <3> QED
      BY <2>1, <3>1, LowestIn
  <2>3. fd \in FD /\ ofile[fd] # NoFile
    BY <2>2
  <2> HIDE DEF fd
  <2> QED
    BY <2>1, <2>3, ClosingOrder
<1> QED
  BY <1>1, <1>2, RestOrder, RestartOrder DEF Proceed

LEMMA StepNInv == Calls \subseteq ShellCalls /\ HInv /\ NInv /\ [Next]_vars => NInv'
<1> SUFFICES ASSUME Calls \subseteq ShellCalls, HInv, NInv, [Next]_vars PROVE NInv'
  OBVIOUS
<1>1. ASSUME NEW m \in SearchMode, Begin(m) PROVE NInv'
  BY <1>1, BeginOrder
<1>2. ASSUME NEW fd \in FD, Close(fd) \/ Dup(fd) \/ FStat(fd) \/ Rdwr(fd) PROVE NInv'
  <2>1. CASE Close(fd)
    BY <2>1, ClosingOrder DEF Close, FdCalled
  <2>2. CASE Rdwr(fd)
    BY <2>2, RdwrOrder
  <2> QED
    BY <1>2, <2>1, <2>2, ShellMakesNo
<1>3. CASE UNCHANGED vars
  <2>1. UNCHANGED <<tab, dinode, entry, stage, cur, call, skipped>>
    BY <1>3 DEF vars, table, history
  <2>2. Orderly(tab, dinode, entry, skipped, {})'
    BY <2>1 DEF NInv, Orderly, CoresKept, DiskFree, OneLink, Dotted, HasDots, EntriesLead,
                NamedOnce, NamesIn, LiveIn, LoadedIn
  <2>3. ShellCall' /\ (stage = "exit" => Written(tab, dinode, skipped))'
    BY <2>1 DEF NInv, ShellCall, Here, LiveIn, LoadedIn, Written
  <2> QED
    BY <2>2, <2>3 DEF NInv
<1> QED
  BY <1>1, <1>2, <1>3, ProceedOrder, ExitOrder, ShellMakesNo DEF Next

\* Format gives each directory it makes a name of its own.
SubDistinct == \A m, n \in DOMAIN Sub : Sub[m] = Sub[n] => m = n

\* The volume as Format leaves it.
LEMMA FormatKinds ==
    \A i \in Ino :
        /\ i \in {RootIno} \cup SubDir =>
            FormatDinode[i].type = "dir" /\ FormatDinode[i].nlink = 1
        /\ i \notin {RootIno} \cup SubDir => FormatDinode[i].type = "free"
BY Kinds DEF FormatDinode

LEMMA FormatNames ==
    /\ \A i \in Ino \ ({RootIno} \cup SubDir), n \in Name : FormatEntry[i][n] = NoEntry
    /\ \A i \in SubDir \ {RootIno}, n \in Name :
            FormatEntry[i][n] = IF n = Dot THEN i ELSE IF n = DotDot THEN RootIno ELSE NoEntry
    /\ \A n \in Name :
            FormatEntry[RootIno][n] = IF n \in {Dot, DotDot} THEN RootIno
                                      ELSE IF n \in DOMAIN Sub THEN Sub[n] ELSE NoEntry
<1>1. ASSUME NEW i \in Ino \ ({RootIno} \cup SubDir), NEW n \in Name
      PROVE  FormatEntry[i][n] = NoEntry
  BY DEF FormatEntry, Empty
<1>2. ASSUME NEW i \in SubDir \ {RootIno}, NEW n \in Name
      PROVE  FormatEntry[i][n] = IF n = Dot THEN i ELSE IF n = DotDot THEN RootIno ELSE NoEntry
  <2>1. i \in Ino
    BY SubAssumption DEF SubDir
  <2>2. FormatEntry[i] = [Empty EXCEPT ![Dot] = i, ![DotDot] = RootIno]
    BY <2>1 DEF FormatEntry
  <2> QED
    BY <2>2, Kinds DEF Empty
<1>3. ASSUME NEW n \in Name
      PROVE  FormatEntry[RootIno][n] = IF n \in {Dot, DotDot} THEN RootIno
                                       ELSE IF n \in DOMAIN Sub THEN Sub[n] ELSE NoEntry
  BY Kinds DEF FormatEntry
<1> QED
  BY <1>1, <1>2, <1>3

LEMMA InitNInv == SubDistinct /\ Init => NInv
<1> SUFFICES ASSUME SubDistinct, Init PROVE NInv
  OBVIOUS
<1> DEFINE t == StartTab(FormatDinode)
           d == FormatDinode
           e == FormatEntry
           X == {}
           L == LiveIn(t, d)
<1>1. /\ tab = t /\ dinode = d /\ entry = e /\ skipped = X /\ stage = "idle" /\ call = NoCall
      /\ d \in Disk /\ e \in Entries
  BY FormatTypes DEF Init
<1>2. /\ t[Root].number = RootIno /\ t[Root].count = 2 /\ ~ t[Root].marked
      /\ t[Root].core = d[RootIno]
      /\ \A u \in Slot : u # Root => t[u].count = 0
  BY Sizes, Kinds DEF StartTab
<1>3. \A i \in SubDir : i \in Ino /\ i # RootIno /\ \E n \in DOMAIN Sub : Sub[n] = i
  BY SubAssumption DEF SubDir
<1>4. \A n \in DOMAIN Sub : n \in Name /\ n \notin {Dot, DotDot} /\ Sub[n] \in SubDir
  BY SubAssumption DEF SubDir
<1> HIDE DEF t, X
<1>5. L = {RootIno} \cup SubDir
  <2>1. \A i \in Ino : LoadedIn(t, i) <=> i = RootIno
    BY <1>2, Sizes, Kinds DEF LoadedIn
  <2>2. \A i \in Ino : i \in L <=> d[i].type # "free"
    BY <1>2, <2>1, Sizes, Kinds DEF LiveIn
  <2>3. \A i \in Ino : i \in L <=> i \in {RootIno} \cup SubDir
    BY <2>2, FormatKinds
  <2> QED
    BY <1>3, <2>3, Kinds DEF LiveIn
<1>6. /\ \A i \in Ino \ L, n \in Name : e[i][n] = NoEntry
      /\ \A i \in SubDir, n \in Name :
            e[i][n] = IF n = Dot THEN i ELSE IF n = DotDot THEN RootIno ELSE NoEntry
      /\ \A n \in Name : e[RootIno][n] = IF n \in {Dot, DotDot} THEN RootIno
                                         ELSE IF n \in DOMAIN Sub THEN Sub[n] ELSE NoEntry
  BY <1>3, <1>5, FormatNames
<1>7. CoresKept(t, d, X)
  <2>1. DiskFree(t, d)
    BY <1>2 DEF DiskFree
  <2>2. \A i \in Ino : OneLink(d[i])
    BY FormatKinds DEF OneLink
  <2>3. d[RootIno].type # "free"
    BY FormatKinds, Kinds
  <2> QED
    BY <1>2, <2>1, <2>2, <2>3, Kinds DEF CoresKept
<1>8. Dotted(t, d, e, X)
  <2>1. \A i \in L : HasDots(e, i)
    BY <1>3, <1>5, <1>6, Kinds DEF HasDots
  <2>2. \A i \in Ino : d[i].type = "dir" => i \in L
    BY <1>5, FormatKinds
  <2> QED
    BY <1>2, <1>5, <2>1, <2>2 DEF Dotted
<1>9. EntriesLead(L, e, X)
  <2>1. ASSUME NEW j \in Ino, NEW n \in Name
        PROVE  e[j][n] \in {NoEntry} \cup L
    BY <1>3, <1>4, <1>5, <1>6
  <2> QED
    BY <1>3, <1>5, <2>1, Kinds DEF EntriesLead
<1>10. NamedOnce(L, e, X)
  <2>1. ASSUME NEW i \in SubDir, NEW x \in NamesIn(e, i)
        PROVE  x[1] = RootIno /\ x[2] \in DOMAIN Sub /\ Sub[x[2]] = i /\ x = <<x[1], x[2]>>
    <3>1. /\ x \in Ino \X Name /\ e[x[1]][x[2]] = i /\ x[2] \notin {Dot, DotDot}
      BY DEF NamesIn
    <3>2. i # NoEntry
      BY <1>3, Kinds
    <3> QED
      BY <1>5, <1>6, <3>1, <3>2
  <2>2. ASSUME NEW i \in SubDir, NEW x \in NamesIn(e, i), NEW y \in NamesIn(e, i) PROVE x = y
    <3>1. /\ x[1] = RootIno /\ x[2] \in DOMAIN Sub /\ Sub[x[2]] = i /\ x = <<x[1], x[2]>>
          /\ y[1] = RootIno /\ y[2] \in DOMAIN Sub /\ Sub[y[2]] = i /\ y = <<y[1], y[2]>>
      BY <2>1
    <3>2. x[2] = y[2]
      BY <3>1 DEF SubDistinct
    <3> QED
      BY <3>1, <3>2
  <2>3. ASSUME NEW i \in SubDir PROVE NamesIn(e, i) # {}
    <3>1. PICK n \in DOMAIN Sub : Sub[n] = i
      BY <1>3
    <3>2. n \in Name /\ n \notin {Dot, DotDot} /\ e[RootIno][n] = i
      BY <1>4, <1>6, <3>1
    <3>3. <<RootIno, n>> \in NamesIn(e, i)
      BY <3>2, Kinds DEF NamesIn
    <3> QED
      BY <3>3
  <2> QED
    BY <1>5, <2>2, <2>3 DEF NamedOnce
<1>11. Orderly(t, d, e, X, {})
  BY <1>7, <1>8, <1>9, <1>10 DEF Orderly, X
<1>12. ShellCall
  BY <1>1 DEF ShellCall, NoCall
<1> HIDE DEF d, e
<1> QED
  BY <1>1, <1>11, <1>12 DEF NInv

-----------------------------------------------------------------------------
\* What the shell's calls keep of the names, and what they find.
LEMMA NamesCounted == HInv /\ NInv => NlinkIsNames
<1> SUFFICES ASSUME HInv, NInv, NEW i \in Live \ ({RootIno} \cup skipped)
             PROVE  /\ Cardinality(Names(i)) <= Effective(i).nlink
                    /\ skipped = {} => Cardinality(Names(i)) = Effective(i).nlink
  BY DEF NlinkIsNames
<1>1. /\ CoresKept(tab, dinode, skipped) /\ NamedOnce(LiveIn(tab, dinode), entry, skipped)
      /\ Live = LiveIn(tab, dinode)
  BY LiveIsLiveIn DEF HInv, IInv, NInv, Orderly
<1>2. i \in Ino /\ Effective(i).type # "free"
  BY DEF Live
<1>3. Effective(i).nlink = 1
  <2>1. CASE IsLoaded(tab, i) = {}
    BY <1>1, <1>2, <2>1 DEF Effective, CoresKept, OneLink
  <2>2. CASE IsLoaded(tab, i) # {}
    <3> DEFINE s == CHOOSE u \in IsLoaded(tab, i) : TRUE
    <3>1. s \in IsLoaded(tab, i)
      BY <2>2
    <3>2. Effective(i) = tab[s].core
      BY <2>2 DEF Effective
    <3> HIDE DEF s
    <3>3. s \in Slot /\ tab[s].count # 0
      BY <3>1 DEF IsLoaded
    <3> QED
      BY <1>1, <1>2, <3>2, <3>3 DEF CoresKept, OneLink
  <2> QED
    BY <2>1, <2>2
<1>4. /\ \A x, y \in Names(i) : x = y
      /\ skipped = {} => Names(i) # {}
  BY <1>1 DEF NamedOnce, Names
<1>5. CASE Names(i) = {}
  BY <1>3, <1>4, <1>5, FS_EmptySet
<1>6. CASE Names(i) # {}
  <2>1. PICK x : x \in Names(i)
    BY <1>6
  <2>2. Names(i) = {x}
    BY <1>4, <2>1
  <2>3. Cardinality(Names(i)) = 1
    BY <2>2, FS_Singleton
  <2> QED
    BY <1>3, <2>3
<1> QED
  BY <1>5, <1>6

LEMMA EntriesFound == HInv /\ NInv => EntriesLive
<1> SUFFICES ASSUME HInv, NInv PROVE EntriesLive
  OBVIOUS
<1>1. EntriesLead(LiveIn(tab, dinode), entry, skipped) /\ Live = LiveIn(tab, dinode)
  BY LiveIsLiveIn DEF HInv, IInv, NInv, Orderly
<1> QED
  BY <1>1 DEF EntriesLead, EntriesLive

\* Through the calls the shell makes on a volume as Format leaves it, each file has
\* one link and one name, unless exit has left out a directory that was locked.
THEOREM ShellNamesCounted ==
    ASSUME Calls \subseteq ShellCalls, SubDistinct
    PROVE  Spec => []NlinkIsNames
<1>1. Init => HInv /\ NInv
  BY InitHInv, InitNInv
<1>2. (HInv /\ NInv) /\ [Next]_vars => (HInv /\ NInv)'
  BY StepHInv, StepNInv
<1>3. HInv /\ NInv => NlinkIsNames
  BY NamesCounted
<1> QED
  BY <1>1, <1>2, <1>3, PTL DEF Spec

\* Through the same calls, what an entry leads to is a file or directory, in this
\* session and in the next, or an inode that exit has left out.
THEOREM ShellEntriesLive ==
    ASSUME Calls \subseteq ShellCalls, SubDistinct
    PROVE  Spec => []EntriesLive
<1>1. Init => HInv /\ NInv
  BY InitHInv, InitNInv
<1>2. (HInv /\ NInv) /\ [Next]_vars => (HInv /\ NInv)'
  BY StepHInv, StepNInv
<1>3. HInv /\ NInv => EntriesLive
  BY EntriesFound
<1> QED
  BY <1>1, <1>2, <1>3, PTL DEF Spec

=============================================================================
