-------------------------- MODULE SessionsProofs ---------------------------
(***************************************************************************)
(* Sessions, for every size of the volume and of a block, all paths and    *)
(* every number of crashes: the types, what of a file survives, and where  *)
(* alone the disk can be inconsistent.                                     *)
(***************************************************************************)
EXTENDS Sessions, Arithmetic

-----------------------------------------------------------------------------
(* The inductive invariant.                                                *)

\* The commands in progress.
Cmd ==
    {NoCmd, Off}
        \cup [op : {"creat", "mkdir", "load"}, path : Paths, ino : {0}, step : {"ialloc"}]
        \cup [op : {"creat", "mkdir", "load"}, path : Paths, ino : Ino, step : {"entry", "putdir"}]
        \cup [op : {"mkdir"}, path : Paths, ino : Ino, step : {"dots"}]
        \cup [op : {"mkdir"}, path : Paths, ino : Ino \cup {0}, step : {"savedata", "saveinode"}]
        \cup [op : {"load"}, path : Paths, ino : Ino, step : {"copy", "savedata"}]
        \cup [op : {"write"}, ino : {0}, step : {"savedata"}]
        \cup [op : {"exit"}, ino : {0},
              step : {"savedata", "saveinode", "flush", "update", "close"}]

\* The bound Room lasts for the command: there are inodes and blocks for what it has
\* still to do.
RoomLeft ==
    /\ Step("ialloc") => \E i \in Ino : i >= itop /\ core[i].type = "free"
    /\ Step("ialloc") \/ Step("entry") => top + (IF cmd.op = "mkdir" THEN 2 ELSE 1) <= NB
    /\ Step("putdir") \/ Step("dots") => (cmd.op = "mkdir" => top + 1 <= NB)

\* The descriptor that a command opens is not in use, and that of a load is.
Descriptor ==
    /\ Step("ialloc") \/ Step("entry") \/ Step("putdir") => cmd.op = "mkdir" \/ open = NoFile
    /\ Step("copy") => open # NoFile

\* Between sessions there is only the disk.
OffIsDisk ==
    cmd = Off =>
        /\ core = dinode /\ cur = dur /\ top = saved /\ itop = isaved
        /\ cwd = Root /\ made = {} /\ stuck = {} /\ open = NoFile

Typed == TypeOK /\ cmd \in Cmd /\ RoomLeft /\ Descriptor /\ OffIsDisk

\* No block is at two places, on the disk and as the calls see it.
Apart ==
    /\ \A I \in {core, dinode} : \A i \in Ino : \A k, l \in DOMAIN I[i].addr :
        I[i].addr[k] = I[i].addr[l] => k = l
    /\ \A i, j \in Ino : i # j =>
        (Blocks(core, i) \cup Blocks(dinode, i)) \cap (Blocks(core, j) \cup Blocks(dinode, j)) = {}

\* The disk is behind: what it has is of the type it has for the calls, and of a
\* directory a first part.
Behind ==
    /\ dinode[Root].type = "dir"
    /\ \A i \in Ino : dinode[i].type # "free" => core[i].type = dinode[i].type
    /\ \A d \in Ino : dinode[d].type = "dir" =>
        /\ dinode[d].size <= core[d].size
        /\ \A k \in DOMAIN dinode[d].addr :
            k \in DOMAIN core[d].addr /\ core[d].addr[k] = dinode[d].addr[k]

NameType == [dir : Ino, name : Name, ino : Ino]
EntryOf(n) == [tag |-> "entry", name |-> n.name, ino |-> n.ino]

\* The names that are on the disk as the calls see them.
SharedNames ==
    {n \in NameType :
        /\ dinode[n.dir].type = "dir"
        /\ \E u \in 1 .. dinode[n.dir].size :
            At(dinode, dur, n.dir, u) = EntryOf(n) /\ At(core, cur, n.dir, u) = EntryOf(n)}

\* The directories that such names lead to.
SharedDirs ==
    {d \in Ino : \A R \in SUBSET {i \in Ino : dinode[i].type = "dir"} :
        (/\ Root \in R
         /\ \A n \in SharedNames :
                dinode[n.ino].type = "dir" /\ n.dir \in R => n.ino \in R) => d \in R}

\* Inode i and its blocks are the same on the disk and for the calls.
Same(i) == core[i] = dinode[i] /\ \A b \in Blocks(core, i) : cur[b] = dur[b]

KeptShared ==
    \A k \in kept :
        \E n \in SharedNames :
            /\ n.dir \in SharedDirs
            /\ dinode[n.ino].type = "file" /\ Same(n.ino)
            /\ k = [path |-> [dir |-> n.dir, name |-> n.name], text |-> Text(core, cur, n.ino)]

\* What the next block to be handed out depends on, and what names lead to.
Below == \A i \in Ino : \A b \in Blocks(core, i) \cup Blocks(dinode, i) : b < top
Named ==
    /\ \A m, n \in Names(core, cur) : m.ino = n.ino => m = n
    /\ \A n \in Names(core, cur) : core[n.ino].type # "free"

NameOf(p, i) == [dir |-> p.dir, name |-> p.name, ino |-> i]
Fresh(op) == [type |-> IF op = "mkdir" THEN "dir" ELSE "file", addr |-> << >>, size |-> 0]

\* What the command in progress and the descriptor stand for.
CallOK ==
    /\ core[cwd].type = "dir"
    /\ \A i \in made : core[i].type = "dir"
    /\ open # NoFile =>
        core[open.ino].type = "file" /\ NameOf(open.path, open.ino) \in Names(core, cur)
    /\ Step("ialloc") \/ Step("entry") \/ Step("putdir") => core[cmd.path.dir].type = "dir"
    /\ Step("entry") \/ Step("putdir") \/ Step("dots") => core[cmd.ino] = Fresh(cmd.op)
    /\ Step("entry") => cmd.ino # cmd.path.dir /\ \A n \in Names(core, cur) : n.ino # cmd.ino
    /\ Step("putdir") => NameOf(cmd.path, cmd.ino) \in Names(core, cur)
    /\ Step("copy") => open.ino = cmd.ino

\* No file that is to survive is at the path of a command that makes or writes one.
Rewritten ==
    /\ Step("ialloc") \/ Step("entry") \/ Step("putdir") => \A k \in kept : k.path # cmd.path
    /\ Step("copy") => \A k \in kept : k.path # open.path

\* The inodes that need not be on the disk, or as they are there.
New   == IF Step("entry") \/ Step("putdir") \/ Step("dots") THEN {cmd.ino} ELSE {}
Dirty == New \cup (IF Step("putdir") THEN {cmd.path.dir} ELSE {})
Settled ==
    /\ \A i \in Ino : core[i] # dinode[i] => i \in Pinned \cup {open.ino} \cup Dirty
    /\ Step("update") \/ Step("close") => dur = cur
    /\ Step("close") => \A i \in Ino : core[i] # dinode[i] => i \in stuck
OnDisk ==
    \A i \in Ino :
        core[i].type # "free" /\ dinode[i].type = "free" => i \in made \cup stuck \cup {open.ino} \cup New

\* The blocks of a command that comes to its save.
Unsaved ==
    IF cmd.op \in {"load", "mkdir"}
    THEN Blocks(core, cmd.path.dir) \cup (IF cmd.ino = 0 THEN {} ELSE Blocks(core, cmd.ino))
    ELSE {}
Saved ==
    /\ Step("saveinode") => saved = top
    /\ \A i \in Ino, b \in Block : b \in Blocks(dinode, i) /\ b >= saved => b \in loose \cup Unsaved
    /\ \A i \in Ino, b \in Block : b \in Blocks(core, i) /\ b >= saved =>
        b \in loose \cup Unsaved \/ (cmd.op = "write" /\ i = open.ino)

Always == Apart /\ Behind /\ KeptShared
Live   == Below /\ Named /\ CallOK /\ Rewritten /\ Settled /\ OnDisk /\ Saved

IInv ==
    /\ Typed
    /\ ~ torn => Always
    /\ ~ torn /\ cmd # Off => Live

-----------------------------------------------------------------------------
(* Units and the blocks they are in.                                       *)

Index(u)  == (u - 1) \div U + 1
Offset(u) == (u - 1) % U
Needed(n) == (n + U - 1) \div U

LEMMA SizeOfBlock == U \in Nat \ {0, 1} /\ NB \in Nat \ {0, 1} /\ NI \in Nat \ {0, 1}
BY SizesAssumption

LEMMA Places ==
    ASSUME NEW u \in Nat \ {0}
    PROVE  /\ Index(u) \in Nat \ {0} /\ Offset(u) \in 0 .. U - 1
           /\ u = U * (Index(u) - 1) + Offset(u) + 1
           /\ Index(u) = Needed(u)
<1>0. U \in Nat \ {0} /\ u - 1 \in Nat
  BY SizeOfBlock
<1> DEFINE q == (u - 1) \div U
           r == (u - 1) % U
<1>1. q \in Nat /\ r \in 0 .. U - 1 /\ u - 1 = U * q + r
  BY <1>0, Division
<1>2. u + U - 1 = (q + 1) * U + r
  <2> HIDE DEF q, r
  <2>1. (q + 1) * U = U * q + U
    BY <1>0, <1>1
  <2> QED
    BY <1>0, <1>1, <2>1
<1>3. (u + U - 1) \div U = q + 1
  <2>1. q + 1 \in Nat
    BY <1>1
  <2>2. ((q + 1) * U + r) \div U = q + 1
    <3> HIDE DEF q, r
    <3> QED
      BY <1>0, <1>1, <2>1, QuotientUnique
  <2> QED
    BY <1>2, <2>2
<1>4. Index(u) = q + 1 /\ Offset(u) = r /\ Needed(u) = q + 1
  BY <1>3 DEF Index, Offset, Needed
<1> HIDE DEF q, r
<1>5. U * ((q + 1) - 1) = U * q
  BY <1>1
<1> QED
  BY <1>0, <1>1, <1>4, <1>5

\* Two units are at two places.
LEMMA PlacesDiffer ==
    ASSUME NEW u \in Nat \ {0}, NEW v \in Nat \ {0}, Index(u) = Index(v), Offset(u) = Offset(v)
    PROVE  u = v
BY Places

LEMMA NeededBlocks ==
    /\ Needed(0) = 0
    /\ \A n \in Nat : Needed(n) \in Nat
<1>0. U \in Nat \ {0, 1} /\ U - 1 \in 0 .. U - 1
  BY SizeOfBlock
<1>1. Needed(0) = 0
  <2>1. (0 * U + (U - 1)) \div U = 0
    BY <1>0, QuotientUnique
  <2>2. 0 * U + (U - 1) = 0 + U - 1
    BY <1>0
  <2> QED
    BY <2>1, <2>2 DEF Needed
<1>2. ASSUME NEW n \in Nat PROVE Needed(n) \in Nat
  <2>1. n + U - 1 \in Nat
    BY <1>0
  <2> QED
    BY <1>0, <2>1, Division DEF Needed
<1> QED
  BY <1>1, <1>2

LEMMA NeededGrows ==
    ASSUME NEW m \in Nat, NEW n \in Nat, m <= n
    PROVE  Needed(m) <= Needed(n)
<1>0. U \in Nat \ {0, 1}
  BY SizeOfBlock
<1>1. m + U - 1 \in Nat /\ n + U - 1 \in Nat /\ m + U - 1 <= n + U - 1
  BY <1>0
<1> QED
  BY <1>0, <1>1, QuotientMonotone DEF Needed

LEMMA NeededNext ==
    ASSUME NEW n \in Nat
    PROVE  Needed(n + 1) <= Needed(n) + 1
<1>0. U \in Nat \ {0, 1} /\ U - 1 \in 0 .. U - 1
  BY SizeOfBlock
<1> DEFINE q == (n + U - 1) \div U
           r == (n + U - 1) % U
<1>1. n + U - 1 \in Nat
  BY <1>0
<1>2. q \in Nat /\ r \in 0 .. U - 1 /\ n + U - 1 = U * q + r
  BY <1>0, <1>1, Division
<1>3. Needed(n) = q
  BY DEF Needed
<1> HIDE DEF q, r
<1>4. U * q = q * U
  BY <1>0, <1>2
<1>5. CASE r + 1 \in 0 .. U - 1
  <2>1. (n + 1) + U - 1 = q * U + (r + 1)
    BY <1>0, <1>2, <1>4
  <2>2. (q * U + (r + 1)) \div U = q
    BY <1>0, <1>2, <1>5, QuotientUnique
  <2> QED
    BY <1>2, <1>3, <2>1, <2>2 DEF Needed
<1>6. CASE r + 1 \notin 0 .. U - 1
  <2>1. r + 1 = U /\ (q + 1) * U = q * U + U
    BY <1>0, <1>2, <1>6
  <2>2. (n + 1) + U - 1 = (q + 1) * U + 0
    BY <1>0, <1>2, <1>4, <2>1
  <2>3. ((q + 1) * U + 0) \div U = q + 1
    BY <1>0, <1>2, QuotientUnique
  <2> QED
    BY <1>2, <1>3, <2>2, <2>3 DEF Needed
<1> QED
  BY <1>5, <1>6

-----------------------------------------------------------------------------
(* Reading and writing a unit.                                             *)

Volume(I) ==
    /\ I \in [Ino -> Inode]
    /\ \A i \in Ino : Needed(I[i].size) = Len(I[i].addr)
Store(S) == S \in [Block -> [0 .. U - 1 -> Unit]]

LEMMA TypedParts ==
    ASSUME TypeOK
    PROVE  Volume(core) /\ Volume(dinode) /\ Store(cur) /\ Store(dur)
BY DEF TypeOK, Volume, Store, Needed

LEMMA InodeFields ==
    ASSUME NEW I, Volume(I), NEW i \in Ino
    PROVE  /\ I[i] \in Inode
           /\ I[i].type \in {"free", "file", "dir"} /\ I[i].size \in Nat
           /\ I[i].addr \in Seq(Block) /\ Len(I[i].addr) \in Nat
           /\ DOMAIN I[i].addr = 1 .. Len(I[i].addr)
           /\ \A k \in DOMAIN I[i].addr : I[i].addr[k] \in Block
           /\ Blocks(I, i) \subseteq Block
<1>1. I[i] \in Inode
  BY DEF Volume
<1>2. I[i].type \in {"free", "file", "dir"} /\ I[i].size \in Nat /\ I[i].addr \in Seq(Block)
  BY <1>1 DEF Inode
<1>3. /\ Len(I[i].addr) \in Nat /\ DOMAIN I[i].addr = 1 .. Len(I[i].addr)
      /\ \A k \in DOMAIN I[i].addr : I[i].addr[k] \in Block
  BY <1>2
<1> QED
  BY <1>1, <1>2, <1>3 DEF Blocks

LEMMA UnitAt ==
    ASSUME NEW I, Volume(I), NEW S, NEW i \in Ino, NEW u \in 1 .. I[i].size
    PROVE  /\ Index(u) \in DOMAIN I[i].addr /\ I[i].addr[Index(u)] \in Blocks(I, i)
           /\ Offset(u) \in 0 .. U - 1 /\ u \in Nat \ {0}
           /\ At(I, S, i, u) = S[I[i].addr[Index(u)]][Offset(u)]
<1>1. I[i].size \in Nat /\ u \in Nat \ {0} /\ DOMAIN I[i].addr = 1 .. Len(I[i].addr)
  BY InodeFields
<1>2. Index(u) \in Nat \ {0} /\ Index(u) = Needed(u) /\ Offset(u) \in 0 .. U - 1
  BY <1>1, Places
<1>3. Needed(u) <= Needed(I[i].size)
  BY <1>1, NeededGrows
<1>4. Needed(I[i].size) = Len(I[i].addr) /\ Len(I[i].addr) \in Nat
  BY InodeFields DEF Volume
<1>5. Index(u) \in DOMAIN I[i].addr
  BY <1>1, <1>2, <1>3, <1>4
<1>6. At(I, S, i, u) = S[I[i].addr[Index(u)]][Offset(u)]
  BY DEF At, Index, Offset
<1> QED
  BY <1>1, <1>2, <1>5, <1>6 DEF Blocks

\* WriteDir overwrites no entry.
LEMMA FreeSlotIn ==
    ASSUME TypeOK, NEW d \in Ino
    PROVE  /\ FreeSlot(d) \in 1 .. core[d].size + 1
           /\ FreeSlot(d) \in 1 .. core[d].size => At(core, cur, d, FreeSlot(d)) = Zero
<1> DEFINE free == {u \in 1 .. core[d].size : At(core, cur, d, u) = Zero}
<1>1. core[d].size \in Nat
  BY TypedParts, InodeFields
<1>2. CASE free = {}
  <2>1. FreeSlot(d) = core[d].size + 1
    BY <1>2 DEF FreeSlot
  <2> QED
    BY <1>1, <2>1
<1>3. CASE free # {}
  <2>1. FreeSlot(d) = CHOOSE u \in free : \A v \in free : u <= v
    BY <1>3 DEF FreeSlot
  <2>2. free \in SUBSET Nat
    OBVIOUS
  <2>3. \E u \in free : \A v \in free : u <= v
    <3> HIDE DEF free
    <3> QED
      BY <1>3, <2>2, LeastElement
  <2>4. FreeSlot(d) \in free
    <3> HIDE DEF free
    <3> QED
      BY <2>1, <2>3
  <2> QED
    BY <1>1, <2>4
<1> QED
  BY <1>2, <1>3

\* The block that WriteI writes to.
Aim(i, u) == IF Index(u) > Len(core[i].addr) THEN top ELSE core[i].addr[Index(u)]

\* What WriteI of one unit does to its inode, to its block, and to nothing else.
Wrote(i, u, unit) ==
    LET b == Aim(i, u)
    IN  /\ Volume(core') /\ Store(cur') /\ Store(dur')
        /\ b \in Block
        /\ core'[i].type = core[i].type
        /\ core'[i].size = (IF core[i].size < u THEN u ELSE core[i].size)
        /\ \A k \in DOMAIN core[i].addr : k \in DOMAIN core'[i].addr /\ core'[i].addr[k] = core[i].addr[k]
        /\ Index(u) \in DOMAIN core'[i].addr /\ core'[i].addr[Index(u)] = b
        /\ \A k \in DOMAIN core'[i].addr : k \in DOMAIN core[i].addr \/ k = Index(u)
        /\ Index(u) \in DOMAIN core[i].addr \/ (b = top /\ top' = top + 1)
        /\ Index(u) \in DOMAIN core[i].addr => top' = top
        /\ \A j \in Ino : j # i => core'[j] = core[j]
        /\ \A c \in Block : c # b => cur'[c] = cur[c] /\ dur'[c] = dur[c]
        /\ cur'[b][Offset(u)] = unit
        /\ Index(u) \in DOMAIN core[i].addr =>
                \A x \in 0 .. U - 1 : x # Offset(u) => cur'[b][x] = cur[b][x]
        /\ dur'[b] \in {dur[b], cur'[b]}
        /\ top' \in Nat /\ top <= top' /\ top' <= NB

LEMMA Writing ==
    ASSUME TypeOK, NEW i \in Ino, NEW u \in 1 .. core[i].size + 1, NEW unit \in Unit,
           WriteI(i, u, unit), Index(u) \notin DOMAIN core[i].addr => top + 1 <= NB
    PROVE  Wrote(i, u, unit)
<1> DEFINE len == Len(core[i].addr)
           new == Index(u) > len
           b   == IF new THEN top ELSE core[i].addr[Index(u)]
           now == [IF new THEN [x \in 0 .. U - 1 |-> Zero] ELSE cur[b] EXCEPT ![Offset(u)] = unit]
           a   == IF new THEN Append(core[i].addr, b) ELSE core[i].addr
           n   == IF core[i].size < u THEN u ELSE core[i].size
           v   == [type |-> core[i].type, addr |-> a, size |-> n]
<1>0. /\ Volume(core) /\ Store(cur) /\ Store(dur) /\ top \in Nat /\ top <= NB /\ NB \in Nat
      /\ saved \in Nat /\ U \in Nat /\ U > 1
  <2>1. saved \in 0 .. NB /\ top \in saved .. NB
    BY DEF TypeOK
  <2> QED
    BY <2>1, TypedParts, SizeOfBlock
<1>1. /\ core[i] \in Inode /\ core[i].type \in {"free", "file", "dir"} /\ core[i].size \in Nat
      /\ core[i].addr \in Seq(Block) /\ len \in Nat /\ DOMAIN core[i].addr = 1 .. len
      /\ \A k \in DOMAIN core[i].addr : core[i].addr[k] \in Block
  BY <1>0, InodeFields
<1>2. u \in Nat \ {0} /\ Index(u) \in Nat \ {0} /\ Index(u) = Needed(u) /\ Offset(u) \in 0 .. U - 1
  BY <1>1, Places
<1>3. n \in Nat /\ n = (IF core[i].size < u THEN u ELSE core[i].size)
  BY <1>1, <1>2
<1>4. Needed(core[i].size) = len
  BY <1>0 DEF Volume
<1>5. /\ Index(u) <= len + 1
      /\ new => core[i].size < u /\ Index(u) = len + 1
      /\ ~ new => Needed(n) = len
  <2>1. CASE u <= core[i].size
    <3>1. Needed(u) <= len /\ n = core[i].size
      BY <1>1, <1>2, <1>4, <2>1, NeededGrows
    <3> QED
      BY <1>1, <1>2, <1>4, <3>1
  <2>2. CASE ~ u <= core[i].size
    <3>1. u = core[i].size + 1 /\ n = u
      BY <1>1, <1>2, <2>2
    <3>2. Needed(u) <= len + 1 /\ len <= Needed(u)
      <4>1. core[i].size + 1 \in Nat /\ core[i].size <= core[i].size + 1
        BY <1>1
      <4>2. /\ Needed(core[i].size + 1) <= Needed(core[i].size) + 1
            /\ Needed(core[i].size) <= Needed(core[i].size + 1)
        BY <1>1, <4>1, NeededNext, NeededGrows
      <4> QED
        BY <1>4, <3>1, <4>2
    <3> QED
      BY <1>1, <1>2, <3>1, <3>2
  <2> QED
    BY <2>1, <2>2
<1>6. /\ new <=> Index(u) \notin DOMAIN core[i].addr
      /\ new => top + 1 <= NB
  BY <1>1, <1>2
<1>7. b \in Block
  <2>1. CASE new
    BY <1>0, <1>6, <2>1 DEF Block
  <2>2. CASE ~ new
    BY <1>1, <1>2, <2>2
  <2> QED
    BY <2>1, <2>2
<1>8. /\ a \in Seq(Block) /\ Len(a) = Needed(n)
      /\ \A k \in 1 .. len : a[k] = core[i].addr[k]
      /\ a[Index(u)] = b /\ DOMAIN a = 1 .. Len(a) /\ len <= Len(a) /\ Len(a) <= len + 1
      /\ new => Len(a) = len + 1
      /\ ~ new => Len(a) = len
  <2>1. CASE new
    <3>1. a = Append(core[i].addr, b) /\ Index(u) = len + 1 /\ n = u
      BY <1>3, <1>5, <2>1
    <3>2. /\ a \in Seq(Block) /\ Len(a) = len + 1
          /\ \A k \in 1 .. len : a[k] = core[i].addr[k]
          /\ a[len + 1] = b /\ DOMAIN a = 1 .. Len(a)
      <4> HIDE DEF b
      <4>1. a = Append(core[i].addr, b)
        BY <3>1
      <4> HIDE DEF a
      <4> QED
        BY <1>1, <1>7, <4>1
    <3>3. a[Index(u)] = b
      BY <3>1, <3>2
    <3>4. Len(a) = Needed(n)
      <4> HIDE DEF a, b, n
      <4> QED
        BY <1>2, <3>1, <3>2
    <3> HIDE DEF a, b, n
    <3>5. len <= Len(a) /\ Len(a) <= len + 1
      BY <1>1, <3>2
    <3> QED
      BY <3>2, <3>3, <3>4, <3>5, <2>1
  <2>2. CASE ~ new
    BY <1>1, <1>2, <1>5, <2>2
  <2> QED
    BY <2>1, <2>2
<1>9. v \in Inode
  BY <1>1, <1>3, <1>8 DEF Inode
<1>10. core' = [core EXCEPT ![i] = v]
  <2>1. core' = [core EXCEPT ![i].addr = a, ![i].size = n]
    BY DEF WriteI, Index
  <2>2. [[core[i] EXCEPT !.addr = a] EXCEPT !.size = n] = v
    <3> DEFINE w == [type |-> core[i].type, addr |-> a, size |-> core[i].size]
    <3>1. [core[i] EXCEPT !.addr = a] = w
      <4> HIDE DEF a
      <4> QED
        BY <1>1 DEF Inode
    <3>2. [w EXCEPT !.size = n] = v
      <4> HIDE DEF a, n
      <4> QED
        OBVIOUS
    <3> HIDE DEF w, v, a, n
    <3> QED
      BY <3>1, <3>2
  <2>3. core' = [core EXCEPT ![i] = [[core[i] EXCEPT !.addr = a] EXCEPT !.size = n]]
    <3> HIDE DEF a, n, v
    <3> QED
      BY <1>0, <1>1, <2>1 DEF Volume, Inode
  <2> QED
    BY <2>2, <2>3
<1>11. /\ cur' = [cur EXCEPT ![b] = now]
       /\ dur' = (IF u % U = 0 THEN [dur EXCEPT ![b] = now] ELSE dur)
       /\ top' = (IF new THEN top + 1 ELSE top)
  BY DEF WriteI, Index, Offset
<1>12. /\ now \in [0 .. U - 1 -> Unit] /\ now[Offset(u)] = unit
       /\ ~ new => \A x \in 0 .. U - 1 : x # Offset(u) => now[x] = cur[b][x]
  <2> DEFINE old == IF new THEN [x \in 0 .. U - 1 |-> Zero] ELSE cur[b]
  <2>1. old \in [0 .. U - 1 -> Unit] /\ (~ new => old = cur[b])
    <3>1. Zero \in Unit
      BY DEF Unit
    <3> HIDE DEF new, b
    <3> QED
      BY <1>0, <1>7, <3>1 DEF Store
  <2>2. now = [old EXCEPT ![Offset(u)] = unit]
    OBVIOUS
  <2> HIDE DEF old, new, b, now
  <2> QED
    BY <1>2, <2>1, <2>2
<1>13. Aim(i, u) = b
  BY DEF Aim
<1> HIDE DEF len, new, b, now, a, n, v
<1>14. v.type = core[i].type /\ v.addr = a /\ v.size = n
  BY DEF v
<1>15. /\ core' \in [Ino -> Inode] /\ core'[i] = v /\ \A j \in Ino : j # i => core'[j] = core[j]
  BY <1>0, <1>9, <1>10 DEF Volume
<1>16. Volume(core')
  BY <1>0, <1>8, <1>14, <1>15 DEF Volume
<1>17. /\ Store(cur') /\ cur'[b] = now /\ \A c \in Block : c # b => cur'[c] = cur[c]
       /\ Store(dur') /\ dur'[b] \in {dur[b], now} /\ \A c \in Block : c # b => dur'[c] = dur[c]
  BY <1>0, <1>7, <1>11, <1>12 DEF Store
<1>18. /\ \A k \in DOMAIN core[i].addr :
              k \in DOMAIN core'[i].addr /\ core'[i].addr[k] = core[i].addr[k]
       /\ Index(u) \in DOMAIN core'[i].addr /\ core'[i].addr[Index(u)] = b
       /\ \A k \in DOMAIN core'[i].addr : k \in DOMAIN core[i].addr \/ k = Index(u)
  <2>1. core'[i].addr = a /\ DOMAIN a = 1 .. Len(a)
    BY <1>8, <1>14, <1>15
  <2>2. 1 .. len \subseteq 1 .. Len(a) /\ Index(u) \in 1 .. Len(a)
    BY <1>1, <1>2, <1>5, <1>6, <1>8
  <2>3. \A k \in 1 .. Len(a) : k \in 1 .. len \/ k = Index(u)
    BY <1>1, <1>2, <1>5, <1>8
  <2> QED
    BY <1>1, <1>8, <2>1, <2>2, <2>3
<1>19. /\ Index(u) \in DOMAIN core[i].addr \/ (b = top /\ top' = top + 1)
       /\ Index(u) \in DOMAIN core[i].addr => top' = top
       /\ top' \in Nat /\ top <= top' /\ top' <= NB
  <2>1. new => b = top
    BY DEF b
  <2> QED
    BY <1>0, <1>6, <1>11, <2>1
<1>20. core'[i].type = core[i].type /\ core'[i].size = (IF core[i].size < u THEN u ELSE core[i].size)
  BY <1>3, <1>14, <1>15
<1>21. /\ Index(u) \in DOMAIN core[i].addr =>
            \A x \in 0 .. U - 1 : x # Offset(u) => cur'[b][x] = cur[b][x]
       /\ cur'[b][Offset(u)] = unit
  BY <1>6, <1>12, <1>17
<1>22. dur'[b] \in {dur[b], cur'[b]}
  BY <1>17
<1> QED
  BY <1>7, <1>13, <1>15, <1>16, <1>17, <1>18, <1>19, <1>20, <1>21, <1>22 DEF Wrote

-----------------------------------------------------------------------------
(* The command in progress.                                                *)

Making == {"creat", "mkdir", "load"}

LEMMA PathFields ==
    ASSUME NEW p \in Paths
    PROVE  p \in Path /\ p.dir \in Ino /\ p.name \in Name
BY SizesAssumption DEF Path, Ino

LEMMA EveryCmd ==
    ASSUME cmd \in Cmd
    PROVE  \/ cmd = NoCmd \/ cmd = Off
           \/ cmd \in [op : Making, path : Paths, ino : {0}, step : {"ialloc"}]
           \/ cmd \in [op : Making, path : Paths, ino : Ino, step : {"entry", "putdir"}]
           \/ cmd \in [op : {"mkdir"}, path : Paths, ino : Ino, step : {"dots"}]
           \/ cmd \in [op : {"mkdir"}, path : Paths, ino : Ino \cup {0}, step : {"savedata", "saveinode"}]
           \/ cmd \in [op : {"load"}, path : Paths, ino : Ino, step : {"copy", "savedata"}]
           \/ cmd \in [op : {"write"}, ino : {0}, step : {"savedata"}]
           \/ cmd \in [op : {"exit"}, ino : {0},
                       step : {"savedata", "saveinode", "flush", "update", "close"}]
BY DEF Cmd, Making

\* Where a command is tells what it is.
LEMMA Steps ==
    ASSUME cmd \in Cmd
    PROVE  /\ Step("ialloc") => cmd \in [op : Making, path : Paths, ino : {0}, step : {"ialloc"}]
           /\ Step("entry") => cmd \in [op : Making, path : Paths, ino : Ino, step : {"entry"}]
           /\ Step("putdir") => cmd \in [op : Making, path : Paths, ino : Ino, step : {"putdir"}]
           /\ Step("dots") => cmd \in [op : {"mkdir"}, path : Paths, ino : Ino, step : {"dots"}]
           /\ Step("copy") => cmd \in [op : {"load"}, path : Paths, ino : Ino, step : {"copy"}]
           /\ Step("savedata") =>
                \/ cmd \in [op : {"mkdir"}, path : Paths, ino : Ino \cup {0}, step : {"savedata"}]
                \/ cmd \in [op : {"load"}, path : Paths, ino : Ino, step : {"savedata"}]
                \/ cmd \in [op : {"write"}, ino : {0}, step : {"savedata"}]
                \/ cmd \in [op : {"exit"}, ino : {0}, step : {"savedata"}]
           /\ Step("saveinode") =>
                \/ cmd \in [op : {"mkdir"}, path : Paths, ino : Ino \cup {0}, step : {"saveinode"}]
                \/ cmd \in [op : {"exit"}, ino : {0}, step : {"saveinode"}]
           /\ \A x \in {"flush", "update", "close"} :
                Step(x) => cmd \in [op : {"exit"}, ino : {0}, step : {x}]
           /\ cmd = NoCmd \/ cmd = Off \/
                \E x \in {"ialloc", "entry", "putdir", "dots", "copy", "savedata", "saveinode",
                          "flush", "update", "close"} : Step(x)
<1> USE DEF Step, Making
<1>1. CASE cmd = NoCmd \/ cmd = Off
  BY <1>1 DEF NoCmd, Off
<1>2. CASE cmd \in [op : Making, path : Paths, ino : {0}, step : {"ialloc"}]
  BY <1>2
<1>3. CASE cmd \in [op : Making, path : Paths, ino : Ino, step : {"entry", "putdir"}]
  BY <1>3
<1>4. CASE cmd \in [op : {"mkdir"}, path : Paths, ino : Ino, step : {"dots"}]
  BY <1>4
<1>5. CASE cmd \in [op : {"mkdir"}, path : Paths, ino : Ino \cup {0}, step : {"savedata", "saveinode"}]
  BY <1>5
<1>6. CASE cmd \in [op : {"load"}, path : Paths, ino : Ino, step : {"copy", "savedata"}]
  BY <1>6
<1>7. CASE cmd \in [op : {"write"}, ino : {0}, step : {"savedata"}]
  BY <1>7
<1>8. CASE cmd \in [op : {"exit"}, ino : {0},
                       step : {"savedata", "saveinode", "flush", "update", "close"}]
  BY <1>8
<1> QED
  BY <1>1, <1>2, <1>3, <1>4, <1>5, <1>6, <1>7, <1>8, EveryCmd

\* A state in which no command is in the middle of making something.
LEMMA Elsewhere ==
    ASSUME NEW c, c = NoCmd \/ c = Off \/ (c.step \notin {"ialloc", "entry", "putdir", "dots", "copy"})
    PROVE  \A x \in {"ialloc", "entry", "putdir", "dots", "copy"} :
                ~ (c.op \in {"creat", "mkdir", "load", "write", "exit"} /\ c.step = x)
BY DEF NoCmd, Off

-----------------------------------------------------------------------------
(* Types.                                                                  *)

Rest ==
    /\ saved \in 0 .. NB /\ top \in saved .. NB
    /\ isaved \in 1 .. NI + 1 /\ itop \in isaved .. NI + 1
    /\ cwd \in Ino /\ made \cup stuck \subseteq Ino /\ loose \subseteq Block
    /\ open = NoFile \/ (open.ino \in Ino /\ open.path \in Path)
    /\ torn \in BOOLEAN

LEMMA RestOfType == TypeOK => Rest
BY DEF TypeOK, Rest

LEMMA TypedNext ==
    ASSUME Volume(core'), Volume(dinode'), Store(cur'), Store(dur'), Rest'
    PROVE  TypeOK'
<1>1. \A I \in {core', dinode'} :
          /\ I \in [Ino -> Inode]
          /\ \A i \in Ino : (I[i].size + U - 1) \div U = Len(I[i].addr)
  BY DEF Volume, Needed
<1>2. \A S \in {cur', dur'} : S \in [Block -> [0 .. U - 1 -> Unit]]
  BY DEF Store
<1> QED
  BY <1>1, <1>2 DEF TypeOK, Rest

\* After a step to which nothing is left to be made.
LEMMA NothingToMake ==
    ASSUME cmd' = NoCmd \/ cmd' = Off \/ cmd'.step \notin {"ialloc", "entry", "putdir", "dots", "copy"}
    PROVE  RoomLeft' /\ Descriptor'
BY Elsewhere DEF RoomLeft, Descriptor, Step

LEMMA EmptyInode ==
    ASSUME NEW t \in {"free", "file", "dir"}
    PROVE  LET v == [type |-> t, addr |-> << >>, size |-> 0]
           IN  v \in Inode /\ Needed(v.size) = Len(v.addr)
<1>1. << >> \in Seq(Block) /\ Len(<< >>) = 0
  OBVIOUS
<1> QED
  BY <1>1, NeededBlocks DEF Inode

LEMMA UpdatedTyped ==
    ASSUME Volume(core), Volume(dinode), NEW i \in Ino, IUpdate(i)
    PROVE  /\ Volume(dinode') /\ dinode'[i] = core[i]
           /\ \A j \in Ino : j # i => dinode'[j] = dinode[j]
<1>1. core[i] \in Inode /\ Needed(core[i].size) = Len(core[i].addr)
  BY DEF Volume
<1>2. dinode' = [dinode EXCEPT ![i] = core[i]]
  BY DEF IUpdate
<1> QED
  BY <1>1, <1>2 DEF Volume

\* The inode goes to the disk, or the slot has other references.
LEMMA PutTyped ==
    ASSUME Volume(core), Volume(dinode), NEW i \in Ino, IPut(i)
    PROVE  /\ Volume(dinode')
           /\ i \notin Pinned => dinode'[i] = core[i]
           /\ i \in Pinned => dinode' = dinode
           /\ \A j \in Ino : j # i => dinode'[j] = dinode[j]
<1>1. CASE i \in Pinned
  BY <1>1 DEF IPut
<1>2. CASE i \notin Pinned
  BY <1>2, UpdatedTyped DEF IPut
<1> QED
  BY <1>1, <1>2

LEMMA BeginNewTyped ==
    ASSUME Typed, NEW op \in Making, NEW p \in Paths, BeginNew(op, p)
    PROVE  Typed'
<1>1. /\ cmd' = [op |-> op, path |-> p, ino |-> 0, step |-> "ialloc"]
      /\ UNCHANGED <<diskVars, seenVars, userVars, histVars>>
      /\ Room(op) /\ (op = "mkdir" \/ open = NoFile)
  BY DEF BeginNew
<1>2. UNCHANGED <<core, dinode, cur, dur, top, itop, saved, isaved, cwd, made, stuck, open, torn, loose>>
  BY <1>1 DEF diskVars, seenVars, userVars, histVars
<1>3. Rest
  BY RestOfType DEF Typed
<1>4. Rest'
  BY <1>2, <1>3 DEF Rest
<1>5. TypeOK'
  BY <1>2, <1>4, TypedParts, TypedNext DEF Typed
<1>6. cmd' \in Cmd /\ cmd' # Off
  BY <1>1 DEF Cmd, Making, Off
<1>7. \E i \in Ino : i >= itop /\ core[i].type = "free"
  BY <1>1 DEF Room
<1>8. RoomLeft'
  BY <1>1, <1>2, <1>7 DEF RoomLeft, Step, Room
<1>9. Descriptor'
  BY <1>1, <1>2 DEF Descriptor, Step
<1> QED
  BY <1>5, <1>6, <1>8, <1>9 DEF Typed, OffIsDisk

LEMMA BeginOverTyped ==
    ASSUME Typed, NEW op \in {"creat", "mkdir", "load"}, NEW p \in Paths, BeginOver(op, p)
    PROVE  /\ Typed' /\ Target(p) \in Ino /\ op \in {"creat", "load"}
           /\ core'[Target(p)] = [type |-> "file", addr |-> << >>, size |-> 0]
           /\ \A j \in Ino : j # Target(p) => core'[j] = core[j]
<1> DEFINE t == Target(p)
           v == [type |-> "file", addr |-> << >>, size |-> 0]
<1>1. /\ op \in {"creat", "load"} /\ Found(p) # {}
      /\ core' = [Emptied(core, t) EXCEPT ![t].type = "file"]
      /\ open' = [ino |-> t, path |-> p]
      /\ cmd' = IF op = "creat" THEN NoCmd ELSE [op |-> op, path |-> p, ino |-> t, step |-> "copy"]
      /\ UNCHANGED <<diskVars, cur, top, itop, cwd, made, stuck, crashes, torn, loose>>
  BY DEF BeginOver
<1>2. t \in Ino
  <2>1. (CHOOSE e \in Found(p) : TRUE) \in Found(p)
    BY <1>1
  <2>2. Found(p) \subseteq Entry
    BY DEF Found, Entries
  <2> QED
    BY <2>1, <2>2 DEF Target, Entry
<1>3. UNCHANGED <<dinode, cur, dur, top, itop, saved, isaved, cwd, made, stuck, torn, loose>>
  BY <1>1 DEF diskVars
<1>4. Volume(core) /\ Volume(dinode) /\ Store(cur) /\ Store(dur) /\ Rest
  BY TypedParts, RestOfType DEF Typed
<1>5. core' = [core EXCEPT ![t] = v]
  <2> HIDE DEF t
  <2>1. core[t] \in Inode /\ core \in [Ino -> Inode]
    BY <1>2, <1>4 DEF Volume
  <2> DEFINE w == [type |-> core[t].type, addr |-> << >>, size |-> 0]
             e == [core EXCEPT ![t] = w]
  <2>2. Emptied(core, t) = e
    <3>1. Emptied(core, t) = [core EXCEPT ![t] = [[core[t] EXCEPT !.addr = << >>] EXCEPT !.size = 0]]
      BY <1>2, <2>1 DEF Emptied
    <3>2. [core[t] EXCEPT !.addr = << >>] = [type |-> core[t].type, addr |-> << >>, size |-> core[t].size]
      BY <2>1 DEF Inode
    <3>3. [[type |-> core[t].type, addr |-> << >>, size |-> core[t].size] EXCEPT !.size = 0] = w
      OBVIOUS
    <3> QED
      BY <3>1, <3>2, <3>3
  <2>3. e[t] = w
    BY <1>2, <2>1
  <2>4. [w EXCEPT !.type = "file"] = v
    OBVIOUS
  <2>5. core' = [e EXCEPT ![t] = [w EXCEPT !.type = "file"]]
    <3> HIDE DEF e, w, v
    <3> QED
      BY <1>1, <2>2, <2>3
  <2>6. [e EXCEPT ![t] = v] = [core EXCEPT ![t] = v]
    <3> HIDE DEF w, v
    <3> QED
      BY <1>2, <2>1
  <2> QED
    BY <2>4, <2>5, <2>6
<1>6. v \in Inode /\ Needed(v.size) = Len(v.addr)
  BY EmptyInode
<1> HIDE DEF v, t
<1>7. Volume(core') /\ core'[t] = v /\ \A j \in Ino : j # t => core'[j] = core[j]
  BY <1>2, <1>4, <1>5, <1>6 DEF Volume
<1>8. Rest'
  BY <1>1, <1>2, <1>3, <1>4, PathFields DEF Rest
<1>9. TypeOK'
  BY <1>3, <1>4, <1>7, <1>8, TypedNext
<1>10. cmd' \in Cmd /\ cmd' # Off
  BY <1>1, <1>2 DEF Cmd, Off, NoCmd
<1>11. RoomLeft' /\ Descriptor'
  <2>1. open' # NoFile
    BY <1>1, <1>2 DEF NoFile, Ino
  <2> QED
    BY <1>1, <2>1, NothingToMake DEF RoomLeft, Descriptor, Step
<1>12. Typed'
  BY <1>9, <1>10, <1>11 DEF Typed, OffIsDisk
<1> QED
  BY <1>1, <1>2, <1>7, <1>12 DEF t, v

LEMMA TargetFound ==
    ASSUME NEW p, Found(p) # {}
    PROVE  \E e \in Found(p) : e \in Entry /\ e.ino = Target(p) /\ Target(p) \in Ino
<1>1. (CHOOSE e \in Found(p) : TRUE) \in Found(p)
  OBVIOUS
<1>2. Found(p) \subseteq Entry
  BY DEF Found, Entries
<1> QED
  BY <1>1, <1>2 DEF Target, Entry

\* Steps that leave both volumes as they are.
LEMMA QuietTyped ==
    ASSUME Typed, UNCHANGED <<core, dinode, cur, dur, top, itop>>, Rest', cmd' \in Cmd, cmd' # Off,
           cmd' = NoCmd \/ cmd'.step \notin {"ialloc", "entry", "putdir", "dots", "copy"}
    PROVE  Typed'
<1>1. TypeOK'
  BY TypedParts, TypedNext DEF Typed
<1> QED
  BY <1>1, NothingToMake DEF Typed, OffIsDisk

LEMMA BeginTakenTyped ==
    ASSUME Typed, NEW p \in Paths, BeginTaken(p)
    PROVE  Typed'
<1>1. /\ Found(p) # {} /\ stuck' = stuck \cup {Target(p)}
      /\ cmd' = [op |-> "mkdir", path |-> p, ino |-> 0, step |-> "savedata"]
      /\ UNCHANGED <<diskVars, seenVars, cwd, made, open, histVars>>
  BY DEF BeginTaken
<1>2. UNCHANGED <<core, dinode, cur, dur, top, itop, saved, isaved, cwd, made, open, torn, loose>>
  BY <1>1 DEF diskVars, seenVars, histVars
<1>3. Rest'
  BY <1>1, <1>2, TargetFound, RestOfType DEF Rest, Typed
<1>4. cmd' \in Cmd /\ cmd' # Off
  BY <1>1 DEF Cmd, Off
<1> QED
  BY <1>1, <1>2, <1>3, <1>4, QuietTyped

LEMMA BeginAstrayTyped ==
    ASSUME Typed, NEW p \in Paths, BeginAstray(p)
    PROVE  Typed'
<1>1. /\ open # NoFile
      /\ cmd' = [op |-> "load", path |-> p, ino |-> open.ino, step |-> "copy"]
      /\ UNCHANGED <<diskVars, seenVars, userVars, crashes, torn, loose>>
  BY DEF BeginAstray
<1>2. UNCHANGED <<core, dinode, cur, dur, top, itop, saved, isaved, cwd, made, stuck, open, torn, loose>>
  BY <1>1 DEF diskVars, seenVars, userVars
<1>3. Rest
  BY RestOfType DEF Typed
<1>4. Rest' /\ open.ino \in Ino
  BY <1>1, <1>2, <1>3 DEF Rest
<1>5. TypeOK'
  BY <1>2, <1>4, TypedParts, TypedNext DEF Typed
<1>6. cmd' \in Cmd /\ cmd' # Off
  BY <1>1, <1>4 DEF Cmd, Off
<1>7. RoomLeft' /\ Descriptor'
  BY <1>1, <1>2 DEF RoomLeft, Descriptor, Step
<1> QED
  BY <1>5, <1>6, <1>7 DEF Typed, OffIsDisk

LEMMA OpenTyped ==
    ASSUME Typed, NEW p \in Paths, Open(p)
    PROVE  Typed'
<1>1. /\ Found(p) # {} /\ Ready /\ open' = [ino |-> Target(p), path |-> p]
      /\ UNCHANGED <<diskVars, seenVars, cwd, made, stuck, cmd, histVars>>
  BY DEF Open
<1>2. UNCHANGED <<core, dinode, cur, dur, top, itop, saved, isaved, cwd, made, stuck, torn, loose>>
  BY <1>1 DEF diskVars, seenVars, histVars
<1>3. Rest'
  BY <1>1, <1>2, TargetFound, PathFields, RestOfType DEF Rest, Typed
<1>4. cmd' \in Cmd /\ cmd' # Off /\ cmd' = NoCmd
  BY <1>1 DEF Cmd, Off, Ready, NoCmd
<1> QED
  BY <1>2, <1>3, <1>4, QuietTyped

LEMMA IAllocTyped ==
    ASSUME Typed, IAlloc
    PROVE  /\ Typed' /\ itop \in Ino
           /\ core[itop].type = "free" =>
                /\ core'[itop] = Fresh(cmd.op) /\ \A j \in Ino : j # itop => core'[j] = core[j]
                /\ cmd' \in [op : {cmd.op}, path : {cmd.path}, ino : {itop}, step : {"entry"}]
<1> DEFINE v == Fresh(cmd.op)
<1>1. /\ Step("ialloc") /\ itop' = itop + 1
      /\ UNCHANGED <<diskVars, cur, top, userVars, histVars>>
  BY DEF IAlloc
<1>2. UNCHANGED <<dinode, cur, dur, top, saved, isaved, cwd, made, stuck, open, torn, loose>>
  BY <1>1 DEF diskVars, userVars, histVars
<1>3. Volume(core) /\ Volume(dinode) /\ Store(cur) /\ Store(dur) /\ Rest
  BY TypedParts, RestOfType DEF Typed
<1>4. PICK i \in Ino : i >= itop /\ core[i].type = "free"
  BY <1>1 DEF Typed, RoomLeft
<1>5. cmd \in [op : Making, path : Paths, ino : {0}, step : {"ialloc"}]
  BY <1>1, Steps DEF Typed
<1>6. /\ top + (IF cmd.op = "mkdir" THEN 2 ELSE 1) <= NB /\ (cmd.op = "mkdir" \/ open = NoFile)
  BY <1>1 DEF Typed, RoomLeft, Descriptor
<1>7. NI \in Nat /\ itop \in isaved .. NI + 1 /\ isaved \in 1 .. NI + 1
  BY <1>3, SizeOfBlock DEF Rest
<1>8. itop \in Ino /\ itop' \in isaved .. NI + 1
  BY <1>1, <1>4, <1>7 DEF Ino
<1>9. Rest'
  BY <1>2, <1>3, <1>8 DEF Rest
<1>10. CASE core[itop].type # "free"
  <2>1. core' = core /\ cmd' = cmd
    BY <1>10 DEF IAlloc, Occupied
  <2>2. TypeOK'
    BY <1>2, <1>3, <1>9, <2>1, TypedNext
  <2>3. i >= itop'
    BY <1>1, <1>4, <1>7, <1>10 DEF Ino
  <2>4. RoomLeft' /\ Descriptor'
    BY <1>2, <1>4, <1>5, <1>6, <2>1, <2>3 DEF RoomLeft, Descriptor, Step
  <2>5. cmd' \in Cmd /\ cmd' # Off
    BY <1>1, <2>1 DEF Typed, Step, Off
  <2>6. Typed'
    BY <2>2, <2>4, <2>5 DEF Typed, OffIsDisk
  <2> QED
    BY <1>8, <1>10, <2>6
<1>11. CASE core[itop].type = "free"
  <2>1. /\ core' = [core EXCEPT ![itop] =
                        [Free EXCEPT !.type = IF cmd.op = "mkdir" THEN "dir" ELSE "file"]]
        /\ cmd' = [cmd EXCEPT !.ino = itop, !.step = "entry"]
    BY <1>11 DEF IAlloc, Occupied
  <2>2. [Free EXCEPT !.type = IF cmd.op = "mkdir" THEN "dir" ELSE "file"] = v
    BY DEF Free, Fresh
  <2>3. v \in Inode /\ Needed(v.size) = Len(v.addr)
    BY EmptyInode DEF Fresh
  <2>4. core' = [core EXCEPT ![itop] = v]
    BY <2>1, <2>2
  <2> HIDE DEF v
  <2>5. Volume(core') /\ core'[itop] = v /\ \A j \in Ino : j # itop => core'[j] = core[j]
    BY <1>3, <1>8, <2>3, <2>4 DEF Volume
  <2>6. cmd' \in [op : {cmd.op}, path : {cmd.path}, ino : {itop}, step : {"entry"}]
    BY <1>5, <2>1
  <2>7. cmd' \in Cmd /\ cmd' # Off
    BY <1>5, <1>8, <2>6 DEF Cmd, Making, Off
  <2>8. TypeOK'
    BY <1>2, <1>3, <1>9, <2>5, TypedNext
  <2>9. RoomLeft' /\ Descriptor'
    BY <1>2, <1>6, <2>6 DEF RoomLeft, Descriptor, Step
  <2>10. Typed'
    BY <2>7, <2>8, <2>9 DEF Typed, OffIsDisk
  <2> QED
    BY <1>8, <2>5, <2>6, <2>10 DEF v
<1> QED
  BY <1>10, <1>11

\* A unit is written, and the command goes on or ends.
LEMMA WrittenTyped ==
    ASSUME Typed, NEW i \in Ino, NEW u \in 1 .. core[i].size + 1, NEW unit \in Unit,
           WriteI(i, u, unit), top + 1 <= NB,
           UNCHANGED <<dinode, saved, isaved, itop, cwd, stuck, open, torn>>,
           made' \subseteq Ino, loose' \subseteq loose \cup (top .. top' - 1)
    PROVE  TypeOK' /\ Wrote(i, u, unit) /\ top' <= top + 1
<1>1. Wrote(i, u, unit)
  BY Writing DEF Typed
<1>2. Rest /\ Volume(dinode)
  BY RestOfType, TypedParts DEF Typed
<1>3. top \in saved .. NB /\ saved \in 0 .. NB /\ NB \in Nat
  BY <1>2, SizeOfBlock DEF Rest
<1>4. top' \in saved .. NB /\ top' <= top + 1 /\ top <= top'
  BY <1>1, <1>3 DEF Wrote
<1>5. top .. top' - 1 \subseteq Block
  BY <1>3, <1>4 DEF Block
<1>6. Rest'
  BY <1>2, <1>4, <1>5 DEF Rest
<1>7. Volume(core') /\ Store(cur') /\ Store(dur') /\ Volume(dinode')
  BY <1>1, <1>2 DEF Wrote
<1> QED
  BY <1>1, <1>4, <1>6, <1>7, TypedNext

LEMMA OneMore ==
    ASSUME NEW x \in Nat, NEW y \in Nat, NEW z \in Nat, x + 2 <= z, y <= x + 1
    PROVE  y + 1 <= z
OBVIOUS

LEMMA WriteDirTyped ==
    ASSUME Typed, WriteDir
    PROVE  /\ Typed' /\ cmd \in [op : Making, path : Paths, ino : Ino, step : {"entry"}]
           /\ cmd' \in [op : {cmd.op}, path : {cmd.path}, ino : {cmd.ino}, step : {"putdir"}]
           /\ Wrote(cmd.path.dir, FreeSlot(cmd.path.dir), EntryOf(NameOf(cmd.path, cmd.ino)))
<1> DEFINE d == cmd.path.dir
           unit == [tag |-> "entry", name |-> cmd.path.name, ino |-> cmd.ino]
<1>1. /\ Step("entry") /\ WriteI(d, FreeSlot(d), unit)
      /\ loose' = (IF cmd.op = "creat" THEN loose \cup (top .. top' - 1) ELSE loose)
      /\ cmd' = [cmd EXCEPT !.step = "putdir"]
      /\ UNCHANGED <<dinode, saved, isaved, itop, userVars, crashes, kept, torn>>
  BY DEF WriteDir, Goto
<1>2. cmd \in [op : Making, path : Paths, ino : Ino, step : {"entry"}]
  BY <1>1, Steps DEF Typed
<1>3. UNCHANGED <<dinode, saved, isaved, itop, cwd, made, stuck, open, torn>>
  BY <1>1 DEF userVars
<1>4. d \in Ino /\ unit \in Unit /\ unit = EntryOf(NameOf(cmd.path, cmd.ino))
  BY <1>2, PathFields DEF Unit, Entry, EntryOf, NameOf
<1>5. FreeSlot(d) \in 1 .. core[d].size + 1
  BY <1>4, FreeSlotIn DEF Typed
<1>6. Rest
  BY RestOfType DEF Typed
<1>7. top \in Nat /\ NB \in Nat
  BY <1>6, SizeOfBlock DEF Rest
<1>8. top + (IF cmd.op = "mkdir" THEN 2 ELSE 1) <= NB /\ (cmd.op = "mkdir" \/ open = NoFile)
  BY <1>1 DEF Typed, RoomLeft, Descriptor
<1>9. top + 1 <= NB /\ made' \subseteq Ino /\ loose' \subseteq loose \cup (top .. top' - 1)
  BY <1>1, <1>3, <1>6, <1>7, <1>8 DEF Rest
<1> HIDE DEF unit
<1>10. TypeOK' /\ Wrote(d, FreeSlot(d), unit) /\ top' <= top + 1 /\ top' \in Nat
  BY <1>1, <1>3, <1>4, <1>5, <1>9, WrittenTyped DEF Wrote
<1>11. cmd' \in [op : {cmd.op}, path : {cmd.path}, ino : {cmd.ino}, step : {"putdir"}]
  BY <1>1, <1>2
<1>12. cmd' \in Cmd /\ cmd' # Off
  BY <1>2, <1>11 DEF Cmd, Making, Off
<1>13. RoomLeft' /\ Descriptor'
  <2>0. open' = open
    BY <1>3
  <2>1. cmd'.op = cmd.op /\ cmd'.step = "putdir"
    BY <1>11
  <2>2. ASSUME cmd.op = "mkdir" PROVE top' + 1 <= NB
    <3>1. top + 2 <= NB
      BY <1>8, <2>2
    <3>2. top' <= top + 1 /\ top' \in Nat /\ top \in Nat /\ NB \in Nat
      BY <1>7, <1>10
    <3> QED
      BY <3>1, <3>2, OneMore
  <2>3. RoomLeft'
    BY <2>1, <2>2 DEF RoomLeft, Step
  <2>4. Descriptor'
    BY <1>8, <2>0, <2>1 DEF Descriptor, Step
  <2> QED
    BY <2>3, <2>4
<1>14. Typed'
  BY <1>10, <1>12, <1>13 DEF Typed, OffIsDisk
<1> QED
  BY <1>2, <1>4, <1>10, <1>11, <1>14

LEMMA PutDirTyped ==
    ASSUME Typed, PutDir
    PROVE  /\ Typed' /\ cmd \in [op : Making, path : Paths, ino : Ino, step : {"putdir"}]
           /\ cmd.op = "mkdir" =>
                /\ cmd' \in [op : {cmd.op}, path : {cmd.path}, ino : {cmd.ino}, step : {"dots"}]
                /\ open' = open
           /\ cmd.op # "mkdir" => open = NoFile /\ open' = [ino |-> cmd.ino, path |-> cmd.path]
           /\ cmd.op = "load" =>
                cmd' \in [op : {cmd.op}, path : {cmd.path}, ino : {cmd.ino}, step : {"copy"}]
           /\ cmd.op = "creat" => cmd' = NoCmd
<1>1. /\ Step("putdir") /\ IPut(cmd.path.dir)
      /\ IF cmd.op = "mkdir" THEN UNCHANGED open ELSE open' = [ino |-> cmd.ino, path |-> cmd.path]
      /\ UNCHANGED <<dur, saved, isaved, seenVars, cwd, made, stuck, histVars>>
  BY DEF PutDir
<1>2. cmd \in [op : Making, path : Paths, ino : Ino, step : {"putdir"}]
  BY <1>1, Steps DEF Typed
<1>3. UNCHANGED <<core, cur, dur, top, itop, saved, isaved, cwd, made, stuck, torn, loose>>
  BY <1>1 DEF seenVars, histVars
<1>4. Volume(core) /\ Volume(dinode) /\ Store(cur) /\ Store(dur) /\ Rest
  BY TypedParts, RestOfType DEF Typed
<1>5. /\ cmd.op = "mkdir" => top + 1 <= NB
      /\ cmd.op = "mkdir" \/ open = NoFile
  BY <1>1 DEF Typed, RoomLeft, Descriptor
<1>6. cmd.path.dir \in Ino /\ cmd.path \in Path /\ cmd.ino \in Ino
  BY <1>2, PathFields
<1>7. Volume(dinode')
  BY <1>1, <1>4, <1>6, PutTyped
<1>8. Rest'
  BY <1>1, <1>3, <1>4, <1>6 DEF Rest
<1>9. TypeOK'
  BY <1>3, <1>4, <1>7, <1>8, TypedNext
<1>10. CASE cmd.op = "mkdir"
  <2>1. cmd' = [cmd EXCEPT !.step = "dots"] /\ open' = open
    BY <1>1, <1>10 DEF PutDir, Goto
  <2>2. cmd' \in [op : {cmd.op}, path : {cmd.path}, ino : {cmd.ino}, step : {"dots"}]
    BY <1>2, <2>1
  <2>3. cmd' \in Cmd /\ cmd' # Off
    BY <1>2, <1>10, <2>2 DEF Cmd, Off
  <2>4. RoomLeft' /\ Descriptor'
    BY <1>3, <1>5, <1>10, <2>2 DEF RoomLeft, Descriptor, Step
  <2> QED
    BY <1>2, <1>9, <1>10, <2>1, <2>2, <2>3, <2>4 DEF Typed, OffIsDisk
<1>11. CASE cmd.op = "load"
  <2>1. cmd' = [cmd EXCEPT !.step = "copy"] /\ open' = [ino |-> cmd.ino, path |-> cmd.path]
    BY <1>1, <1>11 DEF PutDir, Goto
  <2>2. cmd' \in [op : {cmd.op}, path : {cmd.path}, ino : {cmd.ino}, step : {"copy"}]
    BY <1>2, <2>1
  <2>3. cmd' \in Cmd /\ cmd' # Off
    BY <1>2, <1>11, <2>2 DEF Cmd, Off
  <2>4. open' # NoFile
    BY <1>6, <2>1 DEF NoFile, Ino
  <2>5. RoomLeft' /\ Descriptor'
    BY <1>11, <2>2, <2>4 DEF RoomLeft, Descriptor, Step
  <2> QED
    BY <1>2, <1>5, <1>9, <1>11, <2>1, <2>2, <2>3, <2>5 DEF Typed, OffIsDisk
<1>12. CASE cmd.op = "creat"
  <2>1. cmd' = NoCmd /\ open' = [ino |-> cmd.ino, path |-> cmd.path]
    BY <1>1, <1>12 DEF PutDir, Done
  <2>2. cmd' \in Cmd /\ cmd' # Off
    BY <2>1 DEF Cmd, Off, NoCmd
  <2>3. RoomLeft' /\ Descriptor'
    BY <2>1, NothingToMake
  <2> QED
    BY <1>2, <1>5, <1>9, <1>12, <2>1, <2>2, <2>3 DEF Typed, OffIsDisk
<1> QED
  BY <1>2, <1>10, <1>11, <1>12 DEF Making

LEMMA WriteDotsTyped ==
    ASSUME Typed, WriteDots
    PROVE  /\ Typed' /\ cmd \in [op : {"mkdir"}, path : Paths, ino : Ino, step : {"dots"}]
           /\ cmd' \in [op : {cmd.op}, path : {cmd.path}, ino : {cmd.ino}, step : {"savedata"}]
           /\ Wrote(cmd.ino, 1, Dots)
<1>1. /\ Step("dots") /\ WriteI(cmd.ino, 1, Dots)
      /\ made' = made \cup {cmd.ino}
      /\ cmd' = [cmd EXCEPT !.step = "savedata"]
      /\ UNCHANGED <<dinode, saved, isaved, itop, cwd, stuck, open, histVars>>
  BY DEF WriteDots, Goto
<1>2. cmd \in [op : {"mkdir"}, path : Paths, ino : Ino, step : {"dots"}]
  BY <1>1, Steps DEF Typed
<1>3. UNCHANGED <<dinode, saved, isaved, itop, cwd, stuck, open, torn, loose>>
  BY <1>1 DEF histVars
<1>4. top + 1 <= NB
  BY <1>1, <1>2 DEF Typed, RoomLeft
<1>5. 1 \in 1 .. core[cmd.ino].size + 1 /\ Dots \in Unit /\ cmd.ino \in Ino
  <2>1. cmd.ino \in Ino
    BY <1>2
  <2>2. core[cmd.ino].size \in Nat
    BY <2>1, TypedParts, InodeFields DEF Typed
  <2> QED
    BY <2>1, <2>2 DEF Unit
<1>6. made' \subseteq Ino
  BY <1>1, <1>5, RestOfType DEF Typed, Rest
<1>7. TypeOK' /\ Wrote(cmd.ino, 1, Dots)
  BY <1>1, <1>3, <1>4, <1>5, <1>6, WrittenTyped
<1>8. cmd' \in [op : {cmd.op}, path : {cmd.path}, ino : {cmd.ino}, step : {"savedata"}]
  BY <1>1, <1>2
<1>9. cmd' \in Cmd /\ cmd' # Off
  BY <1>2, <1>8 DEF Cmd, Off
<1>10. RoomLeft' /\ Descriptor'
  BY <1>8, NothingToMake
<1> QED
  BY <1>2, <1>7, <1>8, <1>9, <1>10 DEF Typed, OffIsDisk

\* A unit behind the last of the open file, by load or write.
LEMMA AppendTyped ==
    ASSUME Typed, open # NoFile, Longer,
           WriteI(open.ino, core[open.ino].size + 1, [tag |-> "data", path |-> open.path]),
           UNCHANGED <<dinode, saved, isaved, itop, userVars, torn, loose>>
    PROVE  /\ TypeOK' /\ open.ino \in Ino
           /\ Wrote(open.ino, core[open.ino].size + 1, [tag |-> "data", path |-> open.path])
<1> DEFINE unit == [tag |-> "data", path |-> open.path]
<1>1. UNCHANGED <<dinode, saved, isaved, itop, cwd, made, stuck, open, torn, loose>>
  BY DEF userVars
<1>2. Rest
  BY RestOfType DEF Typed
<1>3. open.ino \in Ino /\ open.path \in Path
  BY <1>2 DEF Rest
<1>4. unit \in Unit
  BY <1>3 DEF Unit, Data
<1>5. core[open.ino].size + 1 \in 1 .. core[open.ino].size + 1
  BY <1>3, TypedParts, InodeFields DEF Typed
<1>6. top + 1 <= NB /\ made' \subseteq Ino
  BY <1>1, <1>2 DEF Longer, Rest
<1> HIDE DEF unit
<1>7. TypeOK' /\ Wrote(open.ino, core[open.ino].size + 1, unit)
  <2>1. WriteI(open.ino, core[open.ino].size + 1, unit)
    BY DEF unit
  <2> QED
    BY <1>1, <1>3, <1>4, <1>5, <1>6, <2>1, WrittenTyped
<1> QED
  BY <1>3, <1>7 DEF unit

LEMMA CopyTyped ==
    ASSUME Typed, Copy
    PROVE  /\ Typed' /\ open # NoFile /\ open.ino \in Ino
           /\ Wrote(open.ino, core[open.ino].size + 1, [tag |-> "data", path |-> open.path])
<1>1. /\ Step("copy") /\ Longer
      /\ WriteI(open.ino, core[open.ino].size + 1, [tag |-> "data", path |-> open.path])
      /\ UNCHANGED <<dinode, saved, isaved, itop, userVars, cmd, histVars>>
  BY DEF Copy
<1>2. UNCHANGED <<dinode, saved, isaved, itop, userVars, torn, loose>> /\ cmd' = cmd /\ open' = open
  BY <1>1 DEF histVars, userVars
<1>3. open # NoFile
  BY <1>1 DEF Typed, Descriptor
<1>4. /\ TypeOK' /\ open.ino \in Ino
      /\ Wrote(open.ino, core[open.ino].size + 1, [tag |-> "data", path |-> open.path])
  BY <1>1, <1>2, <1>3, AppendTyped
<1>5. RoomLeft' /\ Descriptor'
  BY <1>1, <1>2, <1>3 DEF RoomLeft, Descriptor, Step
<1>6. cmd' \in Cmd /\ cmd' # Off
  BY <1>1, <1>2 DEF Typed, Step, Off
<1> QED
  BY <1>3, <1>4, <1>5, <1>6 DEF Typed, OffIsDisk

LEMMA WriteTyped ==
    ASSUME Typed, Write
    PROVE  /\ Typed' /\ open # NoFile /\ open.ino \in Ino
           /\ Wrote(open.ino, core[open.ino].size + 1, [tag |-> "data", path |-> open.path])
<1>1. /\ open # NoFile /\ Longer
      /\ WriteI(open.ino, core[open.ino].size + 1, [tag |-> "data", path |-> open.path])
      /\ cmd' = [op |-> "write", ino |-> 0, step |-> "savedata"]
      /\ UNCHANGED <<dinode, saved, isaved, itop, userVars, crashes, torn, loose>>
  BY DEF Write
<1>2. /\ TypeOK' /\ open.ino \in Ino
      /\ Wrote(open.ino, core[open.ino].size + 1, [tag |-> "data", path |-> open.path])
  BY <1>1, AppendTyped
<1>3. RoomLeft' /\ Descriptor'
  BY <1>1, NothingToMake
<1>4. cmd' \in Cmd /\ cmd' # Off
  BY <1>1 DEF Cmd, Off
<1> QED
  BY <1>1, <1>2, <1>3, <1>4 DEF Typed, OffIsDisk

\* Steps of a command that leave what the calls see as it is.
LEMMA SettleTyped ==
    ASSUME Typed, UNCHANGED <<core, cur, top, itop, torn>>, Volume(dinode'), Store(dur'),
           Rest', cmd' \in Cmd, cmd' # Off, RoomLeft', Descriptor'
    PROVE  Typed'
<1>1. TypeOK'
  BY TypedParts, TypedNext DEF Typed
<1> QED
  BY <1>1 DEF Typed, OffIsDisk

LEMMA LoadCloseTyped ==
    ASSUME Typed, LoadClose
    PROVE  /\ Typed' /\ cmd \in [op : {"load"}, path : Paths, ino : Ino, step : {"copy"}]
           /\ open # NoFile /\ open.ino \in Ino /\ IPut(open.ino) /\ open' = NoFile
           /\ cmd' \in [op : {"load"}, path : {cmd.path}, ino : {cmd.ino}, step : {"savedata"}]
<1>1. /\ Step("copy") /\ IPut(open.ino) /\ open' = NoFile /\ cmd' = [cmd EXCEPT !.step = "savedata"]
      /\ UNCHANGED <<dur, saved, isaved, seenVars, cwd, made, stuck, histVars>>
  BY DEF LoadClose, Goto
<1>2. UNCHANGED <<core, cur, dur, top, itop, saved, isaved, cwd, made, stuck, torn, loose>>
  BY <1>1 DEF seenVars, histVars
<1>3. cmd \in [op : {"load"}, path : Paths, ino : Ino, step : {"copy"}]
  BY <1>1, Steps DEF Typed
<1>4. Volume(core) /\ Volume(dinode) /\ Store(dur) /\ Rest
  BY TypedParts, RestOfType DEF Typed
<1>5. open # NoFile /\ open.ino \in Ino
  BY <1>1, <1>4 DEF Typed, Descriptor, Rest
<1>6. Volume(dinode') /\ Store(dur')
  BY <1>1, <1>2, <1>4, <1>5, PutTyped
<1>7. Rest'
  BY <1>1, <1>2, <1>4 DEF Rest
<1>8. cmd' \in [op : {"load"}, path : {cmd.path}, ino : {cmd.ino}, step : {"savedata"}]
  BY <1>1, <1>3
<1>9. cmd' \in Cmd /\ cmd' # Off
  BY <1>3, <1>8 DEF Cmd, Off
<1>10. RoomLeft' /\ Descriptor'
  BY <1>8, NothingToMake
<1>11. Typed'
  BY <1>2, <1>6, <1>7, <1>9, <1>10, SettleTyped
<1> QED
  BY <1>1, <1>3, <1>5, <1>8, <1>11

LEMMA CloseTyped ==
    ASSUME Typed, Close
    PROVE  Typed' /\ open.ino \in Ino
<1>1. /\ Ready /\ open # NoFile /\ IPut(open.ino) /\ open' = NoFile
      /\ UNCHANGED <<dur, saved, isaved, seenVars, cwd, made, stuck, cmd, histVars>>
  BY DEF Close
<1>2. UNCHANGED <<core, cur, dur, top, itop, saved, isaved, cwd, made, stuck, cmd, torn, loose>>
  BY <1>1 DEF seenVars, histVars
<1>3. Volume(core) /\ Volume(dinode) /\ Store(dur) /\ Rest
  BY TypedParts, RestOfType DEF Typed
<1>4. open.ino \in Ino
  BY <1>1, <1>3 DEF Rest
<1>5. Volume(dinode') /\ Store(dur')
  BY <1>1, <1>2, <1>3, <1>4, PutTyped
<1>6. Rest'
  BY <1>1, <1>2, <1>3 DEF Rest
<1>7. cmd' = NoCmd /\ cmd' \in Cmd /\ cmd' # Off
  BY <1>1, <1>2 DEF Cmd, Off, Ready, NoCmd
<1>8. RoomLeft' /\ Descriptor'
  BY <1>7, NothingToMake
<1> QED
  BY <1>2, <1>4, <1>5, <1>6, <1>7, <1>8, SettleTyped

LEMMA CdTyped ==
    ASSUME Typed, NEW p \in Paths, Cd(p.dir)
    PROVE  Typed' /\ Volume(dinode') /\ cwd \in Ino
<1>1. /\ Ready /\ cwd' = p.dir
      /\ IF cwd \in {Root} \cup made \cup stuck THEN UNCHANGED dinode ELSE IUpdate(cwd)
      /\ UNCHANGED <<dur, saved, isaved, seenVars, made, stuck, open, cmd, histVars>>
  BY DEF Cd
<1>2. UNCHANGED <<core, cur, dur, top, itop, saved, isaved, made, stuck, open, cmd, torn, loose>>
  BY <1>1 DEF seenVars, histVars
<1>3. Volume(core) /\ Volume(dinode) /\ Store(dur) /\ Rest
  BY TypedParts, RestOfType DEF Typed
<1>4. cwd \in Ino
  BY <1>3 DEF Rest
<1>5. Volume(dinode') /\ Store(dur')
  BY <1>1, <1>2, <1>3, <1>4, UpdatedTyped
<1>6. Rest'
  BY <1>1, <1>2, <1>3, PathFields DEF Rest
<1>7. cmd' = NoCmd /\ cmd' \in Cmd /\ cmd' # Off
  BY <1>1, <1>2 DEF Cmd, Off, Ready, NoCmd
<1>8. RoomLeft' /\ Descriptor'
  BY <1>7, NothingToMake
<1> QED
  BY <1>2, <1>4, <1>5, <1>6, <1>7, <1>8, SettleTyped

LEMMA SaveDataTyped ==
    ASSUME Typed, SaveData
    PROVE  /\ Typed'
           /\ cmd.op \in {"load", "write"} => cmd' = NoCmd
           /\ cmd.op \notin {"load", "write"} =>
                /\ cmd.op \in {"mkdir", "exit"} /\ cmd'.op = cmd.op /\ cmd'.ino = cmd.ino
                /\ cmd'.step = "saveinode" /\ (cmd.op = "mkdir" => cmd'.path = cmd.path)
<1>1. /\ Step("savedata") /\ saved' = top /\ loose' = {}
      /\ IF cmd.op \in {"load", "write"} THEN cmd' = NoCmd ELSE cmd' = [cmd EXCEPT !.step = "saveinode"]
      /\ UNCHANGED <<dinode, dur, isaved, seenVars, userVars, crashes, kept, torn>>
  BY DEF SaveData, Done, Goto
<1>2. UNCHANGED <<core, dinode, cur, dur, top, itop, isaved, cwd, made, stuck, open, torn>>
  BY <1>1 DEF seenVars, userVars
<1>3. Volume(dinode) /\ Store(dur) /\ Rest
  BY TypedParts, RestOfType DEF Typed
<1>4. Rest'
  <2>1. saved' \in 0 .. NB /\ top' \in saved' .. NB
    BY <1>1, <1>2, <1>3, SizeOfBlock DEF Rest
  <2> QED
    BY <1>1, <1>2, <1>3, <2>1 DEF Rest
<1>5. CASE cmd.op \in {"load", "write"}
  <2>1. cmd' = NoCmd /\ cmd' \in Cmd /\ cmd' # Off
    BY <1>1, <1>5 DEF Cmd, Off, NoCmd
  <2>2. RoomLeft' /\ Descriptor'
    BY <2>1, NothingToMake
  <2>3. Typed'
    BY <1>2, <1>3, <1>4, <2>1, <2>2, SettleTyped
  <2> QED
    BY <1>5, <2>1, <2>3
<1>6. CASE cmd.op \notin {"load", "write"}
  <2>1. cmd' = [cmd EXCEPT !.step = "saveinode"]
    BY <1>1, <1>6
  <2>2. \/ cmd \in [op : {"mkdir"}, path : Paths, ino : Ino \cup {0}, step : {"savedata"}]
        \/ cmd \in [op : {"exit"}, ino : {0}, step : {"savedata"}]
    BY <1>1, <1>6, Steps DEF Typed
  <2>3. \/ /\ cmd' \in [op : {"mkdir"}, path : Paths, ino : Ino \cup {0}, step : {"saveinode"}]
           /\ cmd.op = "mkdir" /\ cmd'.ino = cmd.ino /\ cmd'.path = cmd.path
        \/ /\ cmd' \in [op : {"exit"}, ino : {0}, step : {"saveinode"}]
           /\ cmd.op = "exit" /\ cmd'.ino = cmd.ino
    BY <2>1, <2>2
  <2>4. cmd' \in Cmd /\ cmd' # Off /\ cmd'.step = "saveinode" /\ cmd'.op = cmd.op /\ cmd'.ino = cmd.ino
    BY <2>3 DEF Cmd, Off
  <2>5. RoomLeft' /\ Descriptor'
    BY <2>4, NothingToMake
  <2>6. Typed'
    BY <1>2, <1>3, <1>4, <2>4, <2>5, SettleTyped
  <2> QED
    BY <1>6, <2>3, <2>4, <2>6
<1> QED
  BY <1>5, <1>6

LEMMA SaveInodeTyped ==
    ASSUME Typed, SaveInode
    PROVE  /\ Typed'
           /\ \/ cmd.op = "mkdir" /\ cmd' = NoCmd
              \/ cmd.op = "exit" /\ cmd' \in [op : {"exit"}, ino : {0}, step : {"flush"}]
<1>1. /\ Step("saveinode") /\ isaved' = itop
      /\ IF cmd.op = "mkdir" THEN cmd' = NoCmd ELSE cmd' = [cmd EXCEPT !.step = "flush"]
      /\ UNCHANGED <<dinode, dur, saved, seenVars, userVars, histVars>>
  BY DEF SaveInode, Done, Goto
<1>2. UNCHANGED <<core, dinode, cur, dur, top, itop, saved, cwd, made, stuck, open, torn, loose>>
  BY <1>1 DEF seenVars, userVars, histVars
<1>3. Volume(dinode) /\ Store(dur) /\ Rest
  BY TypedParts, RestOfType DEF Typed
<1>4. Rest'
  <2>1. isaved' \in 1 .. NI + 1 /\ itop' \in isaved' .. NI + 1
    BY <1>1, <1>2, <1>3, SizeOfBlock DEF Rest
  <2> QED
    BY <1>1, <1>2, <1>3, <2>1 DEF Rest
<1>5. \/ cmd \in [op : {"mkdir"}, path : Paths, ino : Ino \cup {0}, step : {"saveinode"}]
      \/ cmd \in [op : {"exit"}, ino : {0}, step : {"saveinode"}]
  BY <1>1, Steps DEF Typed
<1>6. \/ cmd.op = "mkdir" /\ cmd' = NoCmd
      \/ cmd.op = "exit" /\ cmd' \in [op : {"exit"}, ino : {0}, step : {"flush"}]
  BY <1>1, <1>5
<1>7. cmd' \in Cmd /\ cmd' # Off
  BY <1>6 DEF Cmd, Off, NoCmd
<1>8. RoomLeft' /\ Descriptor'
  BY <1>6, NothingToMake
<1> QED
  BY <1>2, <1>3, <1>4, <1>6, <1>7, <1>8, SettleTyped

LEMMA ExitTyped ==
    ASSUME Typed, Exit
    PROVE  Typed'
<1>1. /\ cmd' = [op |-> "exit", ino |-> 0, step |-> "savedata"]
      /\ UNCHANGED <<diskVars, seenVars, userVars, histVars>>
  BY DEF Exit
<1>2. UNCHANGED <<core, dinode, cur, dur, top, itop, saved, isaved, cwd, made, stuck, open, torn, loose>>
  BY <1>1 DEF diskVars, seenVars, userVars, histVars
<1>3. Rest'
  BY <1>2, RestOfType DEF Typed, Rest
<1>4. cmd' \in Cmd /\ cmd' # Off
  BY <1>1 DEF Cmd, Off
<1> QED
  BY <1>1, <1>2, <1>3, <1>4, QuietTyped

LEMMA BflushTyped ==
    ASSUME Typed, Bflush
    PROVE  Typed' /\ cmd.op = "exit" /\ cmd' \in [op : {"exit"}, ino : {0}, step : {"update"}]
<1>1. /\ Step("flush") /\ dur' = cur /\ cmd' = [cmd EXCEPT !.step = "update"]
      /\ UNCHANGED <<dinode, saved, isaved, seenVars, userVars, histVars>>
  BY DEF Bflush, Goto
<1>2. UNCHANGED <<core, dinode, cur, top, itop, saved, isaved, cwd, made, stuck, open, torn, loose>>
  BY <1>1 DEF seenVars, userVars, histVars
<1>3. Volume(dinode) /\ Store(cur) /\ Rest
  BY TypedParts, RestOfType DEF Typed
<1>4. Rest' /\ Volume(dinode') /\ Store(dur')
  BY <1>1, <1>2, <1>3 DEF Rest
<1>5. cmd \in [op : {"exit"}, ino : {0}, step : {"flush"}]
  BY <1>1, Steps DEF Typed
<1>6. cmd' \in [op : {"exit"}, ino : {0}, step : {"update"}] /\ cmd.op = "exit"
  BY <1>1, <1>5
<1>7. cmd' \in Cmd /\ cmd' # Off
  BY <1>6 DEF Cmd, Off
<1>8. RoomLeft' /\ Descriptor'
  BY <1>6, NothingToMake
<1> QED
  BY <1>2, <1>4, <1>6, <1>7, <1>8, SettleTyped

LEMMA UpdateTyped ==
    ASSUME Typed, UpdateInodeTable
    PROVE  Typed' /\ cmd.op = "exit" /\ cmd' \in [op : {"exit"}, ino : {0}, step : {"close"}]
<1> DEFINE put == (Pinned \cup {open.ino}) \ stuck
<1>1. /\ Step("update") /\ cmd' = [cmd EXCEPT !.step = "close"]
      /\ dinode' = [i \in Ino |-> IF i \in put THEN core[i] ELSE dinode[i]]
      /\ UNCHANGED <<dur, saved, isaved, seenVars, userVars, histVars>>
  BY DEF UpdateInodeTable, Goto
<1>2. UNCHANGED <<core, cur, dur, top, itop, saved, isaved, cwd, made, stuck, open, torn, loose>>
  BY <1>1 DEF seenVars, userVars, histVars
<1>3. Volume(core) /\ Volume(dinode) /\ Store(dur) /\ Rest
  BY TypedParts, RestOfType DEF Typed
<1> HIDE DEF put
<1>4. Rest' /\ Store(dur')
  BY <1>2, <1>3 DEF Rest
<1>5. Volume(dinode')
  BY <1>1, <1>3 DEF Volume
<1>6. cmd \in [op : {"exit"}, ino : {0}, step : {"update"}]
  BY <1>1, Steps DEF Typed
<1>7. cmd' \in [op : {"exit"}, ino : {0}, step : {"close"}] /\ cmd.op = "exit"
  BY <1>1, <1>6
<1>8. cmd' \in Cmd /\ cmd' # Off
  BY <1>7 DEF Cmd, Off
<1>9. RoomLeft' /\ Descriptor'
  BY <1>7, NothingToMake
<1> QED
  BY <1>2, <1>4, <1>5, <1>7, <1>8, <1>9, SettleTyped

\* A session is over, and the disk is of its types.
LEMMA GoneTyped ==
    ASSUME Typed, Gone, Volume(dinode'), UNCHANGED <<dur, saved, isaved, torn>>, loose' \subseteq loose
    PROVE  Typed'
<1>1. Store(dur) /\ Rest
  BY TypedParts, RestOfType DEF Typed
<1>2. /\ core' = dinode' /\ cur' = dur' /\ top' = saved' /\ itop' = isaved'
      /\ cwd' = Root /\ made' = {} /\ stuck' = {} /\ open' = NoFile /\ cmd' = Off
  BY DEF Gone
<1>3. Rest'
  <2>1. saved' \in 0 .. NB /\ top' \in saved' .. NB
    BY <1>1, <1>2, SizeOfBlock DEF Rest
  <2>2. isaved' \in 1 .. NI + 1 /\ itop' \in isaved' .. NI + 1
    BY <1>1, <1>2, SizeOfBlock DEF Rest
  <2>3. cwd' \in Ino
    BY <1>2, SizeOfBlock DEF Ino, Root
  <2> QED
    BY <1>1, <1>2, <2>1, <2>2, <2>3 DEF Rest
<1>4. TypeOK'
  BY <1>1, <1>2, <1>3, TypedNext
<1>5. RoomLeft' /\ Descriptor' /\ cmd' \in Cmd
  BY <1>2, NothingToMake DEF Cmd
<1>6. OffIsDisk'
  BY <1>2 DEF OffIsDisk
<1> QED
  BY <1>4, <1>5, <1>6 DEF Typed

LEMMA CloseAllTyped ==
    ASSUME Typed, CloseAll
    PROVE  Typed' /\ Volume(dinode') /\ (open # NoFile => open.ino \in Ino)
<1>1. /\ IF open = NoFile THEN UNCHANGED dinode ELSE IPut(open.ino)
      /\ UNCHANGED <<dur, saved, isaved, crashes, torn, loose>> /\ Gone
  BY DEF CloseAll
<1>2. Volume(core) /\ Volume(dinode) /\ Rest
  BY TypedParts, RestOfType DEF Typed
<1>3. open # NoFile => open.ino \in Ino
  BY <1>2 DEF Rest
<1>4. Volume(dinode')
  BY <1>1, <1>2, <1>3, PutTyped
<1> QED
  BY <1>1, <1>3, <1>4, GoneTyped

LEMMA EvictTyped ==
    ASSUME Typed, NEW b \in Block, Evict(b)
    PROVE  /\ Typed' /\ dur' \in [Block -> [0 .. U - 1 -> Unit]] /\ dur'[b] = cur[b]
           /\ \A c \in Block : c # b => dur'[c] = dur[c]
<1>1. /\ dur' = [dur EXCEPT ![b] = cur[b]] /\ cmd # Off
      /\ UNCHANGED <<dinode, saved, isaved, seenVars, userVars, cmd, histVars>>
  BY DEF Evict
<1>2. UNCHANGED <<core, dinode, cur, top, itop, saved, isaved, cwd, made, stuck, open, torn, loose, cmd>>
  BY <1>1 DEF seenVars, userVars, histVars
<1>3. Volume(dinode) /\ Store(cur) /\ Store(dur) /\ Rest
  BY TypedParts, RestOfType DEF Typed
<1>4. Rest' /\ Volume(dinode')
  BY <1>2, <1>3 DEF Rest
<1>5. Store(dur') /\ dur'[b] = cur[b] /\ \A c \in Block : c # b => dur'[c] = dur[c]
  BY <1>1, <1>3 DEF Store
<1>6. RoomLeft' /\ Descriptor'
  BY <1>2 DEF Typed, RoomLeft, Descriptor, Step
<1>7. cmd' \in Cmd /\ cmd' # Off
  BY <1>1, <1>2 DEF Typed
<1>8. Typed'
  BY <1>2, <1>4, <1>5, <1>6, <1>7, SettleTyped
<1> QED
  BY <1>5, <1>8 DEF Store

LEMMA CrashTyped ==
    ASSUME Typed, Crash
    PROVE  Typed'
<1>1. UNCHANGED <<dinode, dur, saved, isaved, kept, torn>> /\ loose' = {} /\ Gone
  BY DEF Crash, diskVars
<1>2. Volume(dinode')
  BY <1>1, TypedParts DEF Typed
<1> QED
  BY <1>1, <1>2, GoneTyped

LEMMA StartTyped ==
    ASSUME Typed, Start
    PROVE  Typed' /\ UNCHANGED <<core, dinode, cur, dur, top, itop, saved, isaved, cwd, made, stuck, open, loose>>
<1>1. /\ cmd' = NoCmd /\ torn' = (torn \/ ~ Consistent)
      /\ UNCHANGED <<diskVars, seenVars, userVars, crashes, kept, loose>>
  BY DEF Start
<1>2. UNCHANGED <<core, dinode, cur, dur, top, itop, saved, isaved, cwd, made, stuck, open, loose>>
  BY <1>1 DEF diskVars, seenVars, userVars
<1>3. torn' \in BOOLEAN
  BY <1>1
<1>4. Rest'
  BY <1>2, <1>3, RestOfType DEF Typed, Rest
<1>5. cmd' \in Cmd /\ cmd' # Off
  BY <1>1 DEF Cmd, NoCmd, Off
<1> QED
  BY <1>1, <1>2, <1>4, <1>5, QuietTyped

LEMMA InitTyped ==
    ASSUME Init
    PROVE  Typed
<1>0. U \in Nat /\ NB \in Nat /\ NI \in Nat /\ U > 1 /\ NB > 1 /\ NI > 1
  BY SizeOfBlock
<1>1. /\ core = Formatted /\ dinode = Formatted /\ cur = FormattedBlocks /\ dur = FormattedBlocks
      /\ top = 2 /\ saved = 2 /\ itop = 3 /\ isaved = 3
      /\ cwd = Root /\ made = {} /\ stuck = {} /\ open = NoFile /\ cmd = Off
      /\ torn = FALSE /\ loose = {}
  BY DEF Init
<1>2. Volume(Formatted)
  <2> DEFINE v(i) == IF i \in {1, 2} THEN [type |-> "dir", addr |-> <<i - 1>>, size |-> 3 - i] ELSE Free
  <2>1. Formatted = [i \in Ino |-> v(i)]
    BY DEF Formatted
  <2>2. ASSUME NEW i \in Ino PROVE v(i) \in Inode /\ Needed(v(i).size) = Len(v(i).addr)
    <3>1. CASE i \in {1, 2}
      <4>1. v(i) = [type |-> "dir", addr |-> <<i - 1>>, size |-> 3 - i]
        BY <3>1
      <4>2. i - 1 \in Block /\ 3 - i \in {1, 2}
        BY <1>0, <3>1 DEF Block
      <4>3. <<i - 1>> \in Seq(Block) /\ Len(<<i - 1>>) = 1
        BY <4>2
      <4>4. v(i) \in Inode
        <5>1. 3 - i \in Nat
          BY <4>2
        <5> HIDE DEF v
        <5>2. v(i).type = "dir" /\ v(i).addr = <<i - 1>> /\ v(i).size = 3 - i
          BY <4>1
        <5> DEFINE a == <<i - 1>>
                   n == 3 - i
        <5>3. v(i) = [type |-> "dir", addr |-> a, size |-> n] /\ a \in Seq(Block) /\ n \in Nat
          BY <4>1, <4>3, <5>1
        <5> HIDE DEF a, n
        <5> QED
          BY <5>3 DEF Inode
      <4>5. Needed(1) = 1 /\ Needed(2) = 1
        <5>1. Needed(1) <= 1 /\ Needed(1) \in Nat
          <6>1. Needed(0 + 1) <= Needed(0) + 1
            BY NeededNext
          <6> QED
            BY <6>1, NeededBlocks
        <5>2. (1 * U + 0) \div U = 1 /\ (1 * U + 1) \div U = 1
          BY <1>0, QuotientUnique
        <5>3. 1 + U - 1 = 1 * U + 0 /\ 2 + U - 1 = 1 * U + 1
          BY <1>0
        <5> QED
          BY <5>2, <5>3 DEF Needed
      <4>6. v(i).size \in {1, 2} /\ v(i).addr = <<i - 1>>
        BY <4>1, <4>2
      <4> HIDE DEF v
      <4> QED
        BY <4>3, <4>4, <4>5, <4>6
    <3>2. CASE i \notin {1, 2}
      BY <3>2, EmptyInode DEF Free
    <3> QED
      BY <3>1, <3>2
  <2> HIDE DEF v
  <2> QED
    BY <2>1, <2>2 DEF Volume
<1>3. Store(FormattedBlocks)
  <2> DEFINE w(b, x) == IF b \in {0, 1} /\ x = 0 THEN Dots
                        ELSE IF b = 0 /\ x = 1 THEN [tag |-> "entry", name |-> Sub, ino |-> 2]
                        ELSE Zero
  <2>1. FormattedBlocks = [b \in Block |-> [x \in 0 .. U - 1 |-> w(b, x)]]
    BY DEF FormattedBlocks
  <2>2. [tag |-> "entry", name |-> Sub, ino |-> 2] \in Entry
    BY <1>0, SizesAssumption DEF Entry, Ino
  <2>3. \A b \in Block : \A x \in 0 .. U - 1 : w(b, x) \in Unit
    BY <2>2 DEF Unit
  <2> HIDE DEF w
  <2> QED
    BY <2>1, <2>3 DEF Store
<1>4. Rest
  <2>1. saved \in 0 .. NB /\ top \in saved .. NB
    BY <1>0, <1>1
  <2>2. isaved \in 1 .. NI + 1 /\ itop \in isaved .. NI + 1
    BY <1>0, <1>1
  <2>3. cwd \in Ino
    BY <1>0, <1>1 DEF Root, Ino
  <2> QED
    BY <1>1, <2>1, <2>2, <2>3 DEF Rest
<1>5. TypeOK
  <2>1. \A I \in {core, dinode} :
          /\ I \in [Ino -> Inode]
          /\ \A i \in Ino : (I[i].size + U - 1) \div U = Len(I[i].addr)
    BY <1>1, <1>2 DEF Volume, Needed
  <2>2. \A S \in {cur, dur} : S \in [Block -> [0 .. U - 1 -> Unit]]
    BY <1>1, <1>3 DEF Store
  <2> QED
    BY <1>4, <2>1, <2>2 DEF TypeOK, Rest
<1>6. cmd \in Cmd
  BY <1>1 DEF Cmd
<1>7. RoomLeft /\ Descriptor /\ OffIsDisk
  BY <1>1 DEF RoomLeft, Descriptor, OffIsDisk, Step, Off
<1> QED
  BY <1>5, <1>6, <1>7 DEF Typed

\* The steps of Next.
StepOfPath(p) ==
    \/ \E op \in {"creat", "mkdir", "load"} : BeginNew(op, p) \/ BeginOver(op, p)
    \/ BeginTaken(p) \/ BeginAstray(p) \/ Open(p) \/ Cd(p.dir)

LEMMA TypedStep ==
    ASSUME Typed, [Next]_vars
    PROVE  Typed'
<1>1. ASSUME NEW p \in Paths, StepOfPath(p) PROVE Typed'
  <2>1. ASSUME NEW op \in {"creat", "mkdir", "load"}, BeginNew(op, p) PROVE Typed'
    BY <2>1, BeginNewTyped DEF Making
  <2>2. ASSUME NEW op \in {"creat", "mkdir", "load"}, BeginOver(op, p) PROVE Typed'
    BY <2>2, BeginOverTyped
  <2> QED
    BY <1>1, <2>1, <2>2, BeginTakenTyped, BeginAstrayTyped, OpenTyped, CdTyped DEF StepOfPath
<1>2. ASSUME NEW b \in Block, Evict(b) PROVE Typed'
  BY <1>2, EvictTyped
<1>3. CASE UNCHANGED vars
  <2>1. /\ UNCHANGED <<core, dinode, cur, dur, top, itop, saved, isaved, cwd, made, stuck, open>>
        /\ UNCHANGED <<cmd, torn, loose>>
    BY <1>3 DEF vars
  <2>2. Rest'
    BY <2>1, RestOfType DEF Typed, Rest
  <2>3. TypeOK'
    BY <2>1, <2>2, TypedParts, TypedNext DEF Typed
  <2>4. RoomLeft' /\ Descriptor' /\ OffIsDisk'
    BY <2>1 DEF Typed, RoomLeft, Descriptor, OffIsDisk, Step
  <2> QED
    BY <2>1, <2>3, <2>4 DEF Typed
<1>4. CASE Next
  <2>1. \/ \E p \in Paths : StepOfPath(p)
        \/ IAlloc \/ WriteDir \/ PutDir \/ WriteDots \/ Copy \/ LoadClose \/ Write \/ Close
        \/ SaveData \/ SaveInode \/ Exit \/ Bflush \/ UpdateInodeTable \/ CloseAll
        \/ \E b \in Block : Evict(b)
        \/ Crash \/ Start
    BY <1>4 DEF Next, StepOfPath
  <2> QED
    BY <1>1, <1>2, <2>1, IAllocTyped, WriteDirTyped, PutDirTyped, WriteDotsTyped, CopyTyped,
       LoadCloseTyped, WriteTyped, CloseTyped, SaveDataTyped, SaveInodeTyped, ExitTyped,
       BflushTyped, UpdateTyped, CloseAllTyped, CrashTyped, StartTyped
<1> QED
  BY <1>3, <1>4

\* In every reachable state what is on the disk and in core is of its types, every file
\* has the blocks its size asks for, and the saved bitmap never is ahead of the one in
\* core: the commands of SecondFS.cpp, whatever the crashes between them.
THEOREM SessionsTypeCorrect == Spec => []TypeOK
<1>1. Init => Typed
  BY InitTyped
<1>2. Typed /\ [Next]_vars => Typed'
  BY TypedStep
<1>3. Typed => TypeOK
  BY DEF Typed
<1> QED
  BY <1>1, <1>2, <1>3, PTL DEF Spec

-----------------------------------------------------------------------------
(* The two volumes, by kind of step.                                       *)

LEMMA Bounds ==
    ASSUME Typed
    PROVE  /\ Volume(core) /\ Volume(dinode) /\ Store(cur) /\ Store(dur) /\ Rest
           /\ top \in Nat /\ saved \in Nat /\ saved <= top /\ NB \in Nat /\ 0 \notin Ino
           /\ Root \in Ino /\ cwd \in Ino
           /\ \A b \in Block : b \in Nat
<1>1. Volume(core) /\ Volume(dinode) /\ Store(cur) /\ Store(dur) /\ Rest
  BY TypedParts, RestOfType DEF Typed
<1>2. NB \in Nat /\ NI \in Nat \ {0, 1}
  BY SizeOfBlock
<1> QED
  BY <1>1, <1>2 DEF Rest, Ino, Root, Block

\* An entry is what it is for, and nothing else that a unit can be.
LEMMA EntryParts ==
    ASSUME NEW n \in NameType
    PROVE  /\ EntryOf(n) \in Entry /\ EntryOf(n) # Zero /\ EntryOf(n) # Dots /\ EntryOf(n) \notin Data
           /\ n = [dir |-> n.dir, name |-> n.name, ino |-> n.ino]
           /\ EntryOf(n).name = n.name /\ EntryOf(n).ino = n.ino
<1>1. EntryOf(n) \in Entry
  BY DEF EntryOf, Entry, NameType
<1>2. EntryOf(n) # Zero
  BY <1>1, ZeroAssumption
<1>3. EntryOf(n).tag = "entry" /\ EntryOf(n).name = n.name /\ EntryOf(n).ino = n.ino
  BY DEF EntryOf
<1>4. EntryOf(n) # Dots
  BY <1>3 DEF Dots
<1>5. EntryOf(n) \notin Data
  BY <1>3 DEF Data
<1>6. n = [dir |-> n.dir, name |-> n.name, ino |-> n.ino]
  BY DEF NameType
<1> QED
  BY <1>1, <1>2, <1>3, <1>4, <1>5, <1>6

LEMMA NamesAre ==
    ASSUME NEW I, Volume(I), NEW S, NEW n
    PROVE  n \in Names(I, S) <=>
                /\ n \in NameType /\ I[n.dir].type = "dir"
                /\ \E u \in 1 .. I[n.dir].size : At(I, S, n.dir, u) = EntryOf(n)
<1>1. ASSUME n \in Names(I, S)
      PROVE  /\ n \in NameType /\ I[n.dir].type = "dir"
             /\ \E u \in 1 .. I[n.dir].size : At(I, S, n.dir, u) = EntryOf(n)
  <2>1. PICK d \in Ino : /\ I[d].type = "dir"
                         /\ \E e \in Entries(I, S, d) : n = [dir |-> d, name |-> e.name, ino |-> e.ino]
    BY <1>1 DEF Names
  <2>2. PICK e \in Entries(I, S, d) : n = [dir |-> d, name |-> e.name, ino |-> e.ino]
    BY <2>1
  <2>3. e \in Entry /\ \E u \in 1 .. I[d].size : e = At(I, S, d, u)
    BY DEF Entries, Units
  <2>4. e = [tag |-> "entry", name |-> e.name, ino |-> e.ino] /\ e.name \in Name /\ e.ino \in Ino
    BY <2>3 DEF Entry
  <2>5. n.dir = d /\ EntryOf(n) = e /\ n \in NameType
    BY <2>2, <2>4 DEF EntryOf, NameType
  <2> QED
    BY <2>1, <2>3, <2>5
<1>2. ASSUME n \in NameType, I[n.dir].type = "dir",
             NEW u \in 1 .. I[n.dir].size, At(I, S, n.dir, u) = EntryOf(n)
      PROVE  n \in Names(I, S)
  <2>1. EntryOf(n) \in Entries(I, S, n.dir)
    BY <1>2, EntryParts DEF Entries, Units
  <2>2. n = [dir |-> n.dir, name |-> EntryOf(n).name, ino |-> EntryOf(n).ino] /\ n.dir \in Ino
    BY <1>2, EntryParts DEF NameType
  <2> QED
    BY <1>2, <2>1, <2>2 DEF Names
<1> QED
  BY <1>1, <1>2

LEMMA SharedAreNames ==
    ASSUME Typed, Behind, NEW n \in SharedNames
    PROVE  n \in Names(core, cur) /\ n \in NameType /\ dinode[n.dir].type = "dir"
<1>1. n \in NameType /\ dinode[n.dir].type = "dir"
  BY DEF SharedNames
<1>2. PICK u \in 1 .. dinode[n.dir].size : At(core, cur, n.dir, u) = EntryOf(n)
  BY DEF SharedNames
<1>3. n.dir \in Ino /\ dinode[n.dir].size <= core[n.dir].size /\ core[n.dir].type = "dir"
  BY <1>1 DEF Behind, NameType
<1>4. core[n.dir].size \in Nat /\ dinode[n.dir].size \in Nat
  BY <1>3, Bounds, InodeFields
<1>5. u \in 1 .. core[n.dir].size
  BY <1>3, <1>4
<1> QED
  BY <1>1, <1>2, <1>3, <1>5, NamesAre, Bounds

\* The directories that names lead to stay so, if the names do.
LEMMA SharedDirsGrow ==
    ASSUME dinode[Root].type = "dir", Root \in Ino, SharedNames \subseteq SharedNames',
           \A n \in SharedNames : n.ino \in Ino,
           \A i \in Ino : dinode[i].type = "dir" => dinode'[i].type = "dir"
    PROVE  SharedDirs \subseteq SharedDirs'
<1> SUFFICES ASSUME NEW d \in SharedDirs PROVE d \in SharedDirs'
  OBVIOUS
<1>1. d \in Ino
  BY DEF SharedDirs
<1> SUFFICES ASSUME NEW R \in SUBSET {i \in Ino : dinode'[i].type = "dir"}, Root \in R,
                    \A n \in SharedNames' : dinode'[n.ino].type = "dir" /\ n.dir \in R => n.ino \in R
             PROVE  d \in R
  BY <1>1 DEF SharedDirs
<1> DEFINE Q == R \cap {i \in Ino : dinode[i].type = "dir"}
<1>2. Q \in SUBSET {i \in Ino : dinode[i].type = "dir"} /\ Root \in Q
  OBVIOUS
<1>3. ASSUME NEW n \in SharedNames, dinode[n.ino].type = "dir", n.dir \in Q PROVE n.ino \in Q
  BY <1>3
<1> HIDE DEF Q
<1>4. d \in Q
  BY <1>2, <1>3 DEF SharedDirs
<1> QED
  BY <1>4 DEF Q

\* What is known of a file that is to survive.
LEMMA KeptParts ==
    ASSUME KeptShared, NEW k \in kept
    PROVE  \E n \in SharedNames :
            /\ n.dir \in SharedDirs /\ n.ino \in Ino
            /\ dinode[n.ino].type = "file" /\ Same(n.ino)
            /\ k = [path |-> [dir |-> n.dir, name |-> n.name], text |-> Text(core, cur, n.ino)]
            /\ k.path = [dir |-> n.dir, name |-> n.name]
BY DEF KeptShared, SharedNames, NameType

\* A step after which what is to survive is shared as before.
LEMMA KeptOn ==
    ASSUME KeptShared, kept' \subseteq kept, Root \in Ino, dinode[Root].type = "dir",
           SharedNames \subseteq SharedNames',
           \A i \in Ino : dinode[i].type = "dir" => dinode'[i].type = "dir",
           \A n \in SharedNames, k \in kept' :
                /\ n.ino \in Ino /\ dinode[n.ino].type = "file" /\ Same(n.ino)
                /\ k.path = [dir |-> n.dir, name |-> n.name]
                => /\ dinode'[n.ino].type = "file" /\ Same(n.ino)'
                   /\ Text(core, cur, n.ino)' = Text(core, cur, n.ino)
    PROVE  KeptShared'
<1>1. SharedDirs \subseteq SharedDirs'
  BY SharedDirsGrow DEF SharedNames, NameType
<1> SUFFICES ASSUME NEW k \in kept'
             PROVE  \E n \in SharedNames' :
                        /\ n.dir \in SharedDirs'
                        /\ dinode'[n.ino].type = "file" /\ Same(n.ino)'
                        /\ k = [path |-> [dir |-> n.dir, name |-> n.name],
                                text |-> Text(core, cur, n.ino)']
  BY DEF KeptShared
<1>2. PICK n \in SharedNames :
        /\ n.dir \in SharedDirs /\ n.ino \in Ino
        /\ dinode[n.ino].type = "file" /\ Same(n.ino)
        /\ k = [path |-> [dir |-> n.dir, name |-> n.name], text |-> Text(core, cur, n.ino)]
        /\ k.path = [dir |-> n.dir, name |-> n.name]
  BY KeptParts
<1>3. /\ dinode'[n.ino].type = "file" /\ Same(n.ino)'
      /\ Text(core, cur, n.ino)' = Text(core, cur, n.ino)
  BY <1>2
<1> QED
  BY <1>1, <1>2, <1>3

\* A step after which some of what calls see is on the disk.
Settling ==
    /\ UNCHANGED <<core, cur>>
    /\ \A i \in Ino : dinode'[i] = dinode[i] \/ dinode'[i] = core[i]
    /\ \A b \in Block : dur'[b] = dur[b] \/ dur'[b] = cur[b]

LEMMA SettlingKeeps ==
    ASSUME Typed, Apart, Behind, Settling
    PROVE  /\ Apart' /\ Behind' /\ SharedNames \subseteq SharedNames'
           /\ \A i \in Ino : dinode[i].type # "free" => dinode'[i].type = dinode[i].type
<1>0. core' = core /\ cur' = cur
  BY DEF Settling
<1>1. ASSUME NEW i \in Ino
      PROVE  /\ dinode'[i] = dinode[i] \/ dinode'[i] = core[i]
             /\ Blocks(dinode', i) \subseteq Blocks(core, i) \cup Blocks(dinode, i)
             /\ Blocks(core', i) = Blocks(core, i)
  BY <1>0 DEF Settling, Blocks
<1>2. Apart'
  <2>1. ASSUME NEW i \in Ino, NEW k \in DOMAIN dinode'[i].addr, NEW l \in DOMAIN dinode'[i].addr,
               dinode'[i].addr[k] = dinode'[i].addr[l]
        PROVE  k = l
    <3>1. CASE dinode'[i] = dinode[i]
      BY <2>1, <3>1 DEF Apart
    <3>2. CASE dinode'[i] = core[i]
      BY <2>1, <3>2 DEF Apart
    <3> QED
      BY <1>1, <3>1, <3>2
  <2>2. ASSUME NEW i \in Ino, NEW k \in DOMAIN core'[i].addr, NEW l \in DOMAIN core'[i].addr,
               core'[i].addr[k] = core'[i].addr[l]
        PROVE  k = l
    BY <1>0, <2>2 DEF Apart
  <2>3. ASSUME NEW i \in Ino, NEW j \in Ino, i # j
        PROVE  (Blocks(core', i) \cup Blocks(dinode', i)) \cap (Blocks(core', j) \cup Blocks(dinode', j)) = {}
    <3>1. (Blocks(core, i) \cup Blocks(dinode, i)) \cap (Blocks(core, j) \cup Blocks(dinode, j)) = {}
      BY <2>3 DEF Apart
    <3> QED
      BY <1>1, <3>1
  <2> QED
    BY <2>1, <2>2, <2>3 DEF Apart
<1>3. \A i \in Ino : dinode[i].type # "free" => dinode'[i].type = dinode[i].type
  BY <1>1 DEF Behind
<1>4. Behind'
  <2>1. dinode'[Root].type = "dir"
    BY <1>3, Bounds DEF Behind
  <2>2. \A i \in Ino : dinode'[i].type # "free" => core'[i].type = dinode'[i].type
    BY <1>0, <1>1 DEF Behind
  <2>3. ASSUME NEW d \in Ino, dinode'[d].type = "dir"
        PROVE  /\ dinode'[d].size <= core'[d].size
               /\ \A k \in DOMAIN dinode'[d].addr :
                    k \in DOMAIN core'[d].addr /\ core'[d].addr[k] = dinode'[d].addr[k]
    <3>1. CASE dinode'[d] = dinode[d]
      BY <1>0, <2>3, <3>1 DEF Behind
    <3>2. CASE dinode'[d] = core[d]
      <4>1. core[d].size \in Nat
        BY Bounds, InodeFields
      <4> QED
        BY <1>0, <3>2, <4>1
    <3> QED
      BY <1>1, <3>1, <3>2
  <2> QED
    BY <2>1, <2>2, <2>3 DEF Behind
<1>5. ASSUME NEW n \in SharedNames PROVE n \in SharedNames'
  <2>1. n \in NameType /\ dinode[n.dir].type = "dir" /\ n.dir \in Ino
    BY DEF SharedNames, NameType
  <2>2. PICK u \in 1 .. dinode[n.dir].size :
            At(dinode, dur, n.dir, u) = EntryOf(n) /\ At(core, cur, n.dir, u) = EntryOf(n)
    BY DEF SharedNames
  <2> DEFINE b == dinode[n.dir].addr[Index(u)]
  <2>3. /\ Index(u) \in DOMAIN dinode[n.dir].addr /\ b \in Block /\ u \in Nat \ {0}
        /\ At(dinode, dur, n.dir, u) = dur[b][Offset(u)]
    <3>1. Volume(dinode)
      BY Bounds
    <3>2. Blocks(dinode, n.dir) \subseteq Block
      BY <2>1, <3>1, InodeFields
    <3>3. /\ Index(u) \in DOMAIN dinode[n.dir].addr /\ b \in Blocks(dinode, n.dir) /\ u \in Nat \ {0}
          /\ At(dinode, dur, n.dir, u) = dur[b][Offset(u)]
      BY <2>1, <3>1, UnitAt
    <3> QED
      BY <3>2, <3>3
  <2>4. /\ core[n.dir].type = "dir" /\ core[n.dir].addr[Index(u)] = b
        /\ dinode[n.dir].size <= core[n.dir].size
    BY <2>1, <2>3 DEF Behind
  <2>5. core[n.dir].size \in Nat /\ dinode[n.dir].size \in Nat
    BY <2>1, Bounds, InodeFields
  <2>6. u \in 1 .. core[n.dir].size
    BY <2>4, <2>5
  <2>7. At(core, cur, n.dir, u) = cur[b][Offset(u)]
    BY <2>1, <2>4, <2>6, Bounds, UnitAt
  <2>8. dur'[b][Offset(u)] = EntryOf(n)
    BY <2>2, <2>3, <2>7 DEF Settling
  <2>9. /\ u \in 1 .. dinode'[n.dir].size /\ dinode'[n.dir].type = "dir"
        /\ dinode'[n.dir].addr[Index(u)] = b
    BY <1>1, <2>1, <2>4, <2>6
  <2>10. At(dinode', dur', n.dir, u) = dur'[b][Offset(u)]
    BY <2>9 DEF At, Index, Offset
  <2>11. At(core', cur', n.dir, u) = EntryOf(n)
    BY <1>0, <2>2
  <2> HIDE DEF b
  <2> QED
    BY <2>1, <2>8, <2>9, <2>10, <2>11 DEF SharedNames
<1> QED
  BY <1>2, <1>3, <1>4, <1>5

LEMMA SettlingKept ==
    ASSUME Typed, Always, Settling, kept' \subseteq kept
    PROVE  Always'
<1>1. /\ Apart' /\ Behind' /\ SharedNames \subseteq SharedNames'
      /\ \A i \in Ino : dinode[i].type # "free" => dinode'[i].type = dinode[i].type
  BY SettlingKeeps DEF Always
<1>2. core' = core /\ cur' = cur
  BY DEF Settling
<1>3. ASSUME NEW i \in Ino, Same(i) PROVE Same(i)' /\ Text(core, cur, i)' = Text(core, cur, i)
  <2>1. core'[i] = dinode'[i]
    BY <1>2, <1>3 DEF Same, Settling
  <2>2. Blocks(core, i) \subseteq Block
    BY Bounds, InodeFields
  <2>3. \A b \in Blocks(core, i) : cur'[b] = dur'[b]
    BY <1>2, <1>3, <2>2 DEF Same, Settling
  <2>4. Blocks(core', i) = Blocks(core, i)
    BY <1>2
  <2> QED
    BY <1>2, <2>1, <2>3, <2>4 DEF Same, Text, At
<1>4. KeptShared'
  <2>1. Root \in Ino /\ dinode[Root].type = "dir" /\ KeptShared
    BY Bounds DEF Always, Behind
  <2>2. \A i \in Ino : dinode[i].type = "dir" => dinode'[i].type = "dir"
    BY <1>1
  <2>3. ASSUME NEW n \in SharedNames, n.ino \in Ino, dinode[n.ino].type = "file", Same(n.ino)
        PROVE  /\ dinode'[n.ino].type = "file" /\ Same(n.ino)'
               /\ Text(core, cur, n.ino)' = Text(core, cur, n.ino)
    BY <1>1, <1>3, <2>3
  <2> QED
    BY <1>1, <2>1, <2>2, <2>3, KeptOn
<1> QED
  BY <1>1, <1>4 DEF Always

\* What the names are, and where blocks are, has not changed for calls.
LEMMA SettlingLive ==
    ASSUME Typed, Below, Named, Settling, top' = top
    PROVE  Below' /\ Named' /\ Names(core, cur)' = Names(core, cur)
<1>1. core' = core /\ cur' = cur
  BY DEF Settling
<1>2. ASSUME NEW i \in Ino
      PROVE  /\ Blocks(dinode', i) \subseteq Blocks(core, i) \cup Blocks(dinode, i)
             /\ Blocks(core', i) = Blocks(core, i)
  BY <1>1 DEF Settling, Blocks
<1>3. Below'
  BY <1>2 DEF Below
<1>4. Names(core, cur)' = Names(core, cur)
  BY <1>1
<1> QED
  BY <1>1, <1>3, <1>4 DEF Named

\* The block that is written is in no other inode.
LEMMA AimIsOwn ==
    ASSUME Typed, Apart, Below, NEW i \in Ino, NEW u \in 1 .. core[i].size + 1, NEW unit,
           Wrote(i, u, unit)
    PROVE  /\ \A j \in Ino : j # i => Aim(i, u) \notin Blocks(core, j) \cup Blocks(dinode, j)
           /\ Index(u) \in DOMAIN core[i].addr =>
                /\ Aim(i, u) = core[i].addr[Index(u)] /\ Aim(i, u) \in Blocks(core, i)
                /\ \A k \in DOMAIN core[i].addr : core[i].addr[k] = Aim(i, u) => k = Index(u)
           /\ Index(u) \notin DOMAIN core[i].addr =>
                /\ Aim(i, u) = top
                /\ \A j \in Ino : Aim(i, u) \notin Blocks(core, j) \cup Blocks(dinode, j)
           /\ \A j \in Ino : Blocks(core, j) \cup Blocks(dinode, j) \subseteq Block
           /\ Aim(i, u) \in Block
<1>1. \A j \in Ino : Blocks(core, j) \cup Blocks(dinode, j) \subseteq Block
  BY Bounds, InodeFields
<1>2. CASE Index(u) \in DOMAIN core[i].addr
  <2>1. DOMAIN core[i].addr = 1 .. Len(core[i].addr) /\ Len(core[i].addr) \in Nat
    BY Bounds, InodeFields
  <2>2. Aim(i, u) = core[i].addr[Index(u)]
    BY <1>2, <2>1 DEF Aim
  <2>3. Aim(i, u) \in Blocks(core, i)
    BY <1>2, <2>2 DEF Blocks
  <2>4. ASSUME NEW j \in Ino, j # i PROVE Aim(i, u) \notin Blocks(core, j) \cup Blocks(dinode, j)
    BY <2>3, <2>4 DEF Apart
  <2>5. \A k \in DOMAIN core[i].addr : core[i].addr[k] = Aim(i, u) => k = Index(u)
    BY <1>2, <2>2 DEF Apart
  <2> QED
    BY <1>1, <1>2, <2>2, <2>3, <2>4, <2>5
<1>3. CASE Index(u) \notin DOMAIN core[i].addr
  <2>1. Aim(i, u) = top
    BY <1>3 DEF Wrote
  <2>2. ASSUME NEW j \in Ino PROVE top \notin Blocks(core, j) \cup Blocks(dinode, j)
    <3>1. \A b \in Blocks(core, j) \cup Blocks(dinode, j) : b < top
      BY DEF Below
    <3> QED
      BY <3>1, Bounds
  <2>3. Aim(i, u) \in Block
    BY DEF Wrote
  <2> QED
    BY <1>1, <1>3, <2>1, <2>2, <2>3
<1> QED
  BY <1>2, <1>3

\* The units that were there, but the one that is written, are where and what they were.
LEMMA UnitsStay ==
    ASSUME Typed, Apart, Below, NEW i \in Ino, NEW u \in 1 .. core[i].size + 1, NEW unit,
           Wrote(i, u, unit), NEW j \in Ino, NEW v \in 1 .. core[j].size, j # i \/ v # u
    PROVE  /\ v \in 1 .. core'[j].size
           /\ core'[j].addr[Index(v)] = core[j].addr[Index(v)]
           /\ cur'[core[j].addr[Index(v)]][Offset(v)] = cur[core[j].addr[Index(v)]][Offset(v)]
           /\ At(core', cur', j, v) = At(core, cur, j, v)
<1> DEFINE a == core[j].addr[Index(v)]
<1>1. /\ Index(v) \in DOMAIN core[j].addr /\ a \in Blocks(core, j) /\ v \in Nat \ {0}
      /\ Offset(v) \in 0 .. U - 1 /\ At(core, cur, j, v) = cur[a][Offset(v)]
  BY Bounds, UnitAt
<1>2. core[j].size \in Nat /\ core[i].size \in Nat
  BY Bounds, InodeFields
<1>3. u \in Nat \ {0}
  BY <1>2
<1>4. a \in Block
  BY <1>1, AimIsOwn
<1>5. v \in 1 .. core'[j].size /\ core'[j].addr[Index(v)] = a
  <2>1. CASE j # i
    <3>1. core'[j] = core[j]
      BY <2>1 DEF Wrote
    <3> QED
      BY <3>1
  <2>2. CASE j = i
    <3>1. core'[i].size = (IF core[i].size < u THEN u ELSE core[i].size)
      BY DEF Wrote
    <3>2. core'[i].addr[Index(v)] = core[i].addr[Index(v)]
      BY <1>1, <2>2 DEF Wrote
    <3> QED
      BY <1>2, <1>3, <2>2, <3>1, <3>2
  <2> QED
    BY <2>1, <2>2
<1>6. cur'[a][Offset(v)] = cur[a][Offset(v)]
  <2>1. CASE a # Aim(i, u)
    BY <1>4, <2>1 DEF Wrote
  <2>2. CASE a = Aim(i, u)
    <3>1. j = i /\ Index(u) \in DOMAIN core[i].addr
      BY <1>1, <2>2, AimIsOwn
    <3>2. Index(v) = Index(u)
      BY <1>1, <2>2, <3>1, AimIsOwn
    <3>3. Offset(v) # Offset(u)
      BY <1>1, <1>3, <3>1, <3>2, PlacesDiffer
    <3>4. \A x \in 0 .. U - 1 : x # Offset(u) => cur'[Aim(i, u)][x] = cur[Aim(i, u)][x]
      BY <3>1 DEF Wrote
    <3> QED
      BY <1>1, <2>2, <3>3, <3>4
  <2> QED
    BY <2>1, <2>2
<1>7. At(core', cur', j, v) = cur'[a][Offset(v)]
  BY <1>5 DEF At, Index, Offset
<1> QED
  BY <1>1, <1>5, <1>6, <1>7

\* The unit that is written is there, and no other is new.
LEMMA UnitWritten ==
    ASSUME Typed, NEW i \in Ino, NEW u \in 1 .. core[i].size + 1, NEW unit, Wrote(i, u, unit)
    PROVE  /\ u \in 1 .. core'[i].size /\ At(core', cur', i, u) = unit
           /\ \A j \in Ino : \A v \in 1 .. core'[j].size : j # i \/ v # u => v \in 1 .. core[j].size
<1>1. core[i].size \in Nat
  BY Bounds, InodeFields
<1>2. core'[i].size = (IF core[i].size < u THEN u ELSE core[i].size)
  BY DEF Wrote
<1>3. u \in Nat \ {0}
  BY <1>1
<1>4. u \in 1 .. core'[i].size
  BY <1>1, <1>2, <1>3
<1>5. core'[i].addr[Index(u)] = Aim(i, u) /\ cur'[Aim(i, u)][Offset(u)] = unit
  BY DEF Wrote
<1>6. At(core', cur', i, u) = cur'[core'[i].addr[Index(u)]][Offset(u)]
  BY DEF At, Index, Offset
<1>7. ASSUME NEW j \in Ino, NEW v \in 1 .. core'[j].size, j # i \/ v # u
      PROVE  v \in 1 .. core[j].size
  <2>1. CASE j # i
    <3>1. core'[j] = core[j]
      BY <2>1 DEF Wrote
    <3> QED
      BY <3>1
  <2>2. CASE j = i
    BY <1>1, <1>2, <1>3, <1>7, <2>2
  <2> QED
    BY <2>1, <2>2
<1> QED
  BY <1>4, <1>5, <1>6, <1>7

\* The names after a write: those before, and the one that is written.
LEMMA NamesWritten ==
    ASSUME Typed, Apart, Below, NEW i \in Ino, NEW u \in 1 .. core[i].size + 1, NEW unit,
           Wrote(i, u, unit), u \in 1 .. core[i].size => At(core, cur, i, u) = Zero, NEW n
    PROVE  n \in Names(core', cur') <=>
                \/ n \in Names(core, cur)
                \/ n \in NameType /\ core[i].type = "dir" /\ n.dir = i /\ EntryOf(n) = unit
<1>1. Volume(core) /\ Volume(core')
  BY Bounds DEF Wrote
<1>2. \A j \in Ino : core'[j].type = core[j].type
  BY DEF Wrote
<1>3. ASSUME n \in Names(core, cur) PROVE n \in Names(core', cur')
  <2>1. n \in NameType /\ core[n.dir].type = "dir" /\ n.dir \in Ino
    BY <1>1, <1>3, NamesAre DEF NameType
  <2>2. PICK v \in 1 .. core[n.dir].size : At(core, cur, n.dir, v) = EntryOf(n)
    BY <1>1, <1>3, NamesAre
  <2>3. n.dir # i \/ v # u
    BY <2>1, <2>2, EntryParts
  <2>4. v \in 1 .. core'[n.dir].size /\ At(core', cur', n.dir, v) = At(core, cur, n.dir, v)
    BY <2>1, <2>3, UnitsStay
  <2> QED
    BY <1>1, <1>2, <2>1, <2>2, <2>4, NamesAre
<1>4. ASSUME n \in NameType, core[i].type = "dir", n.dir = i, EntryOf(n) = unit
      PROVE  n \in Names(core', cur')
  BY <1>1, <1>2, <1>4, UnitWritten, NamesAre
<1>5. ASSUME n \in Names(core', cur'), n \notin Names(core, cur)
      PROVE  n \in NameType /\ core[i].type = "dir" /\ n.dir = i /\ EntryOf(n) = unit
  <2>1. n \in NameType /\ core'[n.dir].type = "dir" /\ n.dir \in Ino
    BY <1>1, <1>5, NamesAre DEF NameType
  <2>2. PICK v \in 1 .. core'[n.dir].size : At(core', cur', n.dir, v) = EntryOf(n)
    BY <1>1, <1>5, NamesAre
  <2>3. core[n.dir].type = "dir"
    BY <1>2, <2>1
  <2>4. CASE n.dir # i \/ v # u
    <3>1. v \in 1 .. core[n.dir].size
      BY <2>1, <2>4, UnitWritten
    <3>2. At(core', cur', n.dir, v) = At(core, cur, n.dir, v)
      BY <2>1, <2>4, <3>1, UnitsStay
    <3> QED
      BY <1>1, <1>5, <2>1, <2>2, <2>3, <3>1, <3>2, NamesAre
  <2>5. CASE n.dir = i /\ v = u
    BY <2>1, <2>2, <2>3, <2>5, UnitWritten
  <2> QED
    BY <2>4, <2>5
<1> QED
  BY <1>3, <1>4, <1>5

\* A write that overwrites nothing keeps what the volumes are.
LEMMA WrittenApart ==
    ASSUME Typed, Apart, Behind, Below, NEW i \in Ino, NEW u \in 1 .. core[i].size + 1, NEW unit,
           Wrote(i, u, unit), dinode' = dinode
    PROVE  Apart' /\ Behind' /\ Below'
<1>1. \A j \in Ino : j # i => core'[j] = core[j] /\ Blocks(core', j) = Blocks(core, j)
  BY DEF Wrote, Blocks
<1>2. ASSUME NEW b \in Blocks(core', i)
      PROVE  b \in Blocks(core, i) \/ (b = Aim(i, u) /\ Index(u) \notin DOMAIN core[i].addr)
  <2>1. PICK k \in DOMAIN core'[i].addr : b = core'[i].addr[k]
    BY DEF Blocks
  <2>2. CASE k \in DOMAIN core[i].addr
    BY <2>1, <2>2 DEF Wrote, Blocks
  <2>3. CASE k \notin DOMAIN core[i].addr
    BY <2>1, <2>3 DEF Wrote
  <2> QED
    BY <2>2, <2>3
<1>3. \A j \in Ino : Blocks(dinode', j) = Blocks(dinode, j)
  OBVIOUS
<1>4. Apart'
  <2>1. ASSUME NEW j \in Ino, NEW k \in DOMAIN core'[j].addr, NEW l \in DOMAIN core'[j].addr,
               core'[j].addr[k] = core'[j].addr[l]
        PROVE  k = l
    <3>1. CASE j # i
      BY <1>1, <2>1, <3>1 DEF Apart
    <3>2. CASE j = i
      <4>1. \A m \in {k, l} : m \in DOMAIN core[i].addr \/ m = Index(u)
        BY <2>1, <3>2 DEF Wrote
      <4>2. \A m \in DOMAIN core[i].addr :
                core'[i].addr[m] = core[i].addr[m] /\ core[i].addr[m] \in Blocks(core, i)
        BY DEF Wrote, Blocks
      <4>3. core'[i].addr[Index(u)] = Aim(i, u)
        BY DEF Wrote
      <4>4. CASE k \in DOMAIN core[i].addr /\ l \in DOMAIN core[i].addr
        BY <2>1, <3>2, <4>2, <4>4 DEF Apart
      <4>5. CASE Index(u) \notin DOMAIN core[i].addr
        <5>1. Aim(i, u) \notin Blocks(core, i)
          BY <4>5, AimIsOwn
        <5> QED
          BY <2>1, <3>2, <4>1, <4>2, <4>3, <4>4, <5>1
      <4> QED
        BY <4>1, <4>4, <4>5
    <3> QED
      BY <3>1, <3>2
  <2>2. ASSUME NEW j \in Ino, NEW k \in DOMAIN dinode'[j].addr, NEW l \in DOMAIN dinode'[j].addr,
               dinode'[j].addr[k] = dinode'[j].addr[l]
        PROVE  k = l
    BY <2>2 DEF Apart
  <2> DEFINE All(j) == Blocks(core, j) \cup Blocks(dinode, j)
             AllNext(j) == Blocks(core', j) \cup Blocks(dinode', j)
  <2>3. ASSUME NEW j \in Ino, j # i PROVE AllNext(j) = All(j)
    BY <1>1, <1>3, <2>3
  <2>4. ASSUME NEW b \in AllNext(i)
        PROVE  b \in All(i) \/ \A j \in Ino : b \notin All(j)
    BY <1>2, <1>3, AimIsOwn
  <2>5. \A j, k \in Ino : j # k => All(j) \cap All(k) = {}
    BY DEF Apart
  <2> HIDE DEF All, AllNext
  <2>6. ASSUME NEW j \in Ino, NEW k \in Ino, j # k PROVE AllNext(j) \cap AllNext(k) = {}
    <3>1. CASE j # i /\ k # i
      BY <2>3, <2>5, <2>6, <3>1
    <3>2. CASE j = i
      BY <2>3, <2>4, <2>5, <2>6, <3>2
    <3>3. CASE k = i
      BY <2>3, <2>4, <2>5, <2>6, <3>3
    <3> QED
      BY <3>1, <3>2, <3>3
  <2> QED
    BY <2>1, <2>2, <2>6 DEF Apart, AllNext
<1>5. Behind'
  <2>1. dinode'[Root].type = "dir"
    BY DEF Behind
  <2>2. \A j \in Ino : core'[j].type = core[j].type
    BY DEF Wrote
  <2>3. \A j \in Ino : dinode'[j].type # "free" => core'[j].type = dinode'[j].type
    BY <2>2 DEF Behind
  <2>4. ASSUME NEW d \in Ino, dinode'[d].type = "dir"
        PROVE  /\ dinode'[d].size <= core'[d].size
               /\ \A k \in DOMAIN dinode'[d].addr :
                    k \in DOMAIN core'[d].addr /\ core'[d].addr[k] = dinode'[d].addr[k]
    <3>1. /\ dinode[d].size <= core[d].size
          /\ \A k \in DOMAIN dinode[d].addr :
                k \in DOMAIN core[d].addr /\ core[d].addr[k] = dinode[d].addr[k]
      BY <2>4 DEF Behind
    <3>2. CASE d # i
      BY <1>1, <3>1, <3>2
    <3>3. CASE d = i
      <4>1. \A k \in DOMAIN core[i].addr :
                k \in DOMAIN core'[i].addr /\ core'[i].addr[k] = core[i].addr[k]
        BY DEF Wrote
      <4>2. core'[i].size = (IF core[i].size < u THEN u ELSE core[i].size)
        BY DEF Wrote
      <4>3. core[i].size \in Nat /\ dinode[i].size \in Nat
        BY Bounds, InodeFields
      <4>4. u \in Nat
        BY <4>3
      <4>5. dinode[i].size <= core'[i].size
        BY <3>1, <3>3, <4>2, <4>3, <4>4
      <4> QED
        BY <3>1, <3>3, <4>1, <4>5
    <3> QED
      BY <3>2, <3>3
  <2> QED
    BY <2>1, <2>3, <2>4 DEF Behind
<1>6. Below'
  <2>1. top \in Nat /\ top' \in Nat /\ top <= top'
    BY Bounds DEF Wrote
  <2>2. ASSUME NEW j \in Ino, NEW b \in Blocks(core, j) \cup Blocks(dinode, j) PROVE b < top'
    <3>1. b < top /\ b \in Nat
      BY AimIsOwn, Bounds DEF Below
    <3> QED
      BY <2>1, <3>1
  <2>3. Index(u) \notin DOMAIN core[i].addr => Aim(i, u) < top'
    BY <2>1 DEF Wrote
  <2> QED
    BY <1>1, <1>2, <1>3, <2>2, <2>3 DEF Below
<1> QED
  BY <1>4, <1>5, <1>6

LEMMA WrittenShared ==
    ASSUME Typed, Apart, Behind, Below, NEW i \in Ino, NEW u \in 1 .. core[i].size + 1, NEW unit,
           Wrote(i, u, unit), u \in 1 .. core[i].size => At(core, cur, i, u) = Zero, dinode' = dinode
    PROVE  SharedNames \subseteq SharedNames'
<1> SUFFICES ASSUME NEW n \in SharedNames PROVE n \in SharedNames'
  OBVIOUS
<1>1. n \in NameType /\ dinode[n.dir].type = "dir" /\ n.dir \in Ino
  BY DEF SharedNames, NameType
<1>2. PICK v \in 1 .. dinode[n.dir].size :
          At(dinode, dur, n.dir, v) = EntryOf(n) /\ At(core, cur, n.dir, v) = EntryOf(n)
  BY DEF SharedNames
<1> DEFINE b == dinode[n.dir].addr[Index(v)]
<1>3. /\ Index(v) \in DOMAIN dinode[n.dir].addr /\ b \in Blocks(dinode, n.dir) /\ v \in Nat \ {0}
      /\ At(dinode, dur, n.dir, v) = dur[b][Offset(v)]
  BY <1>1, Bounds, UnitAt
<1>4. core[n.dir].addr[Index(v)] = b /\ dinode[n.dir].size <= core[n.dir].size
  BY <1>1, <1>3 DEF Behind
<1>5. core[n.dir].size \in Nat /\ dinode[n.dir].size \in Nat
  BY <1>1, Bounds, InodeFields
<1>6. v \in 1 .. core[n.dir].size
  BY <1>4, <1>5
<1>7. At(core, cur, n.dir, v) = cur[b][Offset(v)]
  BY <1>1, <1>4, <1>6, Bounds, UnitAt
<1>8. n.dir # i \/ v # u
  BY <1>1, <1>2, <1>6, EntryParts
<1>9. /\ cur'[b][Offset(v)] = EntryOf(n) /\ At(core', cur', n.dir, v) = EntryOf(n)
  BY <1>1, <1>2, <1>4, <1>6, <1>7, <1>8, UnitsStay
<1>10. dur'[b] = dur[b] \/ dur'[b] = cur'[b]
  <2>1. b \in Block
    BY <1>1, <1>3, AimIsOwn
  <2> QED
    BY <2>1 DEF Wrote
<1>11. dur'[b][Offset(v)] = EntryOf(n)
  BY <1>2, <1>3, <1>9, <1>10
<1>12. At(dinode', dur', n.dir, v) = dur'[b][Offset(v)]
  BY DEF At, Index, Offset
<1> HIDE DEF b
<1>13. v \in 1 .. dinode'[n.dir].size /\ dinode'[n.dir].type = "dir"
  BY <1>1
<1> QED
  BY <1>1, <1>9, <1>11, <1>12, <1>13 DEF SharedNames

\* The write keeps what is to survive, if that is not what it writes to.
LEMMA WrittenKept ==
    ASSUME Typed, Always, Below, NEW i \in Ino, NEW u \in 1 .. core[i].size + 1, NEW unit,
           Wrote(i, u, unit), u \in 1 .. core[i].size => At(core, cur, i, u) = Zero, dinode' = dinode,
           kept' \subseteq kept,
           \A n \in SharedNames, k \in kept' :
                k.path = [dir |-> n.dir, name |-> n.name] => n.ino # i \/ core[i].type # "file"
    PROVE  Always' /\ Below'
<1>1. Apart' /\ Behind' /\ Below'
  BY WrittenApart DEF Always
<1>2. SharedNames \subseteq SharedNames'
  BY WrittenShared DEF Always
<1>3. ASSUME NEW j \in Ino, j # i, Same(j) PROVE Same(j)' /\ Text(core, cur, j)' = Text(core, cur, j)
  <2>1. core'[j] = core[j] /\ dinode'[j] = dinode[j]
    BY <1>3 DEF Wrote
  <2>2. ASSUME NEW b \in Blocks(core, j) PROVE cur'[b] = cur[b] /\ dur'[b] = dur[b]
    <3>1. b \in Block /\ b # Aim(i, u)
      BY <1>3, AimIsOwn DEF Always
    <3> QED
      BY <3>1 DEF Wrote
  <2>3. Blocks(core', j) = Blocks(core, j)
    BY <2>1 DEF Blocks
  <2>4. Same(j)'
    BY <1>3, <2>1, <2>2, <2>3 DEF Same
  <2>5. ASSUME NEW v \in 1 .. core[j].size PROVE At(core', cur', j, v) = At(core, cur, j, v)
    BY <1>3, UnitsStay DEF Always
  <2>6. Text(core', cur', j) = Text(core, cur, j)
    BY <2>1, <2>5 DEF Text
  <2> QED
    BY <2>4, <2>6
<1>4. KeptShared'
  <2>1. Root \in Ino /\ dinode[Root].type = "dir" /\ KeptShared
    BY Bounds DEF Always, Behind
  <2>2. \A j \in Ino : dinode[j].type = "dir" => dinode'[j].type = "dir"
    OBVIOUS
  <2>3. ASSUME NEW n \in SharedNames, NEW k \in kept',
               n.ino \in Ino, dinode[n.ino].type = "file", Same(n.ino),
               k.path = [dir |-> n.dir, name |-> n.name]
        PROVE  /\ dinode'[n.ino].type = "file" /\ Same(n.ino)'
               /\ Text(core, cur, n.ino)' = Text(core, cur, n.ino)
    <3>1. core[n.ino].type = "file"
      BY <2>3 DEF Same
    <3>2. n.ino # i
      BY <2>3, <3>1
    <3> QED
      BY <1>3, <2>3, <3>2
  <2> QED
    BY <1>2, <2>1, <2>2, <2>3, KeptOn
<1> QED
  BY <1>1, <1>4 DEF Always

\* An inode is empty now, for calls: it is new, or its file is written over.
Renewed(i, t) ==
    /\ UNCHANGED <<cur, dinode, dur>>
    /\ core'[i] = [type |-> t, addr |-> << >>, size |-> 0]
    /\ \A j \in Ino : j # i => core'[j] = core[j]
    /\ core[i].type # "dir" /\ dinode[i].type \in {"free", t} /\ dinode[i].type # "dir"

LEMMA TypedAfter ==
    ASSUME Typed'
    PROVE  Volume(core') /\ Volume(dinode')
BY DEF Typed, TypeOK, Volume, Needed

LEMMA RenewedKeeps ==
    ASSUME Typed, Typed', Apart, Behind, NEW i \in Ino, NEW t \in {"file", "dir"}, Renewed(i, t)
    PROVE  /\ Apart' /\ Behind' /\ SharedNames \subseteq SharedNames'
           /\ Below /\ top' = top => Below'
           /\ Names(core', cur') = Names(core, cur)
           /\ \A j \in Ino : j # i => Blocks(core', j) = Blocks(core, j)
           /\ Blocks(core', i) = {}
<1>0. UNCHANGED <<cur, dinode, dur>> /\ \A j \in Ino : j # i => core'[j] = core[j]
  BY DEF Renewed
<1>1. core'[i].type = t /\ core'[i].addr = << >> /\ core'[i].size = 0 /\ DOMAIN core'[i].addr = {}
  BY DEF Renewed
<1>2. /\ Blocks(core', i) = {} /\ \A j \in Ino : j # i => Blocks(core', j) = Blocks(core, j)
      /\ \A j \in Ino : Blocks(dinode', j) = Blocks(dinode, j)
  BY <1>0, <1>1 DEF Blocks
<1>3. Apart'
  <2>1. ASSUME NEW j \in Ino, NEW k \in DOMAIN core'[j].addr, NEW l \in DOMAIN core'[j].addr,
               core'[j].addr[k] = core'[j].addr[l]
        PROVE  k = l
    BY <1>0, <1>1, <2>1 DEF Apart
  <2>2. ASSUME NEW j \in Ino, NEW k \in DOMAIN dinode'[j].addr, NEW l \in DOMAIN dinode'[j].addr,
               dinode'[j].addr[k] = dinode'[j].addr[l]
        PROVE  k = l
    BY <1>0, <2>2 DEF Apart
  <2>3. ASSUME NEW j \in Ino
        PROVE  Blocks(core', j) \cup Blocks(dinode', j) \subseteq Blocks(core, j) \cup Blocks(dinode, j)
    BY <1>2
  <2>4. ASSUME NEW j \in Ino, NEW k \in Ino, j # k
        PROVE  (Blocks(core', j) \cup Blocks(dinode', j)) \cap (Blocks(core', k) \cup Blocks(dinode', k)) = {}
    <3>1. (Blocks(core, j) \cup Blocks(dinode, j)) \cap (Blocks(core, k) \cup Blocks(dinode, k)) = {}
      BY <2>4 DEF Apart
    <3> QED
      BY <2>3, <3>1
  <2> QED
    BY <2>1, <2>2, <2>4 DEF Apart
<1>4. Behind'
  <2>1. dinode'[Root].type = "dir"
    BY <1>0 DEF Behind
  <2>2. ASSUME NEW j \in Ino, dinode'[j].type # "free" PROVE core'[j].type = dinode'[j].type
    <3>1. CASE j # i
      BY <1>0, <2>2, <3>1 DEF Behind
    <3>2. CASE j = i
      BY <1>0, <1>1, <2>2, <3>2 DEF Renewed
    <3> QED
      BY <3>1, <3>2
  <2>3. ASSUME NEW d \in Ino, dinode'[d].type = "dir"
        PROVE  /\ dinode'[d].size <= core'[d].size
               /\ \A k \in DOMAIN dinode'[d].addr :
                    k \in DOMAIN core'[d].addr /\ core'[d].addr[k] = dinode'[d].addr[k]
    <3>1. d # i
      BY <1>0, <2>3 DEF Renewed
    <3> QED
      BY <1>0, <2>3, <3>1 DEF Behind
  <2> QED
    BY <2>1, <2>2, <2>3 DEF Behind
<1>5. SharedNames \subseteq SharedNames'
  <2> SUFFICES ASSUME NEW n \in SharedNames PROVE n \in SharedNames'
    OBVIOUS
  <2>1. n \in NameType /\ dinode[n.dir].type = "dir" /\ n.dir \in Ino
    BY DEF SharedNames, NameType
  <2>2. PICK u \in 1 .. dinode[n.dir].size :
            At(dinode, dur, n.dir, u) = EntryOf(n) /\ At(core, cur, n.dir, u) = EntryOf(n)
    BY DEF SharedNames
  <2>3. n.dir # i
    BY <2>1 DEF Renewed
  <2>4. /\ At(dinode', dur', n.dir, u) = EntryOf(n) /\ At(core', cur', n.dir, u) = EntryOf(n)
        /\ u \in 1 .. dinode'[n.dir].size /\ dinode'[n.dir].type = "dir"
    BY <1>0, <2>1, <2>2, <2>3 DEF At
  <2> QED
    BY <2>1, <2>4 DEF SharedNames
<1>6. ASSUME Below, top' = top PROVE Below'
  BY <1>2, <1>6 DEF Below
<1>7. Names(core', cur') = Names(core, cur)
  <2>1. Volume(core) /\ Volume(core')
    BY Bounds, TypedAfter
  <2>2. ASSUME NEW n, n \in Names(core, cur) PROVE n \in Names(core', cur')
    <3>1. n \in NameType /\ core[n.dir].type = "dir" /\ n.dir \in Ino
      BY <2>1, <2>2, NamesAre DEF NameType
    <3>2. PICK u \in 1 .. core[n.dir].size : At(core, cur, n.dir, u) = EntryOf(n)
      BY <2>1, <2>2, NamesAre
    <3>3. n.dir # i
      BY <3>1 DEF Renewed
    <3>4. /\ At(core', cur', n.dir, u) = EntryOf(n) /\ u \in 1 .. core'[n.dir].size
          /\ core'[n.dir].type = "dir"
      BY <1>0, <3>1, <3>2, <3>3 DEF At
    <3> QED
      BY <2>1, <3>1, <3>4, NamesAre
  <2>3. ASSUME NEW n, n \in Names(core', cur') PROVE n \in Names(core, cur)
    <3>1. n \in NameType /\ core'[n.dir].type = "dir" /\ n.dir \in Ino
      BY <2>1, <2>3, NamesAre DEF NameType
    <3>2. PICK u \in 1 .. core'[n.dir].size : At(core', cur', n.dir, u) = EntryOf(n)
      BY <2>1, <2>3, NamesAre
    <3>3. n.dir # i
      BY <1>1, <3>2
    <3>4. /\ At(core, cur, n.dir, u) = EntryOf(n) /\ u \in 1 .. core[n.dir].size
          /\ core[n.dir].type = "dir"
      BY <1>0, <3>1, <3>2, <3>3 DEF At
    <3> QED
      BY <2>1, <3>1, <3>4, NamesAre
  <2> QED
    BY <2>2, <2>3
<1> QED
  BY <1>2, <1>3, <1>4, <1>5, <1>6, <1>7

LEMMA RenewedKept ==
    ASSUME Typed, Typed', Always, NEW i \in Ino, NEW t \in {"file", "dir"}, Renewed(i, t),
           kept' \subseteq kept,
           \A n \in SharedNames, k \in kept' :
                k.path = [dir |-> n.dir, name |-> n.name] => n.ino # i \/ dinode[i].type # "file"
    PROVE  Always'
<1>1. Apart' /\ Behind' /\ SharedNames \subseteq SharedNames'
  BY RenewedKeeps DEF Always
<1>2. UNCHANGED <<cur, dinode, dur>> /\ \A j \in Ino : j # i => core'[j] = core[j]
  BY DEF Renewed
<1>3. ASSUME NEW j \in Ino, j # i, Same(j) PROVE Same(j)' /\ Text(core, cur, j)' = Text(core, cur, j)
  BY <1>2, <1>3 DEF Same, Text, At, Blocks
<1>4. KeptShared'
  <2>1. Root \in Ino /\ dinode[Root].type = "dir" /\ KeptShared
    BY Bounds DEF Always, Behind
  <2>2. \A j \in Ino : dinode[j].type = "dir" => dinode'[j].type = "dir"
    BY <1>2
  <2>3. ASSUME NEW n \in SharedNames, NEW k \in kept',
               n.ino \in Ino, dinode[n.ino].type = "file", Same(n.ino),
               k.path = [dir |-> n.dir, name |-> n.name]
        PROVE  /\ dinode'[n.ino].type = "file" /\ Same(n.ino)'
               /\ Text(core, cur, n.ino)' = Text(core, cur, n.ino)
    <3>1. n.ino # i
      BY <2>3
    <3> QED
      BY <1>2, <1>3, <2>3, <3>1
  <2> QED
    BY <1>1, <2>1, <2>2, <2>3, KeptOn
<1> QED
  BY <1>1, <1>4 DEF Always

\* Nothing of the volumes changes.
LEMMA QuietKept ==
    ASSUME Typed, Always, UNCHANGED <<core, dinode, cur, dur>>, kept' \subseteq kept
    PROVE  Always' /\ (Below /\ top' = top => Below') /\ (Named => Named')
<1>1. Settling
  BY DEF Settling
<1>2. Always'
  BY <1>1, SettlingKept
<1> QED
  BY <1>2 DEF Below, Named

\* The process is gone, and the next session has what is on the disk.
LEMMA GoneKept ==
    ASSUME Typed, Always, Gone, UNCHANGED <<dinode, dur>>, kept' \subseteq kept
    PROVE  Always'
<1>1. core' = dinode' /\ cur' = dur' /\ dinode' = dinode /\ dur' = dur
  BY DEF Gone
<1>2. Apart'
  <2>1. ASSUME NEW i \in Ino, NEW k \in DOMAIN dinode[i].addr, NEW l \in DOMAIN dinode[i].addr,
               dinode[i].addr[k] = dinode[i].addr[l]
        PROVE  k = l
    BY <2>1 DEF Always, Apart
  <2>2. ASSUME NEW i \in Ino, NEW j \in Ino, i # j PROVE Blocks(dinode, i) \cap Blocks(dinode, j) = {}
    BY <2>2 DEF Always, Apart
  <2> QED
    BY <1>1, <2>1, <2>2 DEF Apart
<1>3. Behind'
  <2>1. \A i \in Ino : dinode[i].size \in Nat
    BY Bounds, InodeFields
  <2> QED
    BY <1>1, <2>1 DEF Always, Behind
<1>4. SharedNames \subseteq SharedNames'
  <2> SUFFICES ASSUME NEW n \in SharedNames PROVE n \in SharedNames'
    OBVIOUS
  <2>1. n \in NameType /\ dinode[n.dir].type = "dir"
    BY DEF SharedNames
  <2>2. PICK u \in 1 .. dinode[n.dir].size : At(dinode, dur, n.dir, u) = EntryOf(n)
    BY DEF SharedNames
  <2> QED
    BY <1>1, <2>1, <2>2 DEF SharedNames
<1>5. ASSUME NEW j \in Ino, Same(j) PROVE Same(j)' /\ Text(core, cur, j)' = Text(core, cur, j)
  <2>1. Same(j)'
    BY <1>1 DEF Same
  <2>2. core'[j] = core[j] /\ \A b \in Blocks(core, j) : cur'[b] = cur[b]
    BY <1>1, <1>5 DEF Same
  <2>3. ASSUME NEW u \in 1 .. core[j].size PROVE At(core', cur', j, u) = At(core, cur, j, u)
    <3>1. /\ core[j].addr[Index(u)] \in Blocks(core, j)
          /\ At(core, cur, j, u) = cur[core[j].addr[Index(u)]][Offset(u)]
      BY Bounds, UnitAt
    <3>2. At(core', cur', j, u) = cur'[core[j].addr[Index(u)]][Offset(u)]
      BY <2>2 DEF At, Index, Offset
    <3> QED
      BY <2>2, <3>1, <3>2
  <2> QED
    BY <2>1, <2>2, <2>3 DEF Text
<1>6. KeptShared'
  <2>1. Root \in Ino /\ dinode[Root].type = "dir" /\ KeptShared
    BY Bounds DEF Always, Behind
  <2>2. \A j \in Ino : dinode[j].type = "dir" => dinode'[j].type = "dir"
    BY <1>1
  <2>3. ASSUME NEW n \in SharedNames, n.ino \in Ino, dinode[n.ino].type = "file", Same(n.ino)
        PROVE  /\ dinode'[n.ino].type = "file" /\ Same(n.ino)'
               /\ Text(core, cur, n.ino)' = Text(core, cur, n.ino)
    BY <1>1, <1>5, <2>3
  <2> QED
    BY <1>4, <2>1, <2>2, <2>3, KeptOn
<1> QED
  BY <1>2, <1>3, <1>6 DEF Always

-----------------------------------------------------------------------------
(* A session in progress, step by step.                                    *)

Busy == {"ialloc", "entry", "putdir", "dots", "copy"}

LEMMA GivenDir ==
    ASSUME NEW p \in Paths, NEW op, p \in Given(op), core[cwd].type = "dir"
    PROVE  core[p.dir].type = "dir" /\ p.dir \in Ino
<1>1. p.dir \in (IF op = "load" THEN {cwd} ELSE Dirs(core, cur))
  BY DEF Given
<1>2. \A d \in Dirs(core, cur) : core[d].type = "dir"
  BY DEF Dirs, DirsBut
<1> QED
  BY <1>1, <1>2, PathFields

LEMMA NamedFound ==
    ASSUME Typed, NEW n \in Names(core, cur), NEW p,
           p.dir = n.dir, p.name = n.name
    PROVE  Found(p) # {}
<1>1. n \in NameType
  BY Bounds, NamesAre
<1>2. PICK u \in 1 .. core[n.dir].size : At(core, cur, n.dir, u) = EntryOf(n)
  BY Bounds, NamesAre
<1>3. EntryOf(n) \in Entries(core, cur, n.dir) /\ EntryOf(n).name = n.name
  BY <1>1, <1>2, EntryParts DEF Entries, Units
<1> QED
  BY <1>3 DEF Found

LEMMA FoundNamed ==
    ASSUME Typed, NEW p \in Paths, Found(p) # {}, core[p.dir].type = "dir"
    PROVE  Target(p) \in Ino /\ NameOf(p, Target(p)) \in Names(core, cur)
<1>1. (CHOOSE e \in Found(p) : TRUE) \in Found(p)
  OBVIOUS
<1>2. PICK e \in Found(p) : e = (CHOOSE x \in Found(p) : TRUE)
  BY <1>1
<1>3. e \in Entries(core, cur, p.dir) /\ e.name = p.name /\ e.ino = Target(p) /\ e \in Entry
  BY <1>2 DEF Found, Target, Entries
<1>4. p.dir \in Ino /\ e.ino \in Ino
  BY <1>3, PathFields DEF Entry
<1>5. [dir |-> p.dir, name |-> e.name, ino |-> e.ino] \in Names(core, cur)
  BY <1>3, <1>4 DEF Names
<1> QED
  BY <1>3, <1>4, <1>5 DEF NameOf

LEMMA PathOfName ==
    ASSUME Typed, Behind, Named, NEW n \in SharedNames, NEW k,
           k.path = [dir |-> n.dir, name |-> n.name],
           NEW p \in Path, NEW i \in Ino, NameOf(p, i) \in Names(core, cur), n.ino = i
    PROVE  k.path = p
<1>1. n \in Names(core, cur)
  BY SharedAreNames
<1>2. NameOf(p, i).ino = i /\ NameOf(p, i).dir = p.dir /\ NameOf(p, i).name = p.name
  BY DEF NameOf
<1>3. NameOf(p, i) = n
  BY <1>1, <1>2 DEF Named
<1>4. n.dir = p.dir /\ n.name = p.name
  BY <1>2, <1>3
<1> QED
  BY <1>4 DEF Path

LEMMA NothingMade ==
    /\ (cmd = NoCmd \/ cmd.step \notin Busy) => New = {} /\ Dirty = {} /\ Rewritten
    /\ (cmd' = NoCmd \/ cmd'.step \notin Busy) => New' = {} /\ Dirty' = {} /\ Rewritten'
<1>1. (cmd = NoCmd \/ cmd.step \notin Busy) =>
        ~ Step("ialloc") /\ ~ Step("entry") /\ ~ Step("putdir") /\ ~ Step("dots") /\ ~ Step("copy")
  BY DEF NoCmd, Step, Busy
<1>2. (cmd' = NoCmd \/ cmd'.step \notin Busy) =>
        /\ ~ Step("ialloc")' /\ ~ Step("entry")' /\ ~ Step("putdir")' /\ ~ Step("dots")'
        /\ ~ Step("copy")'
  BY DEF NoCmd, Step, Busy
<1> QED
  BY <1>1, <1>2 DEF New, Dirty, Rewritten

\* What the descriptor and the directories of a session stand for stays so, if no
\* command is making anything after the step.
LEMMA CallStays ==
    ASSUME Typed, CallOK, cmd' = NoCmd \/ cmd'.step \notin Busy,
           \A i \in Ino : core'[i].type = core[i].type,
           Names(core, cur) \subseteq Names(core, cur)',
           cwd' = cwd, made' = made, open' = open \/ open' = NoFile
    PROVE  CallOK'
<1>1. /\ ~ Step("ialloc")' /\ ~ Step("entry")' /\ ~ Step("putdir")' /\ ~ Step("dots")'
      /\ ~ Step("copy")'
  BY DEF NoCmd, Step, Busy
<1>2. cwd \in Ino /\ made \subseteq Ino /\ (open # NoFile => open.ino \in Ino)
  BY Bounds DEF Rest
<1>3. core'[cwd'].type = "dir" /\ \A i \in made' : core'[i].type = "dir"
  BY <1>2 DEF CallOK
<1>4. open' # NoFile =>
        core'[open'.ino].type = "file" /\ NameOf(open'.path, open'.ino) \in Names(core, cur)'
  BY <1>2 DEF CallOK
<1> QED
  BY <1>1, <1>3, <1>4 DEF CallOK

\* Nothing but what calls saw comes to the disk, and the saved bitmap is as before.
LEMMA SavedStays ==
    ASSUME Typed, Saved, Settling, cmd.op # "write", UNCHANGED <<saved, loose>>,
           Unsaved \subseteq Unsaved', ~ Step("saveinode")'
    PROVE  Saved'
<1>1. core' = core
  BY DEF Settling
<1>2. ASSUME NEW i \in Ino, NEW b \in Block, b \in Blocks(core, i), b >= saved
      PROVE  b \in loose' \cup Unsaved'
  BY <1>2 DEF Saved
<1>3. ASSUME NEW i \in Ino, NEW b \in Block, b \in Blocks(dinode, i), b >= saved
      PROVE  b \in loose' \cup Unsaved'
  BY <1>3 DEF Saved
<1>4. \A i \in Ino : Blocks(dinode', i) = Blocks(dinode, i) \/ Blocks(dinode', i) = Blocks(core, i)
  BY DEF Settling, Blocks
<1> QED
  BY <1>1, <1>2, <1>3, <1>4 DEF Saved

LEMMA BeginNewLive ==
    ASSUME Typed, Always, Live, NEW op \in Making, NEW p \in Paths, BeginNew(op, p)
    PROVE  Always' /\ Live'
<1>1. /\ Ready /\ p \in Given(op) /\ Found(p) = {}
      /\ cmd' = [op |-> op, path |-> p, ino |-> 0, step |-> "ialloc"]
      /\ UNCHANGED <<diskVars, seenVars, userVars, histVars>>
  BY DEF BeginNew
<1>2. /\ UNCHANGED <<core, dinode, cur, dur, top, saved, cwd, made, stuck, open, kept, loose>>
      /\ cmd = NoCmd
  BY <1>1 DEF diskVars, seenVars, userVars, histVars, Ready
<1>3. Always' /\ Below' /\ Named'
  BY <1>2, QuietKept DEF Live
<1>4. core[p.dir].type = "dir" /\ p.dir \in Ino /\ p \in Path
  BY <1>1, GivenDir, PathFields DEF Live, CallOK
<1>5. /\ ~ Step("entry")' /\ ~ Step("putdir")' /\ ~ Step("dots")' /\ ~ Step("copy")'
      /\ ~ Step("update")' /\ ~ Step("close")' /\ ~ Step("saveinode")' /\ cmd'.path = p
  BY <1>1 DEF Step
<1>6. New = {} /\ Dirty = {} /\ New' = {} /\ Dirty' = {}
  BY <1>2, <1>5, NothingMade DEF New, Dirty
<1>7. CallOK'
  BY <1>2, <1>4, <1>5 DEF Live, CallOK
<1>8. Rewritten'
  <2>1. ASSUME NEW k \in kept PROVE k.path # p
    <3>1. PICK n \in SharedNames : k.path = [dir |-> n.dir, name |-> n.name]
      BY KeptParts DEF Always
    <3>2. n \in Names(core, cur)
      BY SharedAreNames DEF Always
    <3>3. p.dir # n.dir \/ p.name # n.name
      BY <1>1, <3>2, NamedFound
    <3> QED
      BY <3>1, <3>3
  <2> QED
    BY <1>2, <1>5, <2>1 DEF Rewritten
<1>9. Settled'
  BY <1>2, <1>5, <1>6 DEF Live, Settled, Pinned
<1>10. OnDisk'
  BY <1>2, <1>6 DEF Live, OnDisk
<1>11. Saved'
  <2>1. Unsaved = {} /\ cmd.op # "write" /\ Settling
    BY <1>2 DEF Unsaved, NoCmd, Settling
  <2> QED
    BY <1>2, <1>5, <2>1, SavedStays DEF Live
<1> QED
  BY <1>3, <1>7, <1>8, <1>9, <1>10, <1>11 DEF Live

LEMMA BeginOverLive ==
    ASSUME Typed, Always, Live, NEW op \in Making, NEW p \in Paths, BeginOver(op, p)
    PROVE  Always' /\ Live'
<1> DEFINE t == Target(p)
<1>1. /\ Ready /\ open = NoFile /\ op \in {"creat", "load"} /\ p \in Given(op)
      /\ Found(p) # {} /\ core[t].type # "dir"
      /\ kept' = {k \in kept : k.path # p}
      /\ open' = [ino |-> t, path |-> p]
      /\ cmd' = IF op = "creat" THEN NoCmd ELSE [op |-> op, path |-> p, ino |-> t, step |-> "copy"]
      /\ UNCHANGED <<diskVars, cur, top, itop, cwd, made, stuck, crashes, torn, loose>>
  BY DEF BeginOver
<1>2. UNCHANGED <<dinode, cur, dur, top, saved, cwd, made, stuck, loose>> /\ cmd = NoCmd
  BY <1>1 DEF diskVars, Ready
<1>3. /\ Typed' /\ t \in Ino
      /\ core'[t] = [type |-> "file", addr |-> << >>, size |-> 0]
      /\ \A j \in Ino : j # t => core'[j] = core[j]
  BY BeginOverTyped DEF Making
<1>4. core[p.dir].type = "dir" /\ p.dir \in Ino /\ p \in Path
  BY <1>1, GivenDir, PathFields DEF Live, CallOK
<1>5. NameOf(p, t) \in Names(core, cur) /\ NameOf(p, t).ino = t
  BY <1>1, <1>4, FoundNamed DEF NameOf
<1> HIDE DEF t
<1>6. core[t].type = "file"
  <2>1. core[t].type # "free"
    BY <1>5 DEF Live, Named
  <2> QED
    BY <1>1, <1>3, <2>1, Bounds, InodeFields
<1>7. Renewed(t, "file")
  <2>1. dinode[t].type \in {"free", "file"}
    BY <1>3, <1>6 DEF Always, Behind
  <2> QED
    BY <1>1, <1>2, <1>3, <2>1 DEF Renewed
<1>8. /\ Below' /\ Names(core', cur') = Names(core, cur)
      /\ \A j \in Ino : j # t => Blocks(core', j) = Blocks(core, j)
      /\ Blocks(core', t) = {}
  BY <1>2, <1>3, <1>7, RenewedKeeps DEF Always, Live
<1>9. Always'
  <2>1. ASSUME NEW n \in SharedNames, NEW k \in kept', k.path = [dir |-> n.dir, name |-> n.name], n.ino = t
        PROVE  FALSE
    <3>1. k.path = p
      BY <1>3, <1>4, <1>5, <2>1, PathOfName DEF Always, Live
    <3> QED
      BY <1>1, <3>1
  <2> QED
    BY <1>1, <1>3, <1>7, <2>1, RenewedKept
<1>10. Named'
  <2>1. \A n \in Names(core, cur) : n.ino \in Ino
    BY Bounds, NamesAre DEF NameType
  <2>2. \A j \in Ino : core[j].type # "free" => core'[j].type # "free"
    BY <1>3
  <2> QED
    BY <1>8, <2>1, <2>2 DEF Live, Named
<1>11. /\ ~ Step("ialloc")' /\ ~ Step("entry")' /\ ~ Step("putdir")' /\ ~ Step("dots")'
       /\ ~ Step("update")' /\ ~ Step("close")' /\ ~ Step("saveinode")'
       /\ Step("copy")' => cmd'.ino = t
  BY <1>1 DEF Step, NoCmd
<1>12. New = {} /\ Dirty = {} /\ New' = {} /\ Dirty' = {}
  BY <1>2, <1>11, NothingMade DEF New, Dirty
<1>13. open'.ino = t /\ open'.path = p
  BY <1>1
<1>14. CallOK'
  <2>1. core'[cwd'].type = "dir" /\ \A i \in made' : core'[i].type = "dir"
    <3>1. cwd \in Ino /\ made \subseteq Ino
      BY Bounds DEF Rest
    <3>2. \A i \in Ino : core[i].type = "dir" => core'[i].type = "dir"
      BY <1>3, <1>6
    <3> QED
      BY <1>2, <3>1, <3>2 DEF Live, CallOK
  <2>2. core'[open'.ino].type = "file" /\ NameOf(open'.path, open'.ino) \in Names(core, cur)'
    BY <1>3, <1>5, <1>8, <1>13
  <2> QED
    BY <1>11, <1>13, <2>1, <2>2 DEF CallOK
<1>15. Rewritten'
  BY <1>1, <1>11, <1>13 DEF Rewritten
<1>16. 0 \notin Ino /\ open.ino = 0
  BY <1>1, Bounds DEF NoFile
<1>17. Settled'
  <2>1. \A i \in Ino : core[i] # dinode[i] => i \in Pinned
    BY <1>12, <1>16 DEF Live, Settled
  <2>2. Pinned' = Pinned
    BY <1>2 DEF Pinned
  <2>3. \A i \in Ino : core'[i] # dinode'[i] => i \in Pinned' \cup {open'.ino}
    BY <1>2, <1>3, <1>13, <2>1, <2>2
  <2> QED
    BY <1>11, <2>3 DEF Settled
<1>18. OnDisk'
  BY <1>2, <1>3, <1>6, <1>12, <1>13, <1>16 DEF Live, OnDisk
<1>19. Saved'
  <2>1. Unsaved = {}
    BY <1>2 DEF Unsaved, NoCmd
  <2>2. /\ \A i \in Ino, b \in Block : b \in Blocks(dinode, i) /\ b >= saved => b \in loose
        /\ \A i \in Ino, b \in Block : b \in Blocks(core, i) /\ b >= saved => b \in loose
    BY <1>2, <2>1 DEF Live, Saved, NoCmd
  <2>3. \A i \in Ino : Blocks(core', i) \subseteq Blocks(core, i) /\ Blocks(dinode', i) = Blocks(dinode, i)
    BY <1>2, <1>3, <1>8 DEF Blocks
  <2> QED
    BY <1>2, <1>11, <2>2, <2>3 DEF Saved
<1> QED
  BY <1>8, <1>9, <1>10, <1>14, <1>15, <1>17, <1>18, <1>19 DEF Live

LEMMA BeginTakenLive ==
    ASSUME Typed, Always, Live, NEW p \in Paths, BeginTaken(p)
    PROVE  Always' /\ Live'
<1>1. /\ Ready /\ stuck' = stuck \cup {Target(p)}
      /\ cmd' = [op |-> "mkdir", path |-> p, ino |-> 0, step |-> "savedata"]
      /\ UNCHANGED <<diskVars, seenVars, cwd, made, open, histVars>>
  BY DEF BeginTaken
<1>2. /\ UNCHANGED <<core, dinode, cur, dur, top, saved, cwd, made, open, kept, loose>>
      /\ cmd = NoCmd /\ stuck \subseteq stuck' /\ cmd'.step = "savedata"
  BY <1>1 DEF diskVars, seenVars, histVars, Ready
<1>3. Always' /\ Below' /\ Named'
  BY <1>2, QuietKept DEF Live
<1>4. New = {} /\ Dirty = {} /\ New' = {} /\ Dirty' = {} /\ Rewritten'
  BY <1>2, NothingMade DEF Busy
<1>5. ~ Step("update")' /\ ~ Step("close")' /\ ~ Step("saveinode")'
  BY <1>2 DEF Step
<1>6. CallOK'
  <2>1. cmd'.step \notin Busy
    BY <1>2 DEF Busy
  <2>2. \A i \in Ino : core'[i].type = core[i].type
    BY <1>2
  <2>3. Names(core, cur)' = Names(core, cur)
    BY <1>2
  <2> QED
    BY <1>2, <2>1, <2>2, <2>3, CallStays DEF Live
<1>7. Pinned \subseteq Pinned'
  BY <1>2 DEF Pinned
<1>8. Settled'
  BY <1>2, <1>4, <1>5, <1>7 DEF Live, Settled
<1>9. OnDisk'
  BY <1>2, <1>4 DEF Live, OnDisk
<1>10. Saved'
  <2>1. Unsaved = {} /\ cmd.op # "write" /\ Settling
    BY <1>2 DEF Unsaved, NoCmd, Settling
  <2> QED
    BY <1>2, <1>5, <2>1, SavedStays DEF Live
<1> QED
  BY <1>3, <1>4, <1>6, <1>8, <1>9, <1>10 DEF Live

LEMMA BeginAstrayLive ==
    ASSUME Typed, Always, Live, NEW p \in Paths, BeginAstray(p)
    PROVE  Always' /\ Live'
<1>1. /\ Ready /\ open # NoFile
      /\ kept' = {k \in kept : k.path # open.path}
      /\ cmd' = [op |-> "load", path |-> p, ino |-> open.ino, step |-> "copy"]
      /\ UNCHANGED <<diskVars, seenVars, userVars, crashes, torn, loose>>
  BY DEF BeginAstray
<1>2. /\ UNCHANGED <<core, dinode, cur, dur, top, saved, cwd, made, stuck, open, loose>>
      /\ cmd = NoCmd /\ kept' \subseteq kept /\ cmd'.step = "copy" /\ cmd'.ino = open.ino
  BY <1>1 DEF diskVars, seenVars, userVars, Ready
<1>3. Always' /\ Below' /\ Named'
  BY <1>2, QuietKept DEF Live
<1>4. /\ ~ Step("ialloc")' /\ ~ Step("entry")' /\ ~ Step("putdir")' /\ ~ Step("dots")'
      /\ ~ Step("update")' /\ ~ Step("close")' /\ ~ Step("saveinode")'
  BY <1>2 DEF Step
<1>5. New = {} /\ Dirty = {} /\ New' = {} /\ Dirty' = {}
  BY <1>2, <1>4, NothingMade DEF New, Dirty
<1>6. CallOK'
  BY <1>2, <1>4 DEF Live, CallOK
<1>7. Rewritten'
  BY <1>1, <1>2, <1>4 DEF Rewritten
<1>8. Settled'
  BY <1>2, <1>4, <1>5 DEF Live, Settled, Pinned
<1>9. OnDisk'
  BY <1>2, <1>5 DEF Live, OnDisk
<1>10. Saved'
  <2>1. Unsaved = {} /\ cmd.op # "write" /\ Settling
    BY <1>2 DEF Unsaved, NoCmd, Settling
  <2> QED
    BY <1>2, <1>4, <2>1, SavedStays DEF Live
<1> QED
  BY <1>3, <1>6, <1>7, <1>8, <1>9, <1>10 DEF Live

LEMMA OpenLive ==
    ASSUME Typed, Always, Live, NEW p \in Paths, Open(p)
    PROVE  Always' /\ Live'
<1> DEFINE t == Target(p)
<1>1. /\ Ready /\ open = NoFile /\ p \in Given("open") /\ Found(p) # {} /\ core[t].type # "dir"
      /\ open' = [ino |-> t, path |-> p]
      /\ UNCHANGED <<diskVars, seenVars, cwd, made, stuck, cmd, histVars>>
  BY DEF Open
<1>2. /\ UNCHANGED <<core, dinode, cur, dur, top, saved, cwd, made, stuck, cmd, kept, loose>>
      /\ cmd = NoCmd
  BY <1>1 DEF diskVars, seenVars, histVars, Ready
<1>3. Always' /\ Below' /\ Named'
  BY <1>2, QuietKept DEF Live
<1>4. core[p.dir].type = "dir" /\ p.dir \in Ino /\ p \in Path
  BY <1>1, GivenDir, PathFields DEF Live, CallOK
<1>5. t \in Ino /\ NameOf(p, t) \in Names(core, cur) /\ NameOf(p, t).ino = t
  BY <1>1, <1>4, FoundNamed DEF NameOf
<1> HIDE DEF t
<1>6. core[t].type = "file"
  <2>1. core[t].type # "free"
    BY <1>5 DEF Live, Named
  <2> QED
    BY <1>1, <1>5, <2>1, Bounds, InodeFields
<1>7. New = {} /\ Dirty = {} /\ New' = {} /\ Dirty' = {} /\ Rewritten'
  BY <1>2, NothingMade
<1>8. /\ ~ Step("ialloc")' /\ ~ Step("entry")' /\ ~ Step("putdir")' /\ ~ Step("dots")'
      /\ ~ Step("copy")' /\ ~ Step("update")' /\ ~ Step("close")' /\ ~ Step("saveinode")'
  BY <1>2 DEF Step, NoCmd
<1>9. open'.ino = t /\ open'.path = p /\ open.ino = 0 /\ 0 \notin Ino
  BY <1>1, Bounds DEF NoFile
<1>10. CallOK'
  BY <1>2, <1>5, <1>6, <1>8, <1>9 DEF Live, CallOK
<1>11. Settled'
  <2>1. Pinned' = Pinned
    BY <1>2 DEF Pinned
  <2>2. \A i \in Ino : core[i] # dinode[i] => i \in Pinned
    BY <1>7, <1>9 DEF Live, Settled
  <2> QED
    BY <1>2, <1>8, <2>1, <2>2 DEF Settled
<1>12. OnDisk'
  BY <1>2, <1>7, <1>9 DEF Live, OnDisk
<1>13. Saved'
  <2>1. Unsaved = {} /\ cmd.op # "write" /\ Settling
    BY <1>2 DEF Unsaved, NoCmd, Settling
  <2> QED
    BY <1>2, <1>8, <2>1, SavedStays DEF Live
<1> QED
  BY <1>3, <1>7, <1>10, <1>11, <1>12, <1>13 DEF Live

\* What of a command that makes something is known at each of its steps.
LEMMA Made ==
    ASSUME Typed, CallOK
    PROVE  /\ Step("ialloc") => cmd.path \in Path /\ cmd.path.dir \in Ino /\ core[cmd.path.dir].type = "dir"
           /\ Step("entry") \/ Step("putdir") =>
                /\ cmd.path \in Path /\ cmd.path.dir \in Ino /\ core[cmd.path.dir].type = "dir"
                /\ cmd.ino \in Ino
           /\ Step("dots") => cmd.ino \in Ino
<1>1. Step("ialloc") => cmd \in [op : Making, path : Paths, ino : {0}, step : {"ialloc"}]
  BY Steps DEF Typed
<1>2. Step("entry") \/ Step("putdir") =>
        cmd \in [op : Making, path : Paths, ino : Ino, step : {"entry", "putdir"}]
  BY Steps DEF Typed
<1>3. Step("dots") => cmd \in [op : {"mkdir"}, path : Paths, ino : Ino, step : {"dots"}]
  BY Steps DEF Typed
<1> QED
  BY <1>1, <1>2, <1>3, PathFields DEF CallOK

LEMMA IAllocLive ==
    ASSUME Typed, Always, Live, IAlloc
    PROVE  Always' /\ Live'
<1>1. /\ Step("ialloc") /\ UNCHANGED <<diskVars, cur, top, userVars, histVars>>
      /\ core[itop].type # "free" => core' = core /\ cmd' = cmd
  BY DEF IAlloc, Occupied
<1>2. UNCHANGED <<dinode, cur, dur, top, saved, cwd, made, stuck, open, kept, loose>>
  BY <1>1 DEF diskVars, userVars, histVars
<1>3. /\ Typed' /\ itop \in Ino
      /\ core[itop].type = "free" =>
            /\ core'[itop] = Fresh(cmd.op) /\ \A j \in Ino : j # itop => core'[j] = core[j]
            /\ cmd' \in [op : {cmd.op}, path : {cmd.path}, ino : {itop}, step : {"entry"}]
  BY IAllocTyped
<1>4. CASE core[itop].type # "free"
  <2>1. core' = core /\ cmd' = cmd
    BY <1>1, <1>4
  <2>2. Always' /\ Below' /\ Named'
    BY <1>2, <2>1, QuietKept DEF Live
  <2>3. CallOK' /\ Rewritten'
    BY <1>2, <2>1 DEF Live, CallOK, Rewritten, Step
  <2>4. Settled' /\ OnDisk'
    BY <1>2, <2>1 DEF Live, Settled, OnDisk, Pinned, New, Dirty, Step
  <2>5. Saved'
    BY <1>2, <2>1 DEF Live, Saved, Unsaved, Step
  <2> QED
    BY <2>2, <2>3, <2>4, <2>5 DEF Live
<1>5. CASE core[itop].type = "free"
  <2> DEFINE i == itop
             t == IF cmd.op = "mkdir" THEN "dir" ELSE "file"
  <2>1. /\ i \in Ino /\ core'[i] = Fresh(cmd.op) /\ \A j \in Ino : j # i => core'[j] = core[j]
        /\ cmd' \in [op : {cmd.op}, path : {cmd.path}, ino : {i}, step : {"entry"}]
        /\ core[i].type = "free"
    BY <1>3, <1>5
  <2>2. core'[i] = [type |-> t, addr |-> << >>, size |-> 0] /\ t \in {"file", "dir"}
    BY <2>1 DEF Fresh
  <2> HIDE DEF i, t
  <2>3. dinode[i].type = "free"
    BY <2>1 DEF Always, Behind
  <2>4. Renewed(i, t)
    BY <1>2, <2>1, <2>2, <2>3 DEF Renewed
  <2>5. /\ Below' /\ Names(core', cur') = Names(core, cur)
        /\ \A j \in Ino : j # i => Blocks(core', j) = Blocks(core, j)
        /\ Blocks(core', i) = {}
    BY <1>2, <1>3, <2>1, <2>2, <2>4, RenewedKeeps DEF Always, Live
  <2>6. Always'
    BY <1>2, <1>3, <2>1, <2>2, <2>3, <2>4, RenewedKept
  <2>7. \A n \in Names(core, cur) : n.ino \in Ino /\ n.ino # i
    BY <2>1, Bounds, NamesAre DEF NameType, Live, Named
  <2>8. Named'
    BY <2>1, <2>5, <2>7 DEF Live, Named
  <2>9. cmd'.op = cmd.op /\ cmd'.path = cmd.path /\ cmd'.ino = i /\ cmd'.step = "entry"
    BY <2>1
  <2>10. /\ cmd.op \in Making /\ cmd.path.dir \in Ino /\ core[cmd.path.dir].type = "dir"
         /\ cmd.step = "ialloc" /\ cmd.ino = 0
    <3>1. cmd \in [op : Making, path : Paths, ino : {0}, step : {"ialloc"}]
      BY <1>1, Steps DEF Typed
    <3> QED
      BY <1>1, <3>1, Made DEF Live
  <2>11. /\ Step("entry")' /\ ~ Step("ialloc")' /\ ~ Step("putdir")' /\ ~ Step("dots")' /\ ~ Step("copy")'
         /\ ~ Step("update")' /\ ~ Step("close")' /\ ~ Step("saveinode")'
    BY <2>9, <2>10 DEF Step, Making
  <2>12. New = {} /\ Dirty = {} /\ New' = {i} /\ Dirty' = {i}
    BY <2>9, <2>10, <2>11 DEF New, Dirty, Step
  <2>13. CallOK'
    <3>1. \A j \in Ino : core[j].type \in {"dir", "file"} => core'[j] = core[j]
      BY <2>1
    <3>2. cwd \in Ino /\ made \subseteq Ino /\ (open # NoFile => open.ino \in Ino)
      BY Bounds DEF Rest
    <3>3. core'[cwd'].type = "dir" /\ \A j \in made' : core'[j].type = "dir"
      BY <1>2, <3>1, <3>2 DEF Live, CallOK
    <3>4. open' # NoFile =>
            core'[open'.ino].type = "file" /\ NameOf(open'.path, open'.ino) \in Names(core, cur)'
      BY <1>2, <2>5, <3>1, <3>2 DEF Live, CallOK
    <3>5. core'[cmd'.path.dir].type = "dir" /\ cmd'.ino # cmd'.path.dir
      BY <2>1, <2>9, <2>10, <3>1
    <3>6. core'[cmd'.ino] = Fresh(cmd'.op)
      BY <2>1, <2>9
    <3>7. \A n \in Names(core, cur)' : n.ino # cmd'.ino
      BY <2>5, <2>7, <2>9
    <3> QED
      BY <2>11, <3>3, <3>4, <3>5, <3>6, <3>7 DEF CallOK
  <2>14. Rewritten'
    BY <1>1, <1>2, <2>9, <2>11 DEF Live, Rewritten
  <2>15. Settled'
    <3>1. Pinned' = Pinned
      BY <1>2 DEF Pinned
    <3>2. \A j \in Ino : core'[j] # dinode'[j] => j \in Pinned' \cup {open'.ino} \cup Dirty'
      BY <1>2, <2>1, <2>12, <3>1 DEF Live, Settled
    <3> QED
      BY <2>11, <3>2 DEF Settled
  <2>16. OnDisk'
    BY <1>2, <2>1, <2>12 DEF Live, OnDisk
  <2>17. Saved'
    <3>1. Unsaved \subseteq Unsaved'
      <4>1. Blocks(core', cmd'.path.dir) = Blocks(core, cmd.path.dir)
        BY <2>1, <2>5, <2>9, <2>10
      <4> QED
        BY <2>9, <2>10, <4>1 DEF Unsaved
    <3>2. /\ \A j \in Ino, b \in Block : b \in Blocks(dinode, j) /\ b >= saved => b \in loose \cup Unsaved
          /\ \A j \in Ino, b \in Block : b \in Blocks(core, j) /\ b >= saved => b \in loose \cup Unsaved
      BY <2>10 DEF Live, Saved, Making
    <3>3. \A j \in Ino : Blocks(core', j) \subseteq Blocks(core, j) /\ Blocks(dinode', j) = Blocks(dinode, j)
      BY <1>2, <2>5 DEF Blocks
    <3> QED
      BY <1>2, <2>11, <3>1, <3>2, <3>3 DEF Saved
  <2> QED
    BY <2>5, <2>6, <2>8, <2>13, <2>14, <2>15, <2>16, <2>17 DEF Live
<1> QED
  BY <1>4, <1>5

\* What a write does to the blocks of the inodes.
LEMMA BlocksWritten ==
    ASSUME Typed, NEW i \in Ino, NEW u \in 1 .. core[i].size + 1, NEW unit, Wrote(i, u, unit)
    PROVE  /\ \A j \in Ino : j # i => core'[j] = core[j] /\ Blocks(core', j) = Blocks(core, j)
           /\ Blocks(core, i) \subseteq Blocks(core', i)
           /\ \A j \in Ino : core'[j].type = core[j].type
           /\ top <= top' /\ top' \in Nat
           /\ top' = top => Blocks(core', i) = Blocks(core, i)
           /\ top' # top => top' = top + 1 /\ Blocks(core', i) = Blocks(core, i) \cup {top}
<1>1. \A j \in Ino : j # i => core'[j] = core[j] /\ Blocks(core', j) = Blocks(core, j)
  BY DEF Wrote, Blocks
<1>2. \A k \in DOMAIN core[i].addr : k \in DOMAIN core'[i].addr /\ core'[i].addr[k] = core[i].addr[k]
  BY DEF Wrote
<1>3. Blocks(core, i) \subseteq Blocks(core', i)
  BY <1>2 DEF Blocks
<1>4. \A j \in Ino : core'[j].type = core[j].type
  BY DEF Wrote
<1>5. top \in Nat /\ top' \in Nat /\ top <= top'
  BY Bounds DEF Wrote
<1>6. CASE Index(u) \in DOMAIN core[i].addr
  <2>1. top' = top
    BY <1>6 DEF Wrote
  <2>2. \A k \in DOMAIN core'[i].addr : k \in DOMAIN core[i].addr
    BY <1>6 DEF Wrote
  <2>3. Blocks(core', i) = Blocks(core, i)
    BY <1>2, <2>2 DEF Blocks
  <2> QED
    BY <1>1, <1>3, <1>4, <1>5, <2>1, <2>3
<1>7. CASE Index(u) \notin DOMAIN core[i].addr
  <2>1. Aim(i, u) = top /\ top' = top + 1 /\ core'[i].addr[Index(u)] = top
        /\ Index(u) \in DOMAIN core'[i].addr
    BY <1>7 DEF Wrote
  <2>2. \A k \in DOMAIN core'[i].addr : k \in DOMAIN core[i].addr \/ k = Index(u)
    BY DEF Wrote
  <2>3. Blocks(core', i) = Blocks(core, i) \cup {top}
    BY <1>2, <2>1, <2>2 DEF Blocks
  <2> QED
    BY <1>1, <1>3, <1>4, <1>5, <2>1, <2>3
<1> QED
  BY <1>6, <1>7

LEMMA WriteDirLive ==
    ASSUME Typed, Always, Live, WriteDir
    PROVE  Always' /\ Live'
<1> DEFINE d == cmd.path.dir
           u == FreeSlot(cmd.path.dir)
           m == NameOf(cmd.path, cmd.ino)
           unit == EntryOf(m)
<1>1. /\ Step("entry")
      /\ loose' = (IF cmd.op = "creat" THEN loose \cup (top .. top' - 1) ELSE loose)
      /\ UNCHANGED <<dinode, saved, isaved, itop, userVars, crashes, kept, torn>>
  BY DEF WriteDir
<1>2. UNCHANGED <<dinode, saved, cwd, made, stuck, open, kept>>
  BY <1>1 DEF userVars
<1>3. /\ cmd \in [op : Making, path : Paths, ino : Ino, step : {"entry"}]
      /\ cmd' \in [op : {cmd.op}, path : {cmd.path}, ino : {cmd.ino}, step : {"putdir"}]
      /\ Wrote(d, u, unit)
  BY WriteDirTyped
<1>4. /\ d \in Ino /\ core[d].type = "dir" /\ cmd.ino \in Ino /\ cmd.path \in Path
      /\ cmd.op \in Making /\ core[cmd.ino] = Fresh(cmd.op) /\ cmd.ino # d
      /\ \A n \in Names(core, cur) : n.ino # cmd.ino
  BY <1>1, <1>3, Made DEF Live, CallOK
<1>5. /\ u \in 1 .. core[d].size + 1
      /\ u \in 1 .. core[d].size => At(core, cur, d, u) = Zero
  BY <1>4, FreeSlotIn DEF Typed
<1>6. m \in NameType /\ m.dir = d /\ m.ino = cmd.ino
  BY <1>4 DEF NameOf, NameType, Path
<1>7. cmd'.op = cmd.op /\ cmd'.path = cmd.path /\ cmd'.ino = cmd.ino /\ cmd'.step = "putdir"
  BY <1>3
<1>8. /\ \A x \in {"ialloc", "entry", "dots", "copy", "update", "close", "saveinode"} : ~ Step(x)'
      /\ Step("putdir")'
  BY <1>4, <1>7 DEF Step, Making
<1>9. cmd'.path.dir = d /\ NameOf(cmd'.path, cmd'.ino) = m
  BY <1>7
<1>10. NameOf(cmd.path, cmd.ino) = m
  OBVIOUS
<1> HIDE DEF d, u, m
<1>11. Always' /\ Below'
  BY <1>2, <1>3, <1>4, <1>5, WrittenKept DEF Live
<1>12. \A n : n \in Names(core', cur') <=>
                n \in Names(core, cur) \/ (n \in NameType /\ n.dir = d /\ EntryOf(n) = unit)
  BY <1>3, <1>4, <1>5, NamesWritten DEF Always, Live
<1>13. m \in Names(core', cur') /\ \A n \in Names(core', cur') : n \in Names(core, cur) \/ n = m
  <2>1. ASSUME NEW n, n \in NameType, n.dir = d, EntryOf(n) = unit PROVE n = m
    <3>1. n.name = m.name /\ n.ino = m.ino
      BY <1>6, <2>1, EntryParts
    <3>2. n = [dir |-> n.dir, name |-> n.name, ino |-> n.ino]
      BY <2>1, EntryParts
    <3>3. m = [dir |-> m.dir, name |-> m.name, ino |-> m.ino]
      BY <1>6, EntryParts
    <3> QED
      BY <1>6, <2>1, <3>1, <3>2, <3>3
  <2> QED
    BY <1>6, <1>12, <2>1
<1>14. Names(core, cur) \subseteq Names(core', cur')
  BY <1>12
<1>15. /\ \A j \in Ino : j # d => core'[j] = core[j] /\ Blocks(core', j) = Blocks(core, j)
       /\ Blocks(core, d) \subseteq Blocks(core', d)
       /\ \A j \in Ino : core'[j].type = core[j].type
       /\ top <= top' /\ top' \in Nat
       /\ top' = top => Blocks(core', d) = Blocks(core, d)
       /\ top' # top => top' = top + 1 /\ Blocks(core', d) = Blocks(core, d) \cup {top}
  BY <1>3, <1>4, <1>5, BlocksWritten
<1> HIDE DEF unit
<1>16. core[cmd.ino].type # "free"
  BY <1>4 DEF Fresh
<1>17. Named'
  <2>1. \A n \in Names(core, cur) : n.ino \in Ino
    BY Bounds, NamesAre DEF NameType
  <2>2. \A n \in Names(core', cur') : core'[n.ino].type # "free"
    BY <1>4, <1>6, <1>13, <1>15, <1>16, <2>1 DEF Live, Named
  <2>3. ASSUME NEW n \in Names(core', cur'), NEW l \in Names(core', cur'), n.ino = l.ino PROVE n = l
    BY <1>4, <1>6, <1>13, <2>3 DEF Live, Named
  <2> QED
    BY <2>2, <2>3 DEF Named
<1>18. CallOK'
  <2>1. cwd \in Ino /\ made \subseteq Ino /\ (open # NoFile => open.ino \in Ino)
    BY Bounds DEF Rest
  <2>2. core'[cwd'].type = "dir" /\ \A j \in made' : core'[j].type = "dir"
    BY <1>2, <1>15, <2>1 DEF Live, CallOK
  <2>3. open' # NoFile =>
            core'[open'.ino].type = "file" /\ NameOf(open'.path, open'.ino) \in Names(core', cur')
    BY <1>2, <1>14, <1>15, <2>1 DEF Live, CallOK
  <2>4. core'[cmd'.path.dir].type = "dir"
    BY <1>4, <1>9, <1>15
  <2>5. core'[cmd'.ino] = Fresh(cmd'.op)
    BY <1>4, <1>7, <1>15
  <2>6. NameOf(cmd'.path, cmd'.ino) \in Names(core', cur')
    BY <1>9, <1>13
  <2> QED
    BY <1>8, <2>2, <2>3, <2>4, <2>5, <2>6 DEF CallOK
<1>19. Rewritten'
  BY <1>1, <1>2, <1>7, <1>8 DEF Live, Rewritten
<1>20. New = {cmd.ino} /\ New' = {cmd.ino} /\ Dirty = {cmd.ino} /\ Dirty' = {cmd.ino, d}
  <2>1. ~ Step("putdir")
    BY <1>3 DEF Step
  <2> QED
    BY <1>1, <1>7, <1>8, <1>9, <2>1 DEF New, Dirty
<1>21. Settled'
  <2>1. Pinned' = Pinned
    BY <1>2 DEF Pinned
  <2>2. \A j \in Ino : core'[j] # dinode'[j] => j \in Pinned' \cup {open'.ino} \cup Dirty'
    BY <1>2, <1>15, <1>20, <2>1 DEF Live, Settled
  <2> QED
    BY <1>8, <2>2 DEF Settled
<1>22. OnDisk'
  BY <1>2, <1>15, <1>20 DEF Live, OnDisk
<1>23. Saved'
  <2>1. Unsaved \subseteq Unsaved'
    <3>1. cmd.ino # 0 /\ cmd'.ino # 0
      BY <1>4, <1>7, Bounds
    <3>2. Blocks(core', cmd.ino) = Blocks(core, cmd.ino)
      BY <1>4, <1>15
    <3>3. cmd.path.dir = d
      BY DEF d
    <3> QED
      BY <1>7, <1>9, <1>15, <3>1, <3>2, <3>3 DEF Unsaved
  <2>2. loose \subseteq loose'
    BY <1>1
  <2>3. top' # top => top \in loose' \cup Unsaved'
    <3>1. CASE cmd.op = "creat"
      <4>1. top \in Nat
        BY Bounds
      <4>2. top' = top + 1 => top \in top .. top' - 1
        BY <4>1
      <4> QED
        BY <1>1, <1>15, <3>1, <4>2
    <3>2. CASE cmd.op # "creat"
      <4>1. cmd'.op \in {"load", "mkdir"}
        BY <1>4, <1>7, <3>2 DEF Making
      <4>2. Blocks(core', d) \subseteq Unsaved'
        BY <1>9, <4>1 DEF Unsaved
      <4> QED
        BY <1>15, <4>2
    <3> QED
      BY <3>1, <3>2
  <2>4. /\ \A j \in Ino, b \in Block : b \in Blocks(dinode, j) /\ b >= saved => b \in loose \cup Unsaved
        /\ \A j \in Ino, b \in Block : b \in Blocks(core, j) /\ b >= saved => b \in loose \cup Unsaved
    BY <1>4 DEF Live, Saved, Making
  <2>5. /\ \A j \in Ino : Blocks(dinode', j) = Blocks(dinode, j)
        /\ \A j \in Ino : \A b \in Blocks(core', j) : b \in Blocks(core, j) \/ (b = top /\ top' # top)
    <3>1. \A j \in Ino : Blocks(dinode', j) = Blocks(dinode, j)
      BY <1>2 DEF Blocks
    <3>2. ASSUME NEW j \in Ino, NEW b \in Blocks(core', j)
          PROVE  b \in Blocks(core, j) \/ (b = top /\ top' # top)
      <4>1. CASE j # d
        BY <1>15, <3>2, <4>1
      <4>2. CASE j = d
        BY <1>15, <3>2, <4>2
      <4> QED
        BY <4>1, <4>2
    <3> QED
      BY <3>1, <3>2
  <2> QED
    BY <1>2, <1>8, <2>1, <2>2, <2>3, <2>4, <2>5 DEF Saved
<1> QED
  BY <1>11, <1>17, <1>18, <1>19, <1>21, <1>22, <1>23 DEF Live

LEMMA PutDirLive ==
    ASSUME Typed, Always, Live, PutDir
    PROVE  Always' /\ Live'
<1> DEFINE d == cmd.path.dir
<1>1. /\ Step("putdir") /\ IPut(d)
      /\ IF cmd.op = "mkdir" THEN UNCHANGED open ELSE open' = [ino |-> cmd.ino, path |-> cmd.path]
      /\ UNCHANGED <<dur, saved, isaved, seenVars, cwd, made, stuck, histVars>>
  BY DEF PutDir
<1>2. UNCHANGED <<core, cur, dur, top, saved, cwd, made, stuck, kept, loose>>
  BY <1>1 DEF seenVars, histVars
<1>3. /\ cmd \in [op : Making, path : Paths, ino : Ino, step : {"putdir"}]
      /\ cmd.op = "mkdir" =>
            /\ cmd' \in [op : {cmd.op}, path : {cmd.path}, ino : {cmd.ino}, step : {"dots"}]
            /\ open' = open
      /\ cmd.op # "mkdir" => open = NoFile /\ open' = [ino |-> cmd.ino, path |-> cmd.path]
      /\ cmd.op = "load" =>
            cmd' \in [op : {cmd.op}, path : {cmd.path}, ino : {cmd.ino}, step : {"copy"}]
      /\ cmd.op = "creat" => cmd' = NoCmd
  BY PutDirTyped
<1>4. /\ d \in Ino /\ core[d].type = "dir" /\ cmd.ino \in Ino /\ cmd.path \in Path
      /\ cmd.op \in Making /\ core[cmd.ino] = Fresh(cmd.op)
      /\ NameOf(cmd.path, cmd.ino) \in Names(core, cur)
  BY <1>1, <1>3, Made DEF Live, CallOK
<1>5. cmd.path.dir = d
  OBVIOUS
<1> HIDE DEF d
<1>6. /\ d \notin Pinned => dinode'[d] = core[d]
      /\ d \in Pinned => dinode' = dinode
      /\ \A j \in Ino : j # d => dinode'[j] = dinode[j]
  BY <1>1, <1>4, Bounds, PutTyped
<1>7. Settling
  <2>1. \A j \in Ino : dinode'[j] = dinode[j] \/ dinode'[j] = core[j]
    BY <1>4, <1>6
  <2> QED
    BY <1>2, <2>1 DEF Settling
<1>8. Always' /\ Below' /\ Named' /\ Names(core, cur)' = Names(core, cur)
  BY <1>2, <1>7, SettlingKept, SettlingLive DEF Live
<1>9. /\ ~ Step("entry") /\ ~ Step("dots") /\ ~ Step("saveinode")
      /\ New = {cmd.ino} /\ Dirty = {cmd.ino, d}
  <2>1. ~ Step("entry") /\ ~ Step("dots") /\ ~ Step("saveinode")
    BY <1>3 DEF Step
  <2> QED
    BY <1>1, <1>5, <2>1 DEF New, Dirty
<1>10. Pinned' = Pinned
  BY <1>2 DEF Pinned
<1>11. /\ \A j \in Ino : core[j] # dinode'[j] => j \in Pinned \cup {open.ino, cmd.ino}
       /\ \A j \in Ino : core[j].type # "free" /\ dinode'[j].type = "free" =>
                j \in made \cup stuck \cup {open.ino, cmd.ino}
  <2>1. ASSUME NEW j \in Ino, core[j] # dinode'[j] PROVE j \in Pinned \cup {open.ino, cmd.ino}
    <3>1. CASE j # d
      BY <1>6, <1>9, <2>1, <3>1 DEF Live, Settled
    <3>2. CASE j = d
      BY <1>6, <2>1, <3>2
    <3> QED
      BY <3>1, <3>2
  <2>2. ASSUME NEW j \in Ino, core[j].type # "free", dinode'[j].type = "free"
        PROVE  j \in made \cup stuck \cup {open.ino, cmd.ino}
    <3>1. dinode'[j] = dinode[j]
      BY <1>7, <2>2 DEF Settling
    <3> QED
      BY <1>9, <2>2, <3>1 DEF Live, OnDisk
  <2> QED
    BY <2>1, <2>2
<1>12. core'[cwd'].type = "dir" /\ \A j \in made' : core'[j].type = "dir"
  BY <1>2 DEF Live, CallOK
<1>13. 0 \notin Ino /\ NoFile.ino = 0
  BY Bounds DEF NoFile
<1>14. Settling /\ cmd.op # "write" /\ UNCHANGED <<saved, loose>>
  BY <1>2, <1>4, <1>7 DEF Making
<1>15. CASE cmd.op = "mkdir"
  <2>1. /\ cmd'.op = cmd.op /\ cmd'.path = cmd.path /\ cmd'.ino = cmd.ino /\ cmd'.step = "dots"
        /\ open' = open
    BY <1>3, <1>15
  <2>2. /\ \A x \in {"ialloc", "entry", "putdir", "copy", "update", "close", "saveinode"} : ~ Step(x)'
        /\ Step("dots")'
    BY <1>4, <2>1 DEF Step, Making
  <2>3. New' = {cmd.ino} /\ Dirty' = {cmd.ino}
    BY <2>1, <2>2 DEF New, Dirty
  <2>4. CallOK'
    <3>1. open' # NoFile =>
            core'[open'.ino].type = "file" /\ NameOf(open'.path, open'.ino) \in Names(core, cur)'
      BY <1>2, <2>1 DEF Live, CallOK
    <3>2. core'[cmd'.ino] = Fresh(cmd'.op)
      BY <1>2, <1>4, <2>1
    <3> QED
      BY <1>12, <2>2, <3>1, <3>2 DEF CallOK
  <2>5. Rewritten'
    BY <2>2 DEF Rewritten
  <2>6. Settled'
    BY <1>2, <1>10, <1>11, <2>1, <2>2, <2>3 DEF Settled
  <2>7. OnDisk'
    BY <1>2, <1>11, <2>1, <2>3 DEF OnDisk
  <2>8. Saved'
    <3>1. Unsaved' = Unsaved
      BY <1>2, <2>1 DEF Unsaved
    <3>2. ~ Step("saveinode")'
      BY <2>2
    <3> QED
      BY <1>14, <3>1, <3>2, SavedStays DEF Live
  <2> QED
    BY <1>8, <2>4, <2>5, <2>6, <2>7, <2>8 DEF Live
<1>16. CASE cmd.op # "mkdir"
  <2>1. open = NoFile /\ open' = [ino |-> cmd.ino, path |-> cmd.path]
    BY <1>3, <1>16
  <2>2. open'.ino = cmd.ino /\ open'.path = cmd.path /\ open.ino = 0
    BY <2>1, <1>13
  <2>3. /\ \A x \in {"ialloc", "entry", "putdir", "dots", "update", "close", "saveinode"} : ~ Step(x)'
        /\ Step("copy")' => cmd'.ino = cmd.ino
        /\ Unsaved \subseteq Unsaved'
    <3>1. CASE cmd.op = "load"
      <4>1. cmd'.op = "load" /\ cmd'.path = cmd.path /\ cmd'.ino = cmd.ino /\ cmd'.step = "copy"
        BY <1>3, <3>1
      <4> QED
        BY <1>2, <3>1, <4>1 DEF Step, Unsaved
    <3>2. CASE cmd.op = "creat"
      <4>1. cmd' = NoCmd
        BY <1>3, <3>2
      <4> QED
        BY <3>2, <4>1 DEF Step, Unsaved, NoCmd
    <3> QED
      BY <1>4, <1>16, <3>1, <3>2 DEF Making
  <2>4. New' = {} /\ Dirty' = {}
    BY <2>3 DEF New, Dirty
  <2>5. CallOK'
    <3>1. core'[open'.ino].type = "file" /\ NameOf(open'.path, open'.ino) \in Names(core, cur)'
      BY <1>2, <1>4, <1>8, <1>16, <2>2 DEF Fresh
    <3> QED
      BY <1>12, <2>2, <2>3, <3>1 DEF CallOK
  <2>6. Rewritten'
    BY <1>1, <1>2, <2>2, <2>3 DEF Live, Rewritten
  <2>7. Settled'
    BY <1>2, <1>10, <1>11, <1>13, <2>2, <2>3, <2>4 DEF Settled
  <2>8. OnDisk'
    BY <1>2, <1>11, <1>13, <2>2, <2>4 DEF OnDisk
  <2>9. Saved'
    <3>1. ~ Step("saveinode")'
      BY <2>3
    <3> QED
      BY <1>14, <2>3, <3>1, SavedStays DEF Live
  <2> QED
    BY <1>8, <2>5, <2>6, <2>7, <2>8, <2>9 DEF Live
<1> QED
  BY <1>15, <1>16

LEMMA WriteDotsLive ==
    ASSUME Typed, Always, Live, WriteDots
    PROVE  Always' /\ Live'
<1> DEFINE i == cmd.ino
<1>1. /\ Step("dots") /\ made' = made \cup {i}
      /\ UNCHANGED <<dinode, saved, isaved, itop, cwd, stuck, open, histVars>>
  BY DEF WriteDots
<1>2. UNCHANGED <<dinode, saved, cwd, stuck, open, kept, loose>>
  BY <1>1 DEF histVars
<1>3. /\ cmd \in [op : {"mkdir"}, path : Paths, ino : Ino, step : {"dots"}]
      /\ cmd' \in [op : {cmd.op}, path : {cmd.path}, ino : {cmd.ino}, step : {"savedata"}]
      /\ Wrote(i, 1, Dots)
  BY WriteDotsTyped
<1>4. i \in Ino /\ core[i] = Fresh("mkdir")
  BY <1>1, <1>3 DEF Live, CallOK
<1>5. core[i].type = "dir" /\ core[i].size = 0
  BY <1>4 DEF Fresh
<1>6. /\ cmd'.op = "mkdir" /\ cmd'.path = cmd.path /\ cmd'.ino = i /\ cmd'.step = "savedata"
      /\ cmd.op = "mkdir" /\ cmd.ino = i
  BY <1>3
<1> HIDE DEF i
<1>7. 1 \in 1 .. core[i].size + 1 /\ 1 \notin 1 .. core[i].size
  BY <1>5
<1>8. Always' /\ Below'
  BY <1>2, <1>3, <1>4, <1>5, <1>7, WrittenKept DEF Live
<1>9. Names(core', cur') = Names(core, cur)
  <2>1. \A n : n \in Names(core', cur') <=>
                n \in Names(core, cur) \/ (n \in NameType /\ n.dir = i /\ EntryOf(n) = Dots)
    BY <1>3, <1>4, <1>5, <1>7, NamesWritten DEF Always, Live
  <2> QED
    BY <2>1, EntryParts
<1>10. /\ \A j \in Ino : j # i => core'[j] = core[j] /\ Blocks(core', j) = Blocks(core, j)
       /\ Blocks(core, i) \subseteq Blocks(core', i)
       /\ \A j \in Ino : core'[j].type = core[j].type
  BY <1>3, <1>4, <1>7, BlocksWritten
<1>11. Named'
  <2>1. \A n \in Names(core, cur) : n.ino \in Ino
    BY Bounds, NamesAre DEF NameType
  <2> QED
    BY <1>9, <1>10, <2>1 DEF Live, Named
<1>12. /\ \A x \in Busy \cup {"update", "close", "saveinode"} : ~ Step(x)'
       /\ cmd'.step \notin Busy
  BY <1>6 DEF Step, Busy
<1>13. New' = {} /\ Dirty' = {} /\ Rewritten'
  BY <1>12, NothingMade
<1>14. New = {i} /\ Dirty = {i}
  <2>1. ~ Step("putdir") /\ ~ Step("entry")
    BY <1>3 DEF Step
  <2> QED
    BY <1>1, <1>6, <2>1 DEF New, Dirty
<1>15. CallOK'
  <2>1. cwd \in Ino /\ made \subseteq Ino /\ (open # NoFile => open.ino \in Ino)
    BY Bounds DEF Rest
  <2>2. core'[cwd'].type = "dir" /\ \A j \in made' : core'[j].type = "dir"
    BY <1>1, <1>2, <1>4, <1>5, <1>10, <2>1 DEF Live, CallOK
  <2>3. open' # NoFile =>
            core'[open'.ino].type = "file" /\ NameOf(open'.path, open'.ino) \in Names(core', cur')
    BY <1>2, <1>9, <1>10, <2>1 DEF Live, CallOK
  <2> QED
    BY <1>12, <2>2, <2>3 DEF CallOK, Busy
<1>16. Pinned' = Pinned \cup {i}
  BY <1>1, <1>2 DEF Pinned
<1>17. Settled'
  <2>1. \A j \in Ino : core'[j] # dinode'[j] => j \in Pinned' \cup {open'.ino}
    BY <1>2, <1>10, <1>14, <1>16 DEF Live, Settled
  <2> QED
    BY <1>12, <2>1 DEF Settled
<1>18. OnDisk'
  BY <1>1, <1>2, <1>10, <1>14 DEF Live, OnDisk
<1>19. Saved'
  <2>1. i # 0
    BY <1>4, Bounds
  <2>2. \A j \in Ino : Blocks(core, j) \subseteq Blocks(core', j)
    BY <1>10
  <2>3. cmd.path.dir \in Ino
    BY <1>3, PathFields
  <2>4. Unsaved \subseteq Unsaved' /\ Blocks(core', i) \subseteq Unsaved'
    BY <1>4, <1>6, <2>1, <2>2, <2>3 DEF Unsaved
  <2>5. /\ \A j \in Ino, b \in Block : b \in Blocks(dinode, j) /\ b >= saved => b \in loose \cup Unsaved
        /\ \A j \in Ino, b \in Block : b \in Blocks(core, j) /\ b >= saved => b \in loose \cup Unsaved
    BY <1>6 DEF Live, Saved
  <2>6. \A j \in Ino : Blocks(dinode', j) = Blocks(dinode, j)
    BY <1>2 DEF Blocks
  <2> QED
    BY <1>2, <1>10, <1>12, <2>4, <2>5, <2>6 DEF Saved
<1> QED
  BY <1>8, <1>11, <1>13, <1>15, <1>17, <1>18, <1>19 DEF Live

\* The open file is written to, and nothing that is to survive is at its path.
LEMMA AppendLive ==
    ASSUME Typed, Always, Live, open # NoFile, New = {}, Dirty = {},
           Wrote(open.ino, core[open.ino].size + 1, [tag |-> "data", path |-> open.path]),
           UNCHANGED <<dinode, cwd, made, stuck, open>>,
           kept' \subseteq kept, \A k \in kept' : k.path # open.path
    PROVE  /\ Always' /\ Below' /\ Named' /\ open.ino \in Ino
           /\ core'[cwd'].type = "dir" /\ \A j \in made' : core'[j].type = "dir"
           /\ core'[open'.ino].type = "file" /\ NameOf(open'.path, open'.ino) \in Names(core, cur)'
           /\ \A j \in Ino : core'[j] # dinode'[j] => j \in Pinned' \cup {open'.ino}
           /\ \A j \in Ino : core'[j].type # "free" /\ dinode'[j].type = "free" =>
                j \in made' \cup stuck' \cup {open'.ino}
           /\ \A j \in Ino : j # open.ino => Blocks(core', j) = Blocks(core, j)
           /\ \A j \in Ino : Blocks(core, j) \subseteq Blocks(core', j)
<1> DEFINE i == open.ino
           u == core[open.ino].size + 1
           unit == [tag |-> "data", path |-> open.path]
<1>1. i \in Ino /\ open.path \in Path
  BY Bounds DEF Rest
<1>2. core[i].size \in Nat
  BY <1>1, Bounds, InodeFields
<1>3. u \in 1 .. core[i].size + 1 /\ u \notin 1 .. core[i].size
  BY <1>2
<1>4. Wrote(i, u, unit)
  OBVIOUS
<1>5. unit \in Data
  BY <1>1 DEF Data
<1>6. core[i].type = "file" /\ NameOf(open.path, i) \in Names(core, cur)
  BY DEF Live, CallOK
<1> HIDE DEF i, u, unit
<1>7. Always' /\ Below'
  <2>1. ASSUME NEW n \in SharedNames, NEW k \in kept', k.path = [dir |-> n.dir, name |-> n.name], n.ino = i
        PROVE  FALSE
    <3>1. k.path = open.path
      BY <1>1, <1>6, <2>1, PathOfName DEF Always, Live
    <3> QED
      BY <3>1
  <2> QED
    BY <1>1, <1>3, <1>4, <2>1, WrittenKept DEF Live
<1>8. Names(core', cur') = Names(core, cur)
  <2>1. \A n : n \in Names(core', cur') <=>
                \/ n \in Names(core, cur)
                \/ n \in NameType /\ core[i].type = "dir" /\ n.dir = i /\ EntryOf(n) = unit
    BY <1>1, <1>3, <1>4, NamesWritten DEF Always, Live
  <2> QED
    BY <1>6, <2>1
<1>9. /\ \A j \in Ino : j # i => core'[j] = core[j] /\ Blocks(core', j) = Blocks(core, j)
      /\ Blocks(core, i) \subseteq Blocks(core', i)
      /\ \A j \in Ino : core'[j].type = core[j].type
  BY <1>1, <1>3, <1>4, BlocksWritten
<1>10. Named'
  <2>1. \A n \in Names(core, cur) : n.ino \in Ino
    BY Bounds, NamesAre DEF NameType
  <2> QED
    BY <1>8, <1>9, <2>1 DEF Live, Named
<1>11. cwd \in Ino /\ made \subseteq Ino
  BY Bounds DEF Rest
<1>12. core'[cwd'].type = "dir" /\ \A j \in made' : core'[j].type = "dir"
  BY <1>9, <1>11 DEF Live, CallOK
<1>13. open'.ino = i /\ open'.path = open.path
  BY DEF i
<1>14. core'[open'.ino].type = "file" /\ NameOf(open'.path, open'.ino) \in Names(core, cur)'
  BY <1>1, <1>6, <1>8, <1>9, <1>13
<1>15. Pinned' = Pinned
  BY DEF Pinned
<1>16. \A j \in Ino : core'[j] # dinode'[j] => j \in Pinned' \cup {open'.ino}
  <2>1. \A j \in Ino : core[j] # dinode[j] => j \in Pinned \cup {i}
    BY DEF Live, Settled, i
  <2> QED
    BY <1>9, <1>13, <1>15, <2>1
<1>17. \A j \in Ino : core'[j].type # "free" /\ dinode'[j].type = "free" =>
            j \in made' \cup stuck' \cup {open'.ino}
  <2>1. \A j \in Ino : core[j].type # "free" /\ dinode[j].type = "free" => j \in made \cup stuck \cup {i}
    BY DEF Live, OnDisk, i
  <2> QED
    BY <1>9, <1>13, <2>1
<1>18. /\ \A j \in Ino : j # open.ino => Blocks(core', j) = Blocks(core, j)
       /\ \A j \in Ino : Blocks(core, j) \subseteq Blocks(core', j)
  <2>1. \A j \in Ino : j # open.ino => Blocks(core', j) = Blocks(core, j)
    BY <1>9 DEF i
  <2> QED
    BY <1>9, <2>1 DEF i
<1> QED
  BY <1>1, <1>7, <1>10, <1>12, <1>14, <1>16, <1>17, <1>18 DEF i

LEMMA CopyLive ==
    ASSUME Typed, Always, Live, Copy
    PROVE  Always' /\ Live'
<1>1. /\ Step("copy") /\ UNCHANGED <<dinode, saved, isaved, itop, userVars, cmd, histVars>>
  BY DEF Copy
<1>2. UNCHANGED <<dinode, saved, cwd, made, stuck, open, cmd, kept, loose>>
  BY <1>1 DEF userVars, histVars
<1>3. /\ open # NoFile
      /\ Wrote(open.ino, core[open.ino].size + 1, [tag |-> "data", path |-> open.path])
  BY CopyTyped
<1>4. /\ cmd \in [op : {"load"}, path : Paths, ino : Ino, step : {"copy"}]
      /\ open.ino = cmd.ino
  BY <1>1, Steps DEF Typed, Live, CallOK
<1>5. cmd.op = "load" /\ cmd.step = "copy" /\ cmd.ino \in Ino /\ cmd.ino # 0
  BY <1>4, Bounds
<1>6. /\ \A x \in {"ialloc", "entry", "putdir", "dots", "update", "close", "saveinode"} : ~ Step(x)
      /\ \A x \in {"ialloc", "entry", "putdir", "dots", "update", "close", "saveinode"} : ~ Step(x)'
  BY <1>2, <1>5 DEF Step
<1>7. New = {} /\ Dirty = {} /\ New' = {} /\ Dirty' = {}
  BY <1>6 DEF New, Dirty
<1>8. \A k \in kept : k.path # open.path
  BY <1>1 DEF Live, Rewritten
<1>9. /\ Always' /\ Below' /\ Named' /\ open.ino \in Ino
      /\ core'[cwd'].type = "dir" /\ \A j \in made' : core'[j].type = "dir"
      /\ core'[open'.ino].type = "file" /\ NameOf(open'.path, open'.ino) \in Names(core, cur)'
      /\ \A j \in Ino : core'[j] # dinode'[j] => j \in Pinned' \cup {open'.ino}
      /\ \A j \in Ino : core'[j].type # "free" /\ dinode'[j].type = "free" =>
            j \in made' \cup stuck' \cup {open'.ino}
      /\ \A j \in Ino : j # open.ino => Blocks(core', j) = Blocks(core, j)
      /\ \A j \in Ino : Blocks(core, j) \subseteq Blocks(core', j)
  BY <1>2, <1>3, <1>7, <1>8, AppendLive
<1>10. CallOK'
  BY <1>2, <1>4, <1>6, <1>9 DEF CallOK
<1>11. Rewritten'
  BY <1>2, <1>6, <1>8 DEF Rewritten
<1>12. Settled'
  BY <1>6, <1>9 DEF Settled
<1>13. OnDisk'
  BY <1>9 DEF OnDisk
<1>14. Saved'
  <2>1. cmd.path.dir \in Ino
    BY <1>4, PathFields
  <2>2. Unsaved \subseteq Unsaved' /\ Blocks(core', open.ino) \subseteq Unsaved'
    BY <1>2, <1>4, <1>5, <1>9, <2>1 DEF Unsaved
  <2>3. /\ \A j \in Ino, b \in Block : b \in Blocks(dinode, j) /\ b >= saved => b \in loose \cup Unsaved
        /\ \A j \in Ino, b \in Block : b \in Blocks(core, j) /\ b >= saved => b \in loose \cup Unsaved
    BY <1>5 DEF Live, Saved
  <2>4. \A j \in Ino : Blocks(dinode', j) = Blocks(dinode, j)
    BY <1>2 DEF Blocks
  <2> QED
    BY <1>2, <1>6, <1>9, <2>2, <2>3, <2>4 DEF Saved
<1> QED
  BY <1>9, <1>10, <1>11, <1>12, <1>13, <1>14 DEF Live

LEMMA WriteLive ==
    ASSUME Typed, Always, Live, Write
    PROVE  Always' /\ Live'
<1>1. /\ Ready /\ open # NoFile
      /\ kept' = {k \in kept : k.path # open.path}
      /\ cmd' = [op |-> "write", ino |-> 0, step |-> "savedata"]
      /\ UNCHANGED <<dinode, saved, isaved, itop, userVars, crashes, torn, loose>>
  BY DEF Write
<1>2. /\ UNCHANGED <<dinode, saved, cwd, made, stuck, open, loose>> /\ cmd = NoCmd
      /\ cmd'.step = "savedata" /\ cmd'.op = "write"
  BY <1>1 DEF userVars, Ready
<1>3. Wrote(open.ino, core[open.ino].size + 1, [tag |-> "data", path |-> open.path])
  BY WriteTyped
<1>4. New = {} /\ Dirty = {} /\ New' = {} /\ Dirty' = {} /\ Rewritten'
  BY <1>2, NothingMade DEF Busy
<1>5. \A x \in Busy \cup {"update", "close", "saveinode"} : ~ Step(x)'
  BY <1>2 DEF Step, Busy
<1>6. kept' \subseteq kept /\ \A k \in kept' : k.path # open.path
  BY <1>1
<1>7. /\ Always' /\ Below' /\ Named' /\ open.ino \in Ino
      /\ core'[cwd'].type = "dir" /\ \A j \in made' : core'[j].type = "dir"
      /\ core'[open'.ino].type = "file" /\ NameOf(open'.path, open'.ino) \in Names(core, cur)'
      /\ \A j \in Ino : core'[j] # dinode'[j] => j \in Pinned' \cup {open'.ino}
      /\ \A j \in Ino : core'[j].type # "free" /\ dinode'[j].type = "free" =>
            j \in made' \cup stuck' \cup {open'.ino}
      /\ \A j \in Ino : j # open.ino => Blocks(core', j) = Blocks(core, j)
      /\ \A j \in Ino : Blocks(core, j) \subseteq Blocks(core', j)
  BY <1>1, <1>2, <1>3, <1>4, <1>6, AppendLive
<1>8. CallOK'
  BY <1>5, <1>7 DEF CallOK, Busy
<1>9. Settled'
  BY <1>5, <1>7 DEF Settled
<1>10. OnDisk'
  BY <1>7 DEF OnDisk
<1>11. Saved'
  <2>1. Unsaved = {} /\ cmd.op # "write"
    BY <1>2 DEF Unsaved, NoCmd
  <2>2. /\ \A j \in Ino, b \in Block : b \in Blocks(dinode, j) /\ b >= saved => b \in loose
        /\ \A j \in Ino, b \in Block : b \in Blocks(core, j) /\ b >= saved => b \in loose
    BY <2>1 DEF Live, Saved
  <2>3. \A j \in Ino : Blocks(dinode', j) = Blocks(dinode, j)
    BY <1>2 DEF Blocks
  <2> QED
    BY <1>2, <1>5, <1>7, <2>2, <2>3 DEF Saved
<1> QED
  BY <1>4, <1>7, <1>8, <1>9, <1>10, <1>11 DEF Live

\* The reference of the descriptor is given back.
LEMMA PutOpen ==
    ASSUME Typed, Always, Live, open.ino \in Ino, IPut(open.ino), UNCHANGED <<core, cur, dur>>,
           core[open.ino].type = "file", New = {}, Dirty = {}
    PROVE  /\ Settling
           /\ \A j \in Ino : core[j] # dinode'[j] => j \in Pinned
           /\ \A j \in Ino : core[j].type # "free" /\ dinode'[j].type = "free" => j \in made \cup stuck
<1> DEFINE i == open.ino
<1>1. /\ i \notin Pinned => dinode'[i] = core[i]
      /\ i \in Pinned => dinode' = dinode
      /\ \A j \in Ino : j # i => dinode'[j] = dinode[j]
  BY Bounds, PutTyped
<1>2. /\ \A j \in Ino : core[j] # dinode[j] => j \in Pinned \cup {i}
      /\ \A j \in Ino : core[j].type # "free" /\ dinode[j].type = "free" => j \in made \cup stuck \cup {i}
  BY DEF Live, Settled, OnDisk
<1>3. i \in Ino /\ core[i].type = "file"
  OBVIOUS
<1> HIDE DEF i
<1>4. \A j \in Ino : dinode'[j] = dinode[j] \/ dinode'[j] = core[j]
  BY <1>1, <1>3
<1>5. Settling
  BY <1>4 DEF Settling
<1>6. \A j \in Ino : core[j] # dinode'[j] => j \in Pinned
  BY <1>1, <1>2, <1>3
<1>7. i \in Pinned => i \in made \cup stuck
  <2>1. core[Root].type = "dir"
    BY Bounds DEF Always, Behind
  <2>2. core[cwd].type = "dir"
    BY DEF Live, CallOK
  <2> QED
    BY <1>3, <2>1, <2>2 DEF Pinned
<1>8. \A j \in Ino : core[j].type # "free" /\ dinode'[j].type = "free" => j \in made \cup stuck
  BY <1>1, <1>2, <1>3, <1>7
<1> QED
  BY <1>5, <1>6, <1>8

LEMMA LoadCloseLive ==
    ASSUME Typed, Always, Live, LoadClose
    PROVE  Always' /\ Live'
<1>1. /\ Step("copy") /\ UNCHANGED <<dur, saved, isaved, seenVars, cwd, made, stuck, histVars>>
  BY DEF LoadClose
<1>2. UNCHANGED <<core, cur, dur, top, saved, cwd, made, stuck, kept, loose>>
  BY <1>1 DEF seenVars, histVars
<1>3. /\ cmd \in [op : {"load"}, path : Paths, ino : Ino, step : {"copy"}]
      /\ open # NoFile /\ open.ino \in Ino /\ IPut(open.ino) /\ open' = NoFile
      /\ cmd' \in [op : {"load"}, path : {cmd.path}, ino : {cmd.ino}, step : {"savedata"}]
  BY LoadCloseTyped
<1>4. /\ cmd'.op = "load" /\ cmd'.path = cmd.path /\ cmd'.ino = cmd.ino /\ cmd'.step = "savedata"
      /\ cmd.op = "load" /\ cmd.step = "copy"
  BY <1>3
<1>5. \A x \in Busy \cup {"update", "close", "saveinode"} : ~ Step(x)'
  BY <1>4 DEF Step, Busy
<1>6. New = {} /\ Dirty = {} /\ New' = {} /\ Dirty' = {} /\ Rewritten'
  <2>1. ~ Step("entry") /\ ~ Step("putdir") /\ ~ Step("dots")
    BY <1>4 DEF Step
  <2> QED
    BY <1>4, <2>1, NothingMade DEF New, Dirty, Busy
<1>7. core[open.ino].type = "file"
  BY <1>3 DEF Live, CallOK
<1>8. /\ Settling
      /\ \A j \in Ino : core[j] # dinode'[j] => j \in Pinned
      /\ \A j \in Ino : core[j].type # "free" /\ dinode'[j].type = "free" => j \in made \cup stuck
  BY <1>2, <1>3, <1>6, <1>7, PutOpen
<1>9. Always' /\ Below' /\ Named' /\ Names(core, cur)' = Names(core, cur)
  BY <1>2, <1>8, SettlingKept, SettlingLive DEF Live
<1>10. CallOK'
  <2>1. \A j \in Ino : core'[j].type = core[j].type
    BY <1>2
  <2>2. cmd'.step \notin Busy
    BY <1>4 DEF Busy
  <2> QED
    BY <1>2, <1>3, <1>9, <2>1, <2>2, CallStays DEF Live
<1>11. Pinned' = Pinned
  BY <1>2 DEF Pinned
<1>12. Settled'
  BY <1>2, <1>5, <1>8, <1>11 DEF Settled
<1>13. OnDisk'
  BY <1>2, <1>8 DEF OnDisk
<1>14. Saved'
  <2>1. Unsaved' = Unsaved
    BY <1>2, <1>4 DEF Unsaved
  <2>2. cmd.op # "write" /\ ~ Step("saveinode")'
    BY <1>4, <1>5
  <2> QED
    BY <1>2, <1>8, <2>1, <2>2, SavedStays DEF Live
<1> QED
  BY <1>6, <1>9, <1>10, <1>12, <1>13, <1>14 DEF Live

LEMMA CloseLive ==
    ASSUME Typed, Always, Live, Close
    PROVE  Always' /\ Live'
<1>1. /\ Ready /\ open # NoFile /\ IPut(open.ino) /\ open' = NoFile
      /\ UNCHANGED <<dur, saved, isaved, seenVars, cwd, made, stuck, cmd, histVars>>
  BY DEF Close
<1>2. UNCHANGED <<core, cur, dur, top, saved, cwd, made, stuck, cmd, kept, loose>> /\ cmd = NoCmd
  BY <1>1 DEF seenVars, histVars, Ready
<1>3. open.ino \in Ino
  BY CloseTyped
<1>4. /\ New = {} /\ Dirty = {} /\ New' = {} /\ Dirty' = {} /\ Rewritten'
      /\ \A x \in Busy \cup {"update", "close", "saveinode"} : ~ Step(x)'
  BY <1>2, NothingMade DEF Step, NoCmd
<1>5. core[open.ino].type = "file"
  BY <1>1 DEF Live, CallOK
<1>6. /\ Settling
      /\ \A j \in Ino : core[j] # dinode'[j] => j \in Pinned
      /\ \A j \in Ino : core[j].type # "free" /\ dinode'[j].type = "free" => j \in made \cup stuck
  BY <1>1, <1>2, <1>3, <1>4, <1>5, PutOpen
<1>7. Always' /\ Below' /\ Named' /\ Names(core, cur)' = Names(core, cur)
  BY <1>2, <1>6, SettlingKept, SettlingLive DEF Live
<1>8. CallOK'
  <2>1. \A j \in Ino : core'[j].type = core[j].type
    BY <1>2
  <2> QED
    BY <1>1, <1>2, <1>7, <2>1, CallStays DEF Live
<1>9. Pinned' = Pinned
  BY <1>2 DEF Pinned
<1>10. Settled'
  BY <1>2, <1>4, <1>6, <1>9 DEF Settled
<1>11. OnDisk'
  BY <1>2, <1>6 DEF OnDisk
<1>12. Saved'
  <2>1. Unsaved' = Unsaved /\ cmd.op # "write"
    BY <1>2 DEF Unsaved, NoCmd
  <2> QED
    BY <1>2, <1>4, <1>6, <2>1, SavedStays DEF Live
<1> QED
  BY <1>4, <1>7, <1>8, <1>10, <1>11, <1>12 DEF Live

LEMMA CdLive ==
    ASSUME Typed, Always, Live, NEW p \in Paths, Cd(p.dir)
    PROVE  Always' /\ Live'
<1>1. /\ Ready /\ cwd' = p.dir /\ p.dir \in Dirs(core, cur)
      /\ IF cwd \in {Root} \cup made \cup stuck THEN UNCHANGED dinode ELSE IUpdate(cwd)
      /\ UNCHANGED <<dur, saved, isaved, seenVars, made, stuck, open, cmd, histVars>>
  BY DEF Cd
<1>2. UNCHANGED <<core, cur, dur, top, saved, made, stuck, open, cmd, kept, loose>> /\ cmd = NoCmd
  BY <1>1 DEF seenVars, histVars, Ready
<1>3. core[p.dir].type = "dir" /\ p.dir \in Ino
  BY <1>1, PathFields DEF Dirs, DirsBut
<1>4. /\ cwd \notin {Root} \cup made \cup stuck => dinode'[cwd] = core[cwd]
      /\ cwd \in {Root} \cup made \cup stuck => dinode' = dinode
      /\ \A j \in Ino : j # cwd => dinode'[j] = dinode[j]
  BY <1>1, Bounds, UpdatedTyped
<1>5. Settling
  <2>1. \A j \in Ino : dinode'[j] = dinode[j] \/ dinode'[j] = core[j]
    BY <1>4, Bounds
  <2> QED
    BY <1>2, <2>1 DEF Settling
<1>6. Always' /\ Below' /\ Named' /\ Names(core, cur)' = Names(core, cur)
  BY <1>2, <1>5, SettlingKept, SettlingLive DEF Live
<1>7. /\ New = {} /\ Dirty = {} /\ New' = {} /\ Dirty' = {} /\ Rewritten'
      /\ \A x \in Busy \cup {"update", "close", "saveinode"} : ~ Step(x)'
  BY <1>2, NothingMade DEF Step, NoCmd
<1>8. CallOK'
  <2>1. core'[cwd'].type = "dir" /\ \A j \in made' : core'[j].type = "dir"
    BY <1>1, <1>2, <1>3 DEF Live, CallOK
  <2>2. open' # NoFile =>
            core'[open'.ino].type = "file" /\ NameOf(open'.path, open'.ino) \in Names(core, cur)'
    BY <1>2 DEF Live, CallOK
  <2> QED
    BY <1>7, <2>1, <2>2 DEF CallOK, Busy
<1>9. Settled'
  <2>1. \A j \in Ino : core[j] # dinode[j] => j \in {Root, cwd} \cup made \cup stuck \cup {open.ino}
    BY <1>7 DEF Live, Settled, Pinned
  <2>2. \A j \in Ino : core[j] # dinode'[j] => j \in {Root} \cup made \cup stuck \cup {open.ino}
    BY <1>4, <2>1
  <2> QED
    BY <1>2, <1>7, <2>2 DEF Settled, Pinned
<1>10. OnDisk'
  <2>1. \A j \in Ino : dinode'[j] = dinode[j] \/ dinode'[j] = core[j]
    BY <1>5 DEF Settling
  <2> QED
    BY <1>2, <1>7, <2>1 DEF Live, OnDisk
<1>11. Saved'
  <2>1. Unsaved' = Unsaved /\ cmd.op # "write"
    BY <1>2 DEF Unsaved, NoCmd
  <2> QED
    BY <1>2, <1>5, <1>7, <2>1, SavedStays DEF Live
<1> QED
  BY <1>6, <1>7, <1>8, <1>9, <1>10, <1>11 DEF Live

\* A step of a command that makes nothing, or to which nothing is left to be made, and
\* that does not touch what calls see.
LEMMA SettlingSession ==
    ASSUME Typed, Always, Live, Settling, UNCHANGED <<top, cwd, made, stuck, open, kept>>,
           cmd = NoCmd \/ cmd.step \notin Busy, cmd' = NoCmd \/ cmd'.step \notin Busy
    PROVE  /\ Always' /\ Below' /\ Named' /\ CallOK' /\ Rewritten' /\ OnDisk'
           /\ \A i \in Ino : core'[i] # dinode'[i] => i \in Pinned' \cup {open'.ino}
<1>1. core' = core /\ cur' = cur /\ \A j \in Ino : dinode'[j] = dinode[j] \/ dinode'[j] = core[j]
  BY DEF Settling
<1>2. Always' /\ Below' /\ Named' /\ Names(core, cur)' = Names(core, cur)
  BY SettlingKept, SettlingLive DEF Live
<1>3. New = {} /\ Dirty = {} /\ New' = {} /\ Dirty' = {} /\ Rewritten'
  BY NothingMade
<1>4. CallOK'
  <2>1. \A j \in Ino : core'[j].type = core[j].type
    BY <1>1
  <2> QED
    BY <1>2, <2>1, CallStays DEF Live
<1>5. OnDisk'
  BY <1>1, <1>3 DEF Live, OnDisk
<1>6. \A i \in Ino : core'[i] # dinode'[i] => i \in Pinned' \cup {open'.ino}
  BY <1>1, <1>3 DEF Live, Settled, Pinned
<1> QED
  BY <1>2, <1>3, <1>4, <1>5, <1>6

LEMMA AllKnown ==
    ASSUME Typed, Below
    PROVE  \A i \in Ino, b \in Block :
                ~ (b \in Blocks(core, i) /\ b >= top) /\ ~ (b \in Blocks(dinode, i) /\ b >= top)
BY Bounds DEF Below

LEMMA SaveDataLive ==
    ASSUME Typed, Always, Live, SaveData
    PROVE  Always' /\ Live'
<1>1. /\ Step("savedata") /\ saved' = top /\ loose' = {}
      /\ UNCHANGED <<dinode, dur, isaved, seenVars, userVars, crashes, kept, torn>>
  BY DEF SaveData
<1>2. UNCHANGED <<core, dinode, cur, dur, top, cwd, made, stuck, open, kept>>
  BY <1>1 DEF seenVars, userVars
<1>3. cmd' = NoCmd \/ cmd'.step = "saveinode"
  BY SaveDataTyped
<1>4. /\ cmd.step = "savedata" /\ cmd.step \notin Busy
      /\ cmd' = NoCmd \/ cmd'.step \notin Busy
      /\ ~ Step("update")' /\ ~ Step("close")'
  BY <1>1, <1>3 DEF Step, Busy, NoCmd
<1>5. Settling
  BY <1>2 DEF Settling
<1>6. /\ Always' /\ Below' /\ Named' /\ CallOK' /\ Rewritten' /\ OnDisk'
      /\ \A i \in Ino : core'[i] # dinode'[i] => i \in Pinned' \cup {open'.ino}
  BY <1>2, <1>4, <1>5, SettlingSession
<1>7. Settled'
  BY <1>4, <1>6 DEF Settled
<1>8. Saved'
  BY <1>1, <1>2, AllKnown DEF Live, Saved
<1> QED
  BY <1>6, <1>7, <1>8 DEF Live

LEMMA SaveInodeLive ==
    ASSUME Typed, Always, Live, SaveInode
    PROVE  Always' /\ Live'
<1>1. Step("saveinode") /\ UNCHANGED <<dinode, dur, saved, seenVars, userVars, histVars>>
  BY DEF SaveInode
<1>2. UNCHANGED <<core, dinode, cur, dur, top, saved, cwd, made, stuck, open, kept, loose>>
  BY <1>1 DEF seenVars, userVars, histVars
<1>3. cmd' = NoCmd \/ cmd'.step = "flush"
  BY SaveInodeTyped
<1>4. /\ cmd.step = "saveinode" /\ cmd.step \notin Busy
      /\ cmd' = NoCmd \/ cmd'.step \notin Busy
      /\ ~ Step("update")' /\ ~ Step("close")' /\ ~ Step("saveinode")'
  BY <1>1, <1>3 DEF Step, Busy, NoCmd
<1>5. Settling
  BY <1>2 DEF Settling
<1>6. /\ Always' /\ Below' /\ Named' /\ CallOK' /\ Rewritten' /\ OnDisk'
      /\ \A i \in Ino : core'[i] # dinode'[i] => i \in Pinned' \cup {open'.ino}
  BY <1>2, <1>4, <1>5, SettlingSession
<1>7. Settled'
  BY <1>4, <1>6 DEF Settled
<1>8. saved = top
  BY <1>1 DEF Live, Saved
<1>9. Saved'
  BY <1>2, <1>4, <1>8, AllKnown DEF Live, Saved
<1> QED
  BY <1>6, <1>7, <1>9 DEF Live

LEMMA ExitLive ==
    ASSUME Typed, Always, Live, Exit
    PROVE  Always' /\ Live'
<1>1. /\ Ready /\ cmd' = [op |-> "exit", ino |-> 0, step |-> "savedata"]
      /\ UNCHANGED <<diskVars, seenVars, userVars, histVars>>
  BY DEF Exit
<1>2. /\ UNCHANGED <<core, dinode, cur, dur, top, saved, cwd, made, stuck, open, kept, loose>>
      /\ cmd = NoCmd /\ cmd'.step = "savedata"
  BY <1>1 DEF diskVars, seenVars, userVars, histVars, Ready
<1>3. cmd'.step \notin Busy /\ ~ Step("update")' /\ ~ Step("close")' /\ ~ Step("saveinode")'
  BY <1>2 DEF Step, Busy
<1>4. Settling
  BY <1>2 DEF Settling
<1>5. /\ Always' /\ Below' /\ Named' /\ CallOK' /\ Rewritten' /\ OnDisk'
      /\ \A i \in Ino : core'[i] # dinode'[i] => i \in Pinned' \cup {open'.ino}
  BY <1>2, <1>3, <1>4, SettlingSession
<1>6. Settled'
  BY <1>3, <1>5 DEF Settled
<1>7. Saved'
  <2>1. Unsaved = {} /\ cmd.op # "write"
    BY <1>2 DEF Unsaved, NoCmd
  <2> QED
    BY <1>2, <1>3, <1>4, <2>1, SavedStays DEF Live
<1> QED
  BY <1>5, <1>6, <1>7 DEF Live

LEMMA BflushLive ==
    ASSUME Typed, Always, Live, Bflush
    PROVE  Always' /\ Live'
<1>1. /\ Step("flush") /\ dur' = cur
      /\ UNCHANGED <<dinode, saved, isaved, seenVars, userVars, histVars>>
  BY DEF Bflush
<1>2. UNCHANGED <<core, dinode, cur, top, saved, cwd, made, stuck, open, kept, loose>>
  BY <1>1 DEF seenVars, userVars, histVars
<1>3. cmd.op = "exit" /\ cmd'.step = "update" /\ cmd.step = "flush"
  BY <1>1, BflushTyped DEF Step
<1>4. cmd.step \notin Busy /\ cmd'.step \notin Busy /\ ~ Step("close")' /\ ~ Step("saveinode")'
  BY <1>3 DEF Step, Busy
<1>5. Settling
  BY <1>1, <1>2 DEF Settling
<1>6. /\ Always' /\ Below' /\ Named' /\ CallOK' /\ Rewritten' /\ OnDisk'
      /\ \A i \in Ino : core'[i] # dinode'[i] => i \in Pinned' \cup {open'.ino}
  BY <1>2, <1>4, <1>5, SettlingSession
<1>7. Settled'
  BY <1>1, <1>2, <1>4, <1>6 DEF Settled
<1>8. Saved'
  <2>1. Unsaved = {} /\ cmd.op # "write"
    BY <1>3 DEF Unsaved
  <2> QED
    BY <1>2, <1>4, <1>5, <2>1, SavedStays DEF Live
<1> QED
  BY <1>6, <1>7, <1>8 DEF Live

LEMMA UpdateLive ==
    ASSUME Typed, Always, Live, UpdateInodeTable
    PROVE  Always' /\ Live'
<1> DEFINE put == (Pinned \cup {open.ino}) \ stuck
<1>1. /\ Step("update") /\ dinode' = [i \in Ino |-> IF i \in put THEN core[i] ELSE dinode[i]]
      /\ UNCHANGED <<dur, saved, isaved, seenVars, userVars, histVars>>
  BY DEF UpdateInodeTable
<1>2. UNCHANGED <<core, cur, dur, top, saved, cwd, made, stuck, open, kept, loose>>
  BY <1>1 DEF seenVars, userVars, histVars
<1>3. cmd.op = "exit" /\ cmd'.step = "close" /\ cmd.step = "update"
  BY <1>1, UpdateTyped DEF Step
<1>4. cmd.step \notin Busy /\ cmd'.step \notin Busy /\ ~ Step("saveinode")'
  BY <1>3 DEF Step, Busy
<1>5. \A i \in Ino : dinode'[i] = IF i \in put THEN core[i] ELSE dinode[i]
  BY <1>1
<1>6. Settling
  BY <1>2, <1>5 DEF Settling
<1>7. /\ Always' /\ Below' /\ Named' /\ CallOK' /\ Rewritten' /\ OnDisk'
      /\ \A i \in Ino : core'[i] # dinode'[i] => i \in Pinned' \cup {open'.ino}
  BY <1>2, <1>4, <1>6, SettlingSession
<1>8. Settled'
  <2>1. Dirty = {}
    BY <1>4, NothingMade
  <2>2. \A i \in Ino : core[i] # dinode'[i] => i \in stuck
    BY <1>5, <2>1 DEF Live, Settled
  <2>3. dur = cur
    BY <1>1 DEF Live, Settled
  <2> QED
    BY <1>2, <1>7, <2>2, <2>3 DEF Settled
<1>9. Saved'
  <2>1. Unsaved = {} /\ cmd.op # "write"
    BY <1>3 DEF Unsaved
  <2> QED
    BY <1>2, <1>4, <1>6, <2>1, SavedStays DEF Live
<1> QED
  BY <1>7, <1>8, <1>9 DEF Live

LEMMA EvictLive ==
    ASSUME Typed, Always, Live, NEW b \in Block, Evict(b)
    PROVE  Always' /\ Live'
<1>1. cur[b] # dur[b] /\ UNCHANGED <<dinode, saved, isaved, seenVars, userVars, cmd, histVars>>
  BY DEF Evict
<1>2. UNCHANGED <<core, dinode, cur, top, saved, cwd, made, stuck, open, cmd, kept, loose>>
  BY <1>1 DEF seenVars, userVars, histVars
<1>3. dur'[b] = cur[b] /\ \A c \in Block : c # b => dur'[c] = dur[c]
  BY EvictTyped
<1>4. Settling
  BY <1>2, <1>3 DEF Settling
<1>5. Always' /\ Below' /\ Named'
  BY <1>2, <1>4, SettlingKept, SettlingLive DEF Live
<1>6. CallOK' /\ Rewritten'
  BY <1>2 DEF Live, CallOK, Rewritten, Step
<1>7. Settled' /\ OnDisk'
  <2>1. ~ Step("update") /\ ~ Step("close")
    BY <1>1 DEF Live, Settled
  <2> QED
    BY <1>2, <2>1 DEF Live, Settled, OnDisk, Pinned, New, Dirty, Step
<1>8. Saved'
  BY <1>2 DEF Live, Saved, Unsaved, Step
<1> QED
  BY <1>5, <1>6, <1>7, <1>8 DEF Live

LEMMA CrashKept ==
    ASSUME Typed, Always, Crash
    PROVE  Always'
<1>1. UNCHANGED <<dinode, dur>> /\ kept' = kept /\ Gone
  BY DEF Crash, diskVars
<1> QED
  BY <1>1, GoneKept

\* The names of what is not left locked are on the disk when the session has ended.
LEMMA CloseAllKept ==
    ASSUME Typed, Always, Live, CloseAll
    PROVE  Always'
<1>1. /\ Step("close") /\ kept' = Files(core, cur, stuck) /\ dur' = dur /\ Gone
      /\ IF open = NoFile THEN UNCHANGED dinode ELSE IPut(open.ino)
  BY DEF CloseAll
<1>2. core' = dinode' /\ cur' = dur' /\ dur = cur /\ dur' = cur
  BY <1>1 DEF Gone, Live, Settled
<1>3. ASSUME NEW i \in Ino
      PROVE  /\ dinode'[i] = dinode[i] \/ dinode'[i] = core[i]
             /\ Blocks(dinode', i) \subseteq Blocks(core, i) \cup Blocks(dinode, i)
  <2>1. dinode'[i] = dinode[i] \/ dinode'[i] = core[i]
    <3>1. CASE UNCHANGED dinode
      BY <3>1
    <3>2. CASE IUpdate(open.ino)
      <4>1. dinode \in [Ino -> Inode]
        BY Bounds DEF Volume
      <4> QED
        BY <3>2, <4>1 DEF IUpdate
    <3> QED
      BY <1>1, <3>1, <3>2 DEF IPut
  <2> QED
    BY <2>1 DEF Blocks
<1>4. \A i \in Ino : i \notin stuck => dinode'[i] = core[i]
  BY <1>1, <1>3 DEF Live, Settled
<1>5. \A i \in Ino : dinode'[i].type = "dir" => core[i].type = "dir"
  BY <1>3 DEF Always, Behind
<1>6. Apart'
  <2>1. ASSUME NEW i \in Ino, NEW k \in DOMAIN dinode'[i].addr, NEW l \in DOMAIN dinode'[i].addr,
               dinode'[i].addr[k] = dinode'[i].addr[l]
        PROVE  k = l
    <3>1. CASE dinode'[i] = dinode[i]
      BY <2>1, <3>1 DEF Always, Apart
    <3>2. CASE dinode'[i] = core[i]
      BY <2>1, <3>2 DEF Always, Apart
    <3> QED
      BY <1>3, <3>1, <3>2
  <2>2. ASSUME NEW i \in Ino, NEW j \in Ino, i # j PROVE Blocks(dinode', i) \cap Blocks(dinode', j) = {}
    <3>1. (Blocks(core, i) \cup Blocks(dinode, i)) \cap (Blocks(core, j) \cup Blocks(dinode, j)) = {}
      BY <2>2 DEF Always, Apart
    <3> QED
      BY <1>3, <3>1
  <2> QED
    BY <1>2, <2>1, <2>2 DEF Apart
<1>7. Behind'
  <2>1. \A i \in Ino : dinode'[i].size \in Nat
    BY CloseAllTyped, InodeFields
  <2>2. dinode'[Root].type = "dir"
    BY <1>3, Bounds DEF Always, Behind
  <2> QED
    BY <1>2, <2>1, <2>2 DEF Behind
<1>8. ASSUME NEW n \in Names(core, cur), n.dir \notin stuck
      PROVE  n \in SharedNames' /\ n \in NameType
  <2>1. n \in NameType /\ n.dir \in Ino /\ core[n.dir].type = "dir"
    BY NamesAre, Bounds DEF NameType
  <2>2. PICK u \in 1 .. core[n.dir].size : At(core, cur, n.dir, u) = EntryOf(n)
    BY NamesAre, Bounds
  <2>3. dinode'[n.dir] = core[n.dir]
    BY <1>4, <1>8, <2>1
  <2>4. At(dinode', dur', n.dir, u) = EntryOf(n) /\ At(core', cur', n.dir, u) = EntryOf(n)
    BY <1>2, <2>2, <2>3 DEF At
  <2> QED
    BY <2>1, <2>2, <2>3, <2>4 DEF SharedNames
<1>9. ASSUME NEW d \in DirsBut(core, cur, stuck) PROVE d \in SharedDirs'
  <2> DEFINE dirs  == {i \in Ino : core[i].type = "dir"}
             steps == {n \in Names(core, cur) : n.ino \in dirs /\ {n.dir, n.ino} \cap stuck = {}}
  <2>1. d \in Ino
    BY DEF DirsBut
  <2> SUFFICES ASSUME NEW R \in SUBSET {i \in Ino : dinode'[i].type = "dir"}, Root \in R,
                      \A n \in SharedNames' : dinode'[n.ino].type = "dir" /\ n.dir \in R => n.ino \in R
               PROVE  d \in R
    BY <2>1 DEF SharedDirs
  <2>2. R \in SUBSET dirs
    BY <1>5
  <2>3. ASSUME NEW n \in steps, n.dir \in R PROVE n.ino \in R
    <3>1. n \in SharedNames' /\ n.ino \in Ino
      BY <1>8 DEF NameType
    <3>2. dinode'[n.ino].type = "dir"
      BY <1>4, <3>1
    <3> QED
      BY <2>3, <3>1, <3>2
  <2>4. \A Q \in SUBSET dirs : (Root \in Q /\ \A n \in steps : n.dir \in Q => n.ino \in Q) => d \in Q
    BY DEF DirsBut
  <2> HIDE DEF dirs, steps
  <2> QED
    BY <2>2, <2>3, <2>4
<1>10. KeptShared'
  <2> SUFFICES ASSUME NEW k \in kept'
               PROVE  \E n \in SharedNames' :
                        /\ n.dir \in SharedDirs'
                        /\ dinode'[n.ino].type = "file" /\ Same(n.ino)'
                        /\ k = [path |-> [dir |-> n.dir, name |-> n.name],
                                text |-> Text(core, cur, n.ino)']
    BY DEF KeptShared
  <2>1. PICK n \in Names(core, cur) :
            /\ n.dir \in DirsBut(core, cur, stuck)
            /\ core[n.ino].type = "file" /\ {n.dir, n.ino} \cap stuck = {}
            /\ k = [path |-> [dir |-> n.dir, name |-> n.name], text |-> Text(core, cur, n.ino)]
    BY <1>1 DEF Files
  <2>2. n.dir \notin stuck /\ n.ino \notin stuck
    BY <2>1
  <2>3. n \in SharedNames' /\ n.ino \in Ino /\ n.dir \in SharedDirs'
    BY <1>8, <1>9, <2>1, <2>2 DEF NameType
  <2>4. dinode'[n.ino] = core[n.ino] /\ core'[n.ino] = core[n.ino]
    BY <1>2, <1>4, <2>2, <2>3
  <2>5. Same(n.ino)'
    BY <1>2 DEF Same
  <2>6. Text(core, cur, n.ino)' = Text(core, cur, n.ino)
    BY <1>2, <2>4 DEF Text, At
  <2> QED
    BY <2>1, <2>3, <2>4, <2>5, <2>6
<1> QED
  BY <1>6, <1>7, <1>10 DEF Always

\* A session that begins on a consistent volume.
LEMMA StartLive ==
    ASSUME Typed, Always, Start, ~ torn'
    PROVE  Always' /\ Live'
<1>1. /\ cmd = Off /\ cmd' = NoCmd /\ Consistent /\ kept' = kept
      /\ UNCHANGED <<core, dinode, cur, dur, top, saved, cwd, made, stuck, open, loose>>
  BY StartTyped DEF Start
<1>2. core = dinode /\ cur = dur /\ top = saved /\ cwd = Root /\ made = {} /\ stuck = {} /\ open = NoFile
  BY <1>1 DEF Typed, OffIsDisk
<1>3. /\ Exposed = {}
      /\ \A n \in Names(dinode, dur) : dinode[n.ino].type # "free"
      /\ \A m, n \in Names(dinode, dur) : m.ino = n.ino => m = n
  BY <1>1 DEF Consistent
<1>4. Named
  BY <1>2, <1>3 DEF Named
<1>5. ASSUME NEW i \in Ino, NEW b \in Block, b \in Blocks(dinode, i) PROVE ~ (b >= saved)
  BY <1>3, <1>5 DEF Exposed
<1>6. Below
  <2>1. ASSUME NEW i \in Ino, NEW b \in Blocks(core, i) \cup Blocks(dinode, i) PROVE b < top
    <3>1. b \in Blocks(dinode, i) /\ b \in Block /\ b \in Nat /\ saved \in Nat
      BY <1>2, Bounds, InodeFields
    <3> QED
      BY <1>2, <1>5, <3>1
  <2> QED
    BY <2>1 DEF Below
<1>7. Always' /\ Below' /\ Named'
  BY <1>1, <1>4, <1>6, QuietKept
<1>8. /\ ~ Step("ialloc")' /\ ~ Step("entry")' /\ ~ Step("putdir")' /\ ~ Step("dots")'
      /\ ~ Step("copy")' /\ ~ Step("saveinode")' /\ ~ Step("update")' /\ ~ Step("close")'
  BY <1>1 DEF Step, NoCmd
<1>9. CallOK'
  <2>1. core'[cwd'].type = "dir"
    BY <1>1, <1>2 DEF Always, Behind
  <2> QED
    BY <1>1, <1>2, <1>8, <2>1 DEF CallOK
<1>10. Rewritten'
  BY <1>8 DEF Rewritten
<1>11. Settled' /\ OnDisk'
  BY <1>1, <1>2, <1>8 DEF Settled, OnDisk
<1>12. Saved'
  BY <1>1, <1>2, <1>5, <1>8 DEF Saved
<1> QED
  BY <1>7, <1>9, <1>10, <1>11, <1>12 DEF Live

-----------------------------------------------------------------------------
(* The invariant, and what it says.                                        *)

LEMMA InitIInv ==
    ASSUME Init
    PROVE  IInv
<1>1. /\ core = Formatted /\ dinode = Formatted /\ cur = dur /\ kept = {} /\ cmd = Off
  BY DEF Init
<1>2. Typed
  BY InitTyped
<1>3. Root \in Ino /\ \A i \in Ino : i \in Nat
  BY Bounds, <1>2 DEF Ino
<1>4. \A i \in Ino :
        /\ i \in {1, 2} => Formatted[i] = [type |-> "dir", addr |-> <<i - 1>>, size |-> 3 - i]
        /\ i \notin {1, 2} => Formatted[i] = Free
  BY DEF Formatted
<1>5. ASSUME NEW i \in Ino
      PROVE  /\ Blocks(Formatted, i) = IF i \in {1, 2} THEN {i - 1} ELSE {}
             /\ \A k, l \in DOMAIN Formatted[i].addr : k = l
  <2>1. CASE i \in {1, 2}
    <3>1. Formatted[i].addr = <<i - 1>>
      <4>1. Formatted[i] = [type |-> "dir", addr |-> <<i - 1>>, size |-> 3 - i]
        BY <1>4, <2>1
      <4> QED
        BY <4>1
    <3>2. DOMAIN Formatted[i].addr = {1} /\ Formatted[i].addr[1] = i - 1
      BY <3>1
    <3>3. Blocks(Formatted, i) = {i - 1}
      BY <3>2 DEF Blocks
    <3>4. \A k, l \in DOMAIN Formatted[i].addr : k = l
      BY <3>2
    <3> QED
      BY <2>1, <3>3, <3>4
  <2>2. CASE i \notin {1, 2}
    <3>1. Formatted[i].addr = << >>
      <4>1. Formatted[i] = Free
        BY <1>4, <2>2
      <4> QED
        BY <4>1 DEF Free
    <3>2. DOMAIN Formatted[i].addr = {}
      BY <3>1
    <3>3. Blocks(Formatted, i) = {}
      BY <3>2 DEF Blocks
    <3> QED
      BY <2>2, <3>2, <3>3
  <2> QED
    BY <2>1, <2>2
<1>6. Apart
  <2>1. ASSUME NEW i \in Ino, NEW j \in Ino, i # j PROVE Blocks(Formatted, i) \cap Blocks(Formatted, j) = {}
    BY <1>3, <1>5, <2>1
  <2> QED
    BY <1>1, <1>5, <2>1 DEF Apart
<1>7. Behind
  <2>1. \A i \in Ino : dinode[i].size \in Nat
    BY <1>2, Bounds, InodeFields
  <2>2. dinode[Root].type = "dir"
    <3>1. Root \in {1, 2}
      BY DEF Root
    <3>2. Formatted[Root] = [type |-> "dir", addr |-> <<Root - 1>>, size |-> 3 - Root]
      BY <1>3, <1>4, <3>1
    <3> QED
      BY <1>1, <3>2
  <2> QED
    BY <1>1, <2>1, <2>2 DEF Behind
<1>8. KeptShared
  BY <1>1 DEF KeptShared
<1> QED
  BY <1>1, <1>2, <1>6, <1>7, <1>8 DEF IInv, Always

\* Only a start changes torn, and between sessions only a start does anything.
LEMMA OfSession ==
    ASSUME Next
    PROVE  /\ Start \/ torn' = torn
           /\ Start \/ cmd # Off
<1>1. ASSUME NEW p \in Paths, StepOfPath(p) PROVE torn' = torn /\ Ready
  <2>1. ASSUME NEW op \in {"creat", "mkdir", "load"}, BeginNew(op, p) \/ BeginOver(op, p)
        PROVE  torn' = torn /\ Ready
    BY <2>1 DEF BeginNew, BeginOver, histVars
  <2>2. CASE BeginTaken(p) \/ BeginAstray(p)
    BY <2>2 DEF BeginTaken, BeginAstray, histVars
  <2>3. CASE Open(p) \/ Cd(p.dir)
    BY <2>3 DEF Open, Cd, histVars
  <2> QED
    BY <1>1, <2>1, <2>2, <2>3 DEF StepOfPath
<1>2. Ready => cmd # Off
  BY DEF Ready, NoCmd, Off
<1>3. \A step : Step(step) => cmd # Off
  BY DEF Step, Off
<1>4. CASE IAlloc \/ WriteDir \/ PutDir \/ WriteDots
  BY <1>3, <1>4 DEF IAlloc, WriteDir, PutDir, WriteDots, histVars
<1>5. CASE Copy \/ LoadClose \/ Write \/ Close
  BY <1>2, <1>3, <1>5 DEF Copy, LoadClose, Write, Close, histVars
<1>6. CASE SaveData \/ SaveInode \/ Exit \/ Bflush \/ UpdateInodeTable \/ CloseAll
  BY <1>2, <1>3, <1>6 DEF SaveData, SaveInode, Exit, Bflush, UpdateInodeTable, CloseAll, histVars
<1>7. CASE (\E b \in Block : Evict(b)) \/ Crash
  BY <1>7 DEF Evict, Crash, histVars
<1> QED
  BY <1>1, <1>2, <1>4, <1>5, <1>6, <1>7 DEF Next, StepOfPath

LEMMA SessionStep ==
    ASSUME Typed, Always, Live, Next, ~ Start
    PROVE  Always' /\ (cmd' # Off => Live')
<1>1. ASSUME NEW p \in Paths, StepOfPath(p) PROVE Always' /\ Live'
  <2>1. ASSUME NEW op \in {"creat", "mkdir", "load"}, BeginNew(op, p) PROVE Always' /\ Live'
    BY <2>1, BeginNewLive DEF Making
  <2>2. ASSUME NEW op \in {"creat", "mkdir", "load"}, BeginOver(op, p) PROVE Always' /\ Live'
    BY <2>2, BeginOverLive DEF Making
  <2>3. CASE BeginTaken(p) \/ BeginAstray(p)
    BY <2>3, BeginTakenLive, BeginAstrayLive
  <2>4. CASE Open(p) \/ Cd(p.dir)
    BY <2>4, OpenLive, CdLive
  <2> QED
    BY <1>1, <2>1, <2>2, <2>3, <2>4 DEF StepOfPath
<1>2. CASE IAlloc \/ WriteDir \/ PutDir \/ WriteDots
  BY <1>2, IAllocLive, WriteDirLive, PutDirLive, WriteDotsLive
<1>3. CASE Copy \/ LoadClose \/ Write \/ Close
  BY <1>3, CopyLive, LoadCloseLive, WriteLive, CloseLive
<1>4. CASE SaveData \/ SaveInode \/ Exit \/ Bflush \/ UpdateInodeTable
  BY <1>4, SaveDataLive, SaveInodeLive, ExitLive, BflushLive, UpdateLive
<1>5. CASE CloseAll \/ Crash
  <2>1. cmd' = Off
    BY <1>5 DEF CloseAll, Crash, Gone
  <2> QED
    BY <1>5, <2>1, CloseAllKept, CrashKept
<1>6. ASSUME NEW b \in Block, Evict(b) PROVE Always' /\ Live'
  BY <1>6, EvictLive
<1> QED
  BY <1>1, <1>2, <1>3, <1>4, <1>5, <1>6 DEF Next, StepOfPath

LEMMA StepIInv ==
    ASSUME IInv, [Next]_vars
    PROVE  IInv'
<1>1. Typed /\ Typed'
  BY TypedStep DEF IInv
<1>2. CASE UNCHANGED vars
  <2>1. /\ UNCHANGED <<core, dinode, cur, dur, top, itop, saved, isaved, cwd, made, stuck, open>>
        /\ UNCHANGED <<cmd, kept, torn, loose>>
    BY <1>2 DEF vars
  <2>2. Always => Always' /\ (Below => Below') /\ (Named => Named')
    BY <1>1, <2>1, QuietKept
  <2>3. /\ CallOK => CallOK'
        /\ Rewritten => Rewritten'
    BY <2>1 DEF CallOK, Rewritten, Step
  <2>4. /\ Settled => Settled'
        /\ OnDisk => OnDisk'
        /\ Saved => Saved'
    BY <2>1 DEF Settled, OnDisk, Saved, Unsaved, New, Dirty, Pinned, Step
  <2> QED
    BY <1>1, <2>1, <2>2, <2>3, <2>4 DEF IInv, Live
<1>3. CASE Start
  <2>1. ~ torn' => ~ torn
    BY <1>3 DEF Start
  <2> QED
    BY <1>1, <1>3, <2>1, StartLive DEF IInv
<1>4. CASE Next /\ ~ Start
  <2>1. torn' = torn /\ cmd # Off
    BY <1>4, OfSession
  <2> QED
    BY <1>1, <1>4, <2>1, SessionStep DEF IInv
<1> QED
  BY <1>2, <1>3, <1>4

\* In every reachable state of sessions that all began on a consistent volume: no block
\* is in two inodes, in core or on the disk; the disk has of every directory a first
\* part; what was there at the last exit is still the same on the disk and for the
\* calls; and the disk lacks nothing but what the command in progress, the descriptor,
\* the directories made and the inodes left locked account for.
THEOREM SessionsInvariant == Spec => []IInv
<1>1. Init => IInv
  BY InitIInv
<1>2. IInv /\ [Next]_vars => IInv'
  BY StepIInv
<1> QED
  BY <1>1, <1>2, PTL DEF Spec

\* A file of the last exit that no command has written since is on its path with what it
\* had, after any number of sessions that end anywhere and of evictions in any order
\* (~SecondFS, SecondFS.cpp:52; Bdwrite and the flush, BufferManager.cpp:105).
THEOREM FilesSurvive == Spec => []KeptSurvives
<1>1. IInv => KeptSurvives
  <2> SUFFICES ASSUME IInv, ~ torn, NEW k \in kept PROVE k \in Files(core, cur, {})
    BY DEF KeptSurvives
  <2>1. Typed /\ Behind /\ KeptShared
    BY DEF IInv, Always
  <2>2. PICK n \in SharedNames :
            /\ n.dir \in SharedDirs /\ n.ino \in Ino
            /\ dinode[n.ino].type = "file" /\ Same(n.ino)
            /\ k = [path |-> [dir |-> n.dir, name |-> n.name], text |-> Text(core, cur, n.ino)]
    BY <2>1, KeptParts
  <2>3. \A m \in SharedNames : m \in Names(core, cur) /\ m.ino \in Ino /\ m.dir \in Ino
    BY <2>1, SharedAreNames DEF NameType
  <2>4. core[n.ino].type = "file"
    BY <2>2 DEF Same
  <2>5. n.dir \in DirsBut(core, cur, {})
    <3> DEFINE dirs  == {i \in Ino : core[i].type = "dir"}
               steps == {m \in Names(core, cur) : m.ino \in dirs /\ {m.dir, m.ino} \cap {} = {}}
    <3>1. {i \in Ino : dinode[i].type = "dir"} \subseteq dirs
      BY <2>1 DEF Behind
    <3>2. ASSUME NEW R \in SUBSET dirs, Root \in R, \A m \in steps : m.dir \in R => m.ino \in R
          PROVE  n.dir \in R
      <4> DEFINE Q == R \cap {i \in Ino : dinode[i].type = "dir"}
      <4>1. Q \in SUBSET {i \in Ino : dinode[i].type = "dir"} /\ Root \in Q
        BY <2>1, <3>2, Bounds DEF Behind
      <4>2. ASSUME NEW m \in SharedNames, dinode[m.ino].type = "dir", m.dir \in Q PROVE m.ino \in Q
        <5>1. m \in steps
          BY <2>3, <3>1, <4>2
        <5> QED
          BY <2>3, <3>2, <4>2, <5>1
      <4> HIDE DEF Q
      <4>3. n.dir \in Q
        BY <2>2, <4>1, <4>2 DEF SharedDirs
      <4> QED
        BY <4>3 DEF Q
    <3>3. n.dir \in dirs
      BY <2>2, <2>3, <3>1 DEF SharedNames
    <3> QED
      BY <3>2, <3>3 DEF DirsBut
  <2>6. n \in Names(core, cur)
    BY <2>3
  <2> QED
    BY <2>2, <2>4, <2>5, <2>6 DEF Files
<1> QED
  BY <1>1, SessionsInvariant, PTL

\* The disk has no block of which its bitmap does not know, but for those of the command
\* in progress and of directories that creat made longer (SecondFS.cpp:205).
THEOREM ExposedKnownAlways == Spec => []ExposedKnown
<1>1. IInv => ExposedKnown
  <2> SUFFICES ASSUME IInv, ~ torn, cmd # Off PROVE Exposed \subseteq loose \cup Unsaved
    BY DEF ExposedKnown, Unsaved
  <2>1. Typed /\ Saved
    BY DEF IInv, Live
  <2>2. ASSUME NEW i \in Ino, NEW b \in Blocks(dinode, i), b >= saved PROVE b \in loose \cup Unsaved
    <3>1. b \in Block
      BY <2>1, Bounds, InodeFields
    <3> QED
      BY <2>1, <2>2, <3>1 DEF Saved
  <2> QED
    BY <2>2 DEF Exposed
<1> QED
  BY <1>1, SessionsInvariant, PTL

\* An entry that a call has made leads to an inode on the disk, but for a file open since
\* its creat, a directory made in the session, an inode left locked, and the command in
\* progress: at whatever moment the process ends (FileManager.cpp:691).
THEOREM EntriesLead == Spec => []EntryLeads
<1>1. IInv => EntryLeads
  <2> SUFFICES ASSUME IInv, ~ torn, cmd # Off, NEW n \in Names(core, cur), dinode[n.ino].type = "free"
               PROVE  n.ino \in made \cup stuck \cup {open.ino, cmd.ino}
    BY DEF EntryLeads
  <2>1. Typed /\ Named /\ OnDisk
    BY DEF IInv, Live
  <2>2. n.ino \in Ino /\ core[n.ino].type # "free"
    BY <2>1, Bounds, NamesAre DEF Named, NameType
  <2>3. n.ino \in made \cup stuck \cup {open.ino} \cup New
    BY <2>1, <2>2 DEF OnDisk
  <2> QED
    BY <2>3 DEF New
<1> QED
  BY <1>1, SessionsInvariant, PTL

=============================================================================
