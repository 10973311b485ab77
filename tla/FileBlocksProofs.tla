-------------------------- MODULE FileBlocksProofs --------------------------
(***************************************************************************)
(* FileBlocks, for every shape of the inode, number of files and length of *)
(* transfers: the blocks of files are apart, and files hold what was       *)
(* written.                                                                *)
(***************************************************************************)
EXTENDS FileBlocks, Arithmetic, SequenceTheorems

-----------------------------------------------------------------------------
(* Places.  A place where a file names a block is an entry of i_addr and   *)
(* an index in each table on the way; PER stands for no index.             *)

Optional == 0 .. PER
Place == Inode \X Addr \X Optional \X Optional
Owner == Place \cup {<< >>}

MapType ==
    [addr: [Inode -> [Addr -> 0 .. NBLK]], store: [Block -> [Index -> Word]], top: 0 .. NBLK]

\* The number that map m has at a place, 0 where a table on the way is missing.
Val(m, f, i, j, k) ==
    LET first  == m.addr[f][i]
        second == IF first = 0 \/ i < DIRECT THEN 0 ELSE m.store[first][j]
        third  == IF second = 0 \/ i < DIRECT + SINGLE THEN 0 ELSE m.store[second][k]
    IN  IF j = PER THEN IF k = PER THEN first ELSE 0
        ELSE IF k = PER THEN second ELSE third

\* The places of blocks of data; the others are those of tables.
IsData(i, j, k) ==
    \/ i < DIRECT /\ j = PER /\ k = PER
    \/ i >= DIRECT /\ i < DIRECT + SINGLE /\ j # PER /\ k = PER
    \/ i >= DIRECT + SINGLE /\ j # PER /\ k # PER

\* Each block allocated and not gone is at one place, which own knows.
Owned(m, own, gone) ==
    /\ own \in [Block -> Owner]
    /\ gone \subseteq 1 .. m.top
    /\ \A f \in Inode, i \in Addr, j, k \in Optional :
        \/ Val(m, f, i, j, k) = 0
        \/ /\ Val(m, f, i, j, k) \in 1 .. m.top \ gone
           /\ own[Val(m, f, i, j, k)] = <<f, i, j, k>>
    /\ \A b \in 1 .. m.top \ gone :
        \E f \in Inode, i \in Addr, j, k \in Optional : Val(m, f, i, j, k) = b

\* What a block of data holds, if it is allocated or not.
Content(m, f, i, j, k) ==
    IF Val(m, f, i, j, k) = 0 THEN Zeros ELSE m.store[Val(m, f, i, j, k)]

SameContent(m, n) ==
    \A f \in Inode, i \in Addr, j, k \in Optional :
        IsData(i, j, k) => Content(n, f, i, j, k) = Content(m, f, i, j, k)

\* Map n is m with one block more, at this place.
Adds(m, n, f, i, j, k) ==
    /\ n \in MapType /\ n.top = m.top + 1
    /\ Val(m, f, i, j, k) = 0 /\ Val(n, f, i, j, k) = n.top
    /\ \A g \in Inode, x \in Addr, y, z \in Optional :
        <<g, x, y, z>> # <<f, i, j, k>> => Val(n, g, x, y, z) = Val(m, g, x, y, z)
    /\ \A g \in Inode, x \in Addr, y, z \in Optional :
        IsData(x, y, z) /\ Val(m, g, x, y, z) # 0 =>
            n.store[Val(m, g, x, y, z)] = m.store[Val(m, g, x, y, z)]
    /\ n.store[n.top] = Zeros

LEMMA Shape ==
    /\ DIRECT \in Nat /\ DIRECT > 0 /\ SINGLE \in Nat /\ DOUBLE \in Nat
    /\ PER \in Nat \ {0} /\ PER \in Nat /\ PER > 0 /\ NBLK \in Nat
    /\ 0 \notin Data /\ Junk \notin Nat /\ Junk \notin Data /\ Data \cap Nat = {}
    /\ Zeros \in [Index -> Word]
    /\ PER \notin Index /\ PER \in Optional /\ Index \subseteq Optional
BY ShapeAssumption DEF Zeros, Index, Word, Optional

LEMMA AddsKeeps ==
    ASSUME NEW m \in MapType, NEW own, NEW gone, Owned(m, own, gone),
           NEW f \in Inode, NEW i \in Addr, NEW j \in Optional, NEW k \in Optional,
           NEW n, Adds(m, n, f, i, j, k)
    PROVE  /\ \E o : Owned(n, o, gone)
           /\ SameContent(m, n)
<1> DEFINE o == [own EXCEPT ![n.top] = <<f, i, j, k>>]
<1>0. n.top \in Block /\ n.top = m.top + 1 /\ m.top \in Nat /\ n.top \notin gone
  BY Shape DEF Adds, MapType, Block, Owned
<1>1. Owned(n, o, gone)
  <2>1. o \in [Block -> Owner] /\ gone \subseteq 1 .. n.top
    BY <1>0 DEF Owned, Place, Owner
  <2>2. ASSUME NEW g \in Inode, NEW x \in Addr, NEW y \in Optional, NEW z \in Optional,
               Val(n, g, x, y, z) # 0
        PROVE  /\ Val(n, g, x, y, z) \in 1 .. n.top \ gone
               /\ o[Val(n, g, x, y, z)] = <<g, x, y, z>>
    <3>1. CASE <<g, x, y, z>> = <<f, i, j, k>>
      BY <3>1, <1>0 DEF Adds, Owned
    <3>2. CASE <<g, x, y, z>> # <<f, i, j, k>>
      <4>1. Val(n, g, x, y, z) = Val(m, g, x, y, z)
        BY <3>2 DEF Adds
      <4>2. /\ Val(m, g, x, y, z) \in 1 .. m.top \ gone
            /\ own[Val(m, g, x, y, z)] = <<g, x, y, z>>
        BY <4>1, <2>2 DEF Owned
      <4> QED
        BY <4>1, <4>2, <1>0 DEF Owned, Block
    <3> QED
      BY <3>1, <3>2
  <2>3. ASSUME NEW b \in 1 .. n.top \ gone
        PROVE  \E g \in Inode, x \in Addr, y, z \in Optional : Val(n, g, x, y, z) = b
    <3>1. CASE b = n.top
      BY <3>1 DEF Adds
    <3>2. CASE b # n.top
      <4>1. b \in 1 .. m.top \ gone
        BY <3>2, <1>0
      <4>2. PICK g \in Inode, x \in Addr, y \in Optional, z \in Optional : Val(m, g, x, y, z) = b
        BY <4>1 DEF Owned
      <4>3. <<g, x, y, z>> # <<f, i, j, k>>
        BY <4>1, <4>2 DEF Adds
      <4> QED
        BY <4>2, <4>3 DEF Adds
    <3> QED
      BY <3>1, <3>2
  <2> HIDE DEF o
  <2> QED
    BY <2>1, <2>2, <2>3 DEF Owned
<1>2. SameContent(m, n)
  <2> SUFFICES ASSUME NEW g \in Inode, NEW x \in Addr, NEW y \in Optional, NEW z \in Optional,
                      IsData(x, y, z)
               PROVE  Content(n, g, x, y, z) = Content(m, g, x, y, z)
    BY DEF SameContent
  <2>1. CASE <<g, x, y, z>> = <<f, i, j, k>>
    BY <2>1, <1>0 DEF Adds, Content
  <2>2. CASE <<g, x, y, z>> # <<f, i, j, k>>
    BY <2>2 DEF Adds, Content
  <2> QED
    BY <2>1, <2>2
<1> QED
  BY <1>1, <1>2

\* Blocks of a map: none is above the last one allocated, and none is at two places.
LEMMA ValApart ==
    ASSUME NEW m \in MapType, NEW own, NEW gone, Owned(m, own, gone),
           NEW f \in Inode, NEW i \in Addr, NEW j \in Optional, NEW k \in Optional,
           NEW g \in Inode, NEW x \in Addr, NEW y \in Optional, NEW z \in Optional
    PROVE  /\ Val(m, f, i, j, k) \in 0 .. m.top /\ 0 .. m.top \subseteq 0 .. NBLK
           /\ Val(m, f, i, j, k) \in Block \cup {0}
           /\ Val(m, f, i, j, k) # 0 => Val(m, f, i, j, k) \notin gone
           /\ (Val(m, f, i, j, k) # 0 /\ Val(m, f, i, j, k) = Val(m, g, x, y, z)) =>
                  f = g /\ i = x /\ j = y /\ k = z
<1>1. m.top \in 0 .. NBLK
  BY DEF MapType
<1>2. Val(m, f, i, j, k) # 0 =>
          Val(m, f, i, j, k) \in 1 .. m.top \ gone /\ own[Val(m, f, i, j, k)] = <<f, i, j, k>>
  BY DEF Owned
<1>3. Val(m, g, x, y, z) # 0 => own[Val(m, g, x, y, z)] = <<g, x, y, z>>
  BY DEF Owned
<1> QED
  BY <1>1, <1>2, <1>3, Shape DEF Block

\* Alloc puts a cleared block into an entry of i_addr.
LEMMA AddrAdds ==
    ASSUME NEW m \in MapType, NEW own, NEW gone, Owned(m, own, gone), m.top < NBLK,
           NEW f \in Inode, NEW i \in Addr, m.addr[f][i] = 0
    PROVE  Adds(m, ByAddr(m, f, i), f, i, PER, PER)
<1> DEFINE b == m.top + 1
           n == ByAddr(m, f, i)
<1>1. b \in Block /\ m.top \in Nat
  BY Shape DEF MapType, Block
<1>2. /\ n = [addr |-> [m.addr EXCEPT ![f] = [m.addr[f] EXCEPT ![i] = b]],
              store |-> [m.store EXCEPT ![b] = Zeros], top |-> b]
      /\ n.addr = [m.addr EXCEPT ![f] = [m.addr[f] EXCEPT ![i] = b]]
      /\ n.store = [m.store EXCEPT ![b] = Zeros] /\ n.top = b
  BY DEF ByAddr, Alloc, MapType
<1>3. n \in MapType
  BY <1>1, <1>2, Shape DEF MapType, Block
<1>4. /\ n.addr[f][i] = b /\ n.store[b] = Zeros
      /\ \A c \in 0 .. m.top : c # 0 => n.store[c] = m.store[c]
      /\ \A g \in Inode, x \in Addr : <<g, x>> # <<f, i>> => n.addr[g][x] = m.addr[g][x]
  BY <1>1, <1>2, Shape DEF MapType, Block
<1>5. \A k \in Index : Zeros[k] = 0
  BY DEF Zeros
<1> HIDE DEF n
<1>6. ASSUME NEW g \in Inode, NEW x \in Addr, NEW y \in Optional, NEW z \in Optional
      PROVE  /\ Val(m, g, x, PER, PER) \in 0 .. m.top
             /\ Val(m, g, x, y, PER) \in 0 .. m.top
             /\ Val(m, g, x, y, z) \in 0 .. m.top
  BY Shape, ValApart
<1>7. ASSUME NEW g \in Inode, NEW x \in Addr, NEW y \in Optional, NEW z \in Optional,
             <<g, x, y, z>> # <<f, i, PER, PER>>
      PROVE  Val(n, g, x, y, z) = Val(m, g, x, y, z)
  <2>1. CASE <<g, x>> = <<f, i>>
    BY <2>1, <1>1, <1>4, <1>5, <1>7, Shape DEF Val, Optional, Index
  <2>2. CASE <<g, x>> # <<f, i>>
    <3>1. n.addr[g][x] = m.addr[g][x]
      BY <2>2, <1>4
    <3>2. m.addr[g][x] # 0 => n.store[m.addr[g][x]] = m.store[m.addr[g][x]]
      <4>1. Val(m, g, x, PER, PER) = m.addr[g][x]
        BY DEF Val
      <4> QED
        BY <4>1, <1>4, <1>6
    <3>3. Val(n, g, x, y, PER) = Val(m, g, x, y, PER)
      BY <3>1, <3>2 DEF Val
    <3> DEFINE c == Val(m, g, x, y, PER)
    <3>4. c # 0 => n.store[c] = m.store[c]
      BY <1>4, <1>6
    <3> QED
      BY <3>1, <3>2, <3>3, <3>4 DEF Val
  <2> QED
    BY <2>1, <2>2
<1>8. Val(m, f, i, PER, PER) = 0 /\ Val(n, f, i, PER, PER) = b
  BY <1>4 DEF Val
<1>9. ASSUME NEW g \in Inode, NEW x \in Addr, NEW y \in Optional, NEW z \in Optional,
             Val(m, g, x, y, z) # 0
      PROVE  n.store[Val(m, g, x, y, z)] = m.store[Val(m, g, x, y, z)]
  BY <1>4, <1>6, <1>9
<1> QED
  BY <1>2, <1>3, <1>4, <1>7, <1>8, <1>9 DEF Adds, n

\* Alloc puts a cleared block into a table that i_addr names,
LEMMA TableAdds ==
    ASSUME NEW m \in MapType, NEW own, NEW gone, Owned(m, own, gone), m.top < NBLK,
           NEW f \in Inode, NEW i \in Addr, i >= DIRECT, NEW k \in Index,
           m.addr[f][i] # 0, m.store[m.addr[f][i]][k] = 0
    PROVE  Adds(m, ByTable(m, m.addr[f][i], k), f, i, k, PER)
<1> DEFINE b == m.top + 1
           t == m.addr[f][i]
           n == ByTable(m, t, k)
<1>1. /\ b \in Block /\ m.top \in Nat /\ t = Val(m, f, i, PER, PER) /\ t \in Block /\ t # b
      /\ t \in 1 .. m.top
  <2>1. t = Val(m, f, i, PER, PER)
    BY DEF Val
  <2> QED
    <3>1. t \in 0 .. m.top /\ t # 0
      BY <2>1, Shape, ValApart
    <3> QED
      BY <2>1, <3>1, Shape DEF MapType, Block
<1>2. /\ n = [addr |-> m.addr,
              store |-> [[m.store EXCEPT ![b] = Zeros] EXCEPT ![t] =
                            [[m.store EXCEPT ![b] = Zeros][t] EXCEPT ![k] = b]], top |-> b]
      /\ n.addr = m.addr /\ n.top = b
      /\ n.store = [[m.store EXCEPT ![b] = Zeros] EXCEPT ![t] = [m.store[t] EXCEPT ![k] = b]]
  BY <1>1 DEF ByTable, Alloc, MapType
<1>3. n \in MapType
  <2>1. [m.store EXCEPT ![b] = Zeros] \in [Block -> [Index -> Word]]
    BY <1>1, Shape DEF MapType
  <2>2. [m.store[t] EXCEPT ![k] = b] \in [Index -> Word]
    BY <1>1 DEF MapType, Word
  <2>3. n.store \in [Block -> [Index -> Word]]
    BY <2>1, <2>2, <1>2
  <2> HIDE DEF n
  <2>4. b \in 0 .. NBLK /\ n = [addr |-> m.addr, store |-> n.store, top |-> b]
    BY <1>1, <1>2 DEF Block
  <2> QED
    BY <2>3, <2>4 DEF MapType
<1>4. /\ n.store[b] = Zeros
      /\ n.store[t][k] = b
      /\ \A z \in Index : z # k => n.store[t][z] = m.store[t][z]
      /\ \A c \in 0 .. m.top : c # 0 /\ c # t => n.store[c] = m.store[c]
  BY <1>1, <1>2, Shape DEF MapType, Block
<1>5. \A z \in Index : Zeros[z] = 0
  BY DEF Zeros
<1> HIDE DEF n
<1>6. ASSUME NEW g \in Inode, NEW x \in Addr, NEW y \in Optional, NEW z \in Optional,
             <<g, x, y, z>> # <<f, i, k, PER>>
      PROVE  Val(n, g, x, y, z) = Val(m, g, x, y, z)
  <2> DEFINE first == m.addr[g][x]
             second == Val(m, g, x, y, PER)
  <2>1. first = Val(m, g, x, PER, PER) /\ n.addr[g][x] = first
    BY <1>2 DEF Val
  <2>2. /\ first \in 0 .. m.top /\ second \in 0 .. m.top
        /\ (first = t => g = f /\ x = i)
        /\ y # PER => second # t
    <3>1. /\ first \in 0 .. m.top /\ second \in 0 .. m.top
          /\ (first = t => g = f /\ x = i)
      BY <1>1, <2>1, Shape, ValApart
    <3>2. second = t => y = PER
      <4>1. PER \in Optional /\ Val(m, f, i, PER, PER) # 0
        BY <1>1, Shape
      <4> QED
        BY <1>1, <4>1, ValApart
    <3> QED
      BY <3>1, <3>2
  <2>3. CASE g = f /\ x = i /\ y = k
    <3>1. m.addr[f][i] = t /\ n.addr[f][i] = t /\ t # 0 /\ k # PER /\ k \in Optional
      BY <1>1, <1>2, Shape
    <3>2. second = 0
      BY <3>1, <2>3 DEF Val
    <3>3. Val(n, g, x, y, PER) = b
      BY <3>1, <2>3, <1>4, Shape DEF Val, Addr
    <3>4. z # PER /\ z \in Index
      BY <1>6, <2>3, Shape DEF Optional, Index
    <3> QED
      BY <3>1, <3>2, <3>3, <3>4, <2>3, <1>1, <1>4, <1>5, Shape DEF Val
  <2>4. CASE ~ (g = f /\ x = i /\ y = k)
    <3>1. y # PER => y \in Index
      BY Shape DEF Optional, Index
    <3>2. first # 0 /\ y # PER => n.store[first][y] = m.store[first][y]
      BY <2>2, <2>4, <3>1, <1>4
    <3>3. Val(n, g, x, y, PER) = second
      BY <2>1, <3>2 DEF Val
    <3>4. second # 0 /\ y # PER => n.store[second] = m.store[second]
      BY <2>2, <1>4
    <3> QED
      BY <2>1, <3>2, <3>3, <3>4 DEF Val
  <2> QED
    BY <2>3, <2>4
<1>7. Val(m, f, i, k, PER) = 0 /\ Val(n, f, i, k, PER) = b
  <2>1. n.addr[f][i] = m.addr[f][i] /\ n.store[m.addr[f][i]][k] = b /\ k # PER
    BY <1>2, <1>4, Shape
  <2>2. m.addr[f][i] # 0 /\ ~ i < DIRECT /\ m.store[m.addr[f][i]][k] = 0
    BY Shape DEF Addr
  <2> QED
    BY <2>1, <2>2 DEF Val
<1>8. ASSUME NEW g \in Inode, NEW x \in Addr, NEW y \in Optional, NEW z \in Optional,
             IsData(x, y, z), Val(m, g, x, y, z) # 0
      PROVE  n.store[Val(m, g, x, y, z)] = m.store[Val(m, g, x, y, z)]
  <2>1. ~ (x = i /\ y = PER /\ z = PER)
    BY <1>8, Shape DEF IsData, Addr
  <2>2. Val(m, g, x, y, z) # t
    BY <1>1, <2>1, Shape, ValApart
  <2> QED
    BY <2>2, <1>4, <1>8, ValApart
<1>9. n.top = m.top + 1 /\ n.store[n.top] = Zeros
  BY <1>2, <1>4
<1>10. Adds(m, n, f, i, k, PER)
  <2> HIDE DEF t, b
  <2>1. Val(n, f, i, k, PER) = n.top
    BY <1>2, <1>7
  <2> QED
    BY <1>3, <1>6, <1>7, <1>8, <1>9, <2>1 DEF Adds
<1> QED
  BY <1>10 DEF n

\* or into one that such a table names.
LEMMA SecondAdds ==
    ASSUME NEW m \in MapType, NEW own, NEW gone, Owned(m, own, gone), m.top < NBLK,
           NEW f \in Inode, NEW i \in Addr, i >= DIRECT + SINGLE,
           NEW j \in Index, NEW k \in Index, NEW t,
           t = Val(m, f, i, j, PER), t # 0, m.store[t][k] = 0
    PROVE  Adds(m, ByTable(m, t, k), f, i, j, k)
<1> DEFINE b == m.top + 1
           n == ByTable(m, t, k)
<1>0. i \in Nat /\ ~ i < DIRECT /\ ~ i < DIRECT + SINGLE /\ j # PER /\ k # PER
      /\ j \in Optional /\ k \in Optional /\ PER \in Optional
  BY Shape DEF Addr, Index, Optional
<1>1. /\ b \in Block /\ m.top \in Nat /\ t \in Block /\ t # b
      /\ t \in 1 .. m.top
  <2>1. t \in 0 .. m.top /\ t # 0
    BY <1>0, ValApart
  <2> QED
    BY <2>1, Shape DEF MapType, Block
<1>2. /\ n = [addr |-> m.addr,
              store |-> [[m.store EXCEPT ![b] = Zeros] EXCEPT ![t] =
                            [[m.store EXCEPT ![b] = Zeros][t] EXCEPT ![k] = b]], top |-> b]
      /\ n.addr = m.addr /\ n.top = b
      /\ n.store = [[m.store EXCEPT ![b] = Zeros] EXCEPT ![t] = [m.store[t] EXCEPT ![k] = b]]
  BY <1>1 DEF ByTable, Alloc, MapType
<1>3. n \in MapType
  <2>1. [m.store EXCEPT ![b] = Zeros] \in [Block -> [Index -> Word]]
    BY <1>1, Shape DEF MapType
  <2>2. [m.store[t] EXCEPT ![k] = b] \in [Index -> Word]
    BY <1>1 DEF MapType, Word
  <2>3. n.store \in [Block -> [Index -> Word]]
    BY <2>1, <2>2, <1>2
  <2> HIDE DEF n
  <2>4. b \in 0 .. NBLK /\ n = [addr |-> m.addr, store |-> n.store, top |-> b]
    BY <1>1, <1>2 DEF Block
  <2> QED
    BY <2>3, <2>4 DEF MapType
<1>4. /\ n.store[b] = Zeros
      /\ n.store[t][k] = b
      /\ \A z \in Index : z # k => n.store[t][z] = m.store[t][z]
      /\ \A c \in 0 .. m.top : c # 0 /\ c # t => n.store[c] = m.store[c]
  BY <1>1, <1>2, Shape DEF MapType, Block
<1> HIDE DEF n
<1>5. ASSUME NEW g \in Inode, NEW x \in Addr, NEW y \in Optional, NEW z \in Optional
      PROVE  Val(m, g, x, y, z) = t => g = f /\ x = i /\ y = j /\ z = PER
  BY <1>0, ValApart
<1>6. ASSUME NEW g \in Inode, NEW x \in Addr, NEW y \in Optional, NEW z \in Optional,
             <<g, x, y, z>> # <<f, i, j, k>>
      PROVE  Val(n, g, x, y, z) = Val(m, g, x, y, z)
  <2> DEFINE first == m.addr[g][x]
             second == Val(m, g, x, y, PER)
  <2>1. first = Val(m, g, x, PER, PER) /\ n.addr[g][x] = first
    BY <1>2 DEF Val
  <2>2. first \in 0 .. m.top /\ second \in 0 .. m.top /\ first # t
        /\ (second = t => g = f /\ x = i /\ y = j)
    BY <1>0, <1>5, <2>1, ValApart
  <2>3. first # 0 => n.store[first] = m.store[first]
    BY <2>2, <1>4
  <2>4. Val(n, g, x, y, PER) = second
    BY <2>1, <2>3 DEF Val
  <2>5. second # 0 /\ z # PER => n.store[second][z] = m.store[second][z]
    <3>1. CASE second = t
      <4>1. z # k
        BY <3>1, <2>2, <1>6
      <4>2. z # PER => z \in Index
        BY Shape DEF Optional, Index
      <4> QED
        BY <3>1, <4>1, <4>2, <1>4
    <3>2. CASE second # t
      BY <3>2, <2>2, <1>4
    <3> QED
      BY <3>1, <3>2
  <2> QED
    BY <2>1, <2>3, <2>4, <2>5 DEF Val
<1>7. Val(m, f, i, j, k) = 0 /\ Val(n, f, i, j, k) = b
  <2> DEFINE first == m.addr[f][i]
  <2>1. first = Val(m, f, i, PER, PER) /\ n.addr[f][i] = first
    BY <1>2 DEF Val
  <2>2. first # 0 /\ t = m.store[first][j]
    BY <1>0 DEF Val
  <2>3. first # t /\ first \in 0 .. m.top
    BY <2>1, <1>0, <1>5, ValApart
  <2>4. n.store[first] = m.store[first]
    BY <2>2, <2>3, <1>4
  <2> QED
    BY <2>1, <2>2, <2>4, <1>0, <1>1, <1>4 DEF Val
<1>8. ASSUME NEW g \in Inode, NEW x \in Addr, NEW y \in Optional, NEW z \in Optional,
             IsData(x, y, z), Val(m, g, x, y, z) # 0
      PROVE  n.store[Val(m, g, x, y, z)] = m.store[Val(m, g, x, y, z)]
  <2>1. ~ (x = i /\ y = j /\ z = PER)
    BY <1>0, <1>8, Shape DEF IsData, Addr
  <2>2. Val(m, g, x, y, z) # t
    BY <1>5, <2>1
  <2> QED
    BY <2>2, <1>4, <1>8, ValApart
<1>9. n.top = m.top + 1 /\ n.store[n.top] = Zeros
  BY <1>2, <1>4
<1>10. Adds(m, n, f, i, j, k)
  <2> HIDE DEF b
  <2>1. Val(n, f, i, j, k) = n.top
    BY <1>2, <1>7
  <2> QED
    BY <1>3, <1>6, <1>7, <1>8, <1>9, <2>1 DEF Adds
<1> QED
  BY <1>10 DEF n

-----------------------------------------------------------------------------
(* The index arithmetic of Bmap.                                           *)

First(l) ==
    IF l < DIRECT THEN l
    ELSE IF l < LARGE THEN (l - DIRECT) \div PER + DIRECT
    ELSE (l - LARGE) \div (PER * PER) + DIRECT + SINGLE
Second(l) ==
    IF l < DIRECT THEN PER
    ELSE IF l < LARGE THEN (l - DIRECT) % PER
    ELSE ((l - LARGE) \div PER) % PER
Third(l) == IF l < LARGE THEN PER ELSE (l - LARGE) % PER

Logical == 0 .. HUGE - 1

LEMMA Sizes ==
    /\ LARGE \in Nat /\ HUGE \in Nat /\ DIRECT <= LARGE /\ LARGE <= HUGE
    /\ LARGE - DIRECT = PER * SINGLE /\ HUGE - LARGE = (PER * PER) * DOUBLE
    /\ PER * PER \in Nat \ {0}
<1>1. /\ SINGLE * PER \in Nat /\ SINGLE * PER = PER * SINGLE
      /\ DOUBLE * PER * PER \in Nat /\ DOUBLE * PER * PER = (PER * PER) * DOUBLE
      /\ PER * PER \in Nat \ {0}
  BY Shape
<1> QED
  BY <1>1, Shape DEF LARGE, HUGE

\* A logical block that Bmap does not refuse lies in one of three ranges, and in each
\* it is determined by the indices on its way.
LEMMA DirectPart ==
    ASSUME NEW l \in Logical, l < DIRECT
    PROVE  First(l) = l /\ Second(l) = PER /\ Third(l) = PER /\ First(l) < DIRECT
BY Sizes, Shape DEF First, Second, Third, Logical

LEMMA SinglePart ==
    ASSUME NEW l \in Logical, ~ l < DIRECT, l < LARGE
    PROVE  /\ First(l) \in DIRECT .. DIRECT + SINGLE - 1
           /\ Second(l) \in Index /\ Third(l) = PER
           /\ l = DIRECT + PER * (First(l) - DIRECT) + Second(l)
<1> DEFINE x == l - DIRECT
           w == x \div PER
           j == x % PER
<1>1. x \in 0 .. PER * SINGLE - 1 /\ x \in Nat /\ PER \in Nat \ {0} /\ SINGLE \in Nat
  BY Sizes, Shape DEF Logical
<1>2. w \in 0 .. SINGLE - 1
  BY <1>1, QuotientBound
<1>3. j \in 0 .. PER - 1 /\ x = PER * w + j
  BY <1>1, Division
<1>4. First(l) = w + DIRECT /\ Second(l) = j /\ Third(l) = PER
  BY DEF First, Second, Third
<1>5. l = DIRECT + x
  BY Sizes, Shape DEF Logical
<1> HIDE DEF x, w, j
<1>6. First(l) - DIRECT = w
  BY <1>2, <1>4, Shape
<1>7. l = DIRECT + PER * w + j
  BY <1>1, <1>2, <1>3, <1>5, Shape
<1>8. First(l) \in DIRECT .. DIRECT + SINGLE - 1
  BY <1>2, <1>4, Shape
<1> QED
  BY <1>3, <1>4, <1>6, <1>7, <1>8 DEF Index

LEMMA DoublePart ==
    ASSUME NEW l \in Logical, ~ l < LARGE
    PROVE  /\ First(l) \in DIRECT + SINGLE .. DIRECT + SINGLE + DOUBLE - 1
           /\ Second(l) \in Index /\ Third(l) \in Index
           /\ l = LARGE + PER * (PER * (First(l) - (DIRECT + SINGLE)) + Second(l)) + Third(l)
<1> DEFINE x == l - LARGE
           q == x \div PER
           w == x \div (PER * PER)
           r == x % (PER * PER)
           t == q \div PER
           j == q % PER
           k == x % PER
<1>1. /\ x \in 0 .. (PER * PER) * DOUBLE - 1 /\ x \in Nat /\ DOUBLE \in Nat
      /\ PER \in Nat \ {0} /\ PER * PER \in Nat \ {0}
  BY Sizes, Shape DEF Logical
<1>2. w \in 0 .. DOUBLE - 1
  BY <1>1, QuotientBound
<1>3. q \in Nat /\ k \in 0 .. PER - 1 /\ x = PER * q + k
  BY <1>1, Division
<1>4. t \in Nat /\ j \in 0 .. PER - 1 /\ q = PER * t + j
  BY <1>1, <1>3, Division
<1>5. r \in 0 .. PER * PER - 1 /\ x = (PER * PER) * w + r
  BY <1>1, Division
<1>6. /\ First(l) = w + DIRECT + SINGLE /\ Second(l) = j /\ Third(l) = k
  BY Sizes, Shape DEF First, Second, Third, Logical
<1>7. l = LARGE + x /\ LARGE \in Nat
  BY Sizes, Shape DEF Logical
<1> HIDE DEF x, q, w, r, t, j, k
<1>8. PER * j + k \in 0 .. PER * PER - 1
  <2>1. PICK d \in Nat : PER = j + 1 + d
    BY <1>1, <1>4, Excess
  <2>2. (j + 1 + d) * PER = PER * j + PER + d * PER /\ d * PER >= 0 /\ PER * j >= 0
    BY <1>1, <1>4
  <2> QED
    BY <2>1, <2>2, <1>1, <1>3, <1>4
<1>9. t * (PER * PER) + (PER * j + k) = w * (PER * PER) + r
  <2>1. x = PER * (PER * t + j) + k
    BY <1>3, <1>4
  <2>2. PER * (PER * t + j) = t * (PER * PER) + PER * j
    BY <1>1, <1>4
  <2>3. x = w * (PER * PER) + r
    BY <1>1, <1>2, <1>5
  <2> QED
    BY <2>1, <2>2, <2>3, <1>1, <1>3, <1>4
<1>10. w = t
  BY <1>1, <1>2, <1>4, <1>5, <1>8, <1>9, Digits
<1>11. First(l) - (DIRECT + SINGLE) = w
  BY <1>2, <1>6, Shape
<1>12. l = LARGE + PER * (PER * w + j) + k
  <2>1. PER * q = PER * (PER * w + j)
    BY <1>4, <1>10
  <2>2. PER * q \in Nat /\ PER * (PER * w + j) \in Nat
    BY <1>1, <1>3, <2>1
  <2> QED
    BY <1>3, <1>7, <2>1, <2>2
<1>13. First(l) \in DIRECT + SINGLE .. DIRECT + SINGLE + DOUBLE - 1
  BY <1>2, <1>6, Shape
<1> QED
  BY <1>3, <1>4, <1>6, <1>11, <1>12, <1>13 DEF Index

\* The way to a logical block: as many indices as its range has.
LEMMA PathParts ==
    ASSUME NEW l \in Logical
    PROVE  /\ First(l) \in Addr /\ Second(l) \in Optional /\ Third(l) \in Optional
           /\ IsData(First(l), Second(l), Third(l))
           /\ Path(l) = IF Second(l) = PER THEN <<First(l)>>
                        ELSE IF Third(l) = PER THEN <<First(l), Second(l)>>
                        ELSE <<First(l), Second(l), Third(l)>>
<1>1. CASE l < DIRECT
  BY <1>1, DirectPart, Shape DEF Path, IsData, Addr, Logical
<1>2. CASE ~ l < DIRECT /\ l < LARGE
  <2>1. Path(l) = <<First(l), Second(l)>>
    BY <1>2 DEF Path, First, Second
  <2>2. /\ First(l) \in DIRECT .. DIRECT + SINGLE - 1
        /\ Second(l) \in Index /\ Third(l) = PER
    BY <1>2, SinglePart
  <2>3. Second(l) # PER
    BY <2>2, Shape
  <2>4. First(l) \in Addr
    BY <2>2, Shape DEF Addr
  <2> QED
    <3>1. IsData(First(l), Second(l), Third(l))
      BY <2>2, <2>3, Shape DEF IsData
    <3> QED
      BY <2>1, <2>2, <2>3, <2>4, <3>1, Shape
<1>3. CASE ~ l < LARGE
  <2>1. ~ l < DIRECT
    BY <1>3, Sizes, Shape DEF Logical
  <2>2. Path(l) = <<First(l), Second(l), Third(l)>>
    BY <1>3, <2>1 DEF Path, First, Second, Third
  <2>3. /\ First(l) \in DIRECT + SINGLE .. DIRECT + SINGLE + DOUBLE - 1
        /\ Second(l) \in Index /\ Third(l) \in Index
    BY <1>3, DoublePart
  <2>4. Second(l) # PER /\ Third(l) # PER
    BY <2>3, Shape
  <2>5. First(l) \in Addr
    BY <2>3, Shape DEF Addr
  <2> QED
    <3>1. IsData(First(l), Second(l), Third(l))
      BY <2>3, <2>4, Shape DEF IsData
    <3>2. Second(l) \in Optional /\ Third(l) \in Optional
      BY <2>3, Shape
    <3> QED
      BY <2>2, <2>4, <2>5, <3>1, <3>2
<1> QED
  BY <1>1, <1>2, <1>3

\* No two logical blocks have the same way.
LEMMA PathOneToOne ==
    ASSUME NEW l \in Logical, NEW h \in Logical,
           First(l) = First(h), Second(l) = Second(h), Third(l) = Third(h)
    PROVE  l = h
<1>1. CASE l < DIRECT
  <2>1. h < DIRECT
    <3>1. CASE ~ h < DIRECT /\ h < LARGE
      BY <3>1, <1>1, DirectPart, SinglePart, Shape
    <3>2. CASE ~ h < LARGE
      BY <3>2, <1>1, DirectPart, DoublePart, Shape
    <3> QED
      BY <3>1, <3>2
  <2> QED
    BY <1>1, <2>1, DirectPart
<1>2. CASE ~ l < DIRECT /\ l < LARGE
  <2>1. ~ h < DIRECT
    BY <1>2, DirectPart, SinglePart, Shape
  <2>2. h < LARGE
    BY <1>2, SinglePart, DoublePart, Shape
  <2> QED
    BY <1>2, <2>1, <2>2, SinglePart
<1>3. CASE ~ l < LARGE
  <2>1. ~ h < DIRECT
    BY <1>3, DirectPart, DoublePart, Shape
  <2>2. ~ h < LARGE
    BY <1>3, <2>1, SinglePart, DoublePart, Shape
  <2> QED
    BY <1>3, <2>2, DoublePart
<1> QED
  BY <1>1, <1>2, <1>3

-----------------------------------------------------------------------------
(* Bmap: at most three more blocks, each at a place of its own, and no     *)
(* content changes.                                                        *)

Sound(m, gone) == m \in MapType /\ \E own : Owned(m, own, gone)

\* Map n is m with at most c more blocks.
Grows(m, n, gone, c) ==
    /\ Sound(n, gone) /\ SameContent(m, n)
    /\ n.top \in m.top .. m.top + c

LEMMA GrowsStill ==
    ASSUME NEW m, NEW gone, Sound(m, gone)
    PROVE  Grows(m, m, gone, 0)
BY DEF Grows, Sound, SameContent, MapType

LEMMA GrowsBy ==
    ASSUME NEW m, NEW gone, Sound(m, gone), NEW f \in Inode, NEW i \in Addr,
           NEW j \in Optional, NEW k \in Optional, NEW n, Adds(m, n, f, i, j, k)
    PROVE  Grows(m, n, gone, 1)
<1>1. PICK own : Owned(m, own, gone)
  BY DEF Sound
<1>2. (\E o : Owned(n, o, gone)) /\ SameContent(m, n)
  BY <1>1, AddsKeeps DEF Sound
<1>3. n \in MapType /\ n.top = m.top + 1 /\ m.top \in Nat
  BY Shape DEF Adds, Sound, MapType
<1> QED
  BY <1>2, <1>3 DEF Grows, Sound

LEMMA GrowsThen ==
    ASSUME NEW m, NEW n, NEW q, NEW gone, NEW c \in Nat, NEW d \in Nat,
           Sound(m, gone), Grows(m, n, gone, c), Grows(n, q, gone, d)
    PROVE  Grows(m, q, gone, c + d)
<1>1. m.top \in Nat /\ n.top \in Nat /\ q.top \in Nat
  BY Shape DEF Grows, Sound, MapType
<1>2. SameContent(m, q)
  BY DEF Grows, SameContent
<1> QED
  BY <1>1, <1>2 DEF Grows

LEMMA AddrStep ==
    ASSUME NEW m, NEW gone, Sound(m, gone), m.top < NBLK, NEW f \in Inode, NEW i \in Addr
    PROVE  /\ Grows(m, ByAddr(m, f, i), gone, 1)
           /\ ByAddr(m, f, i).addr[f][i] # 0
<1>1. CASE m.addr[f][i] # 0
  <2>1. ByAddr(m, f, i) = m
    BY <1>1 DEF ByAddr
  <2>2. m.top \in Nat
    BY Shape DEF Sound, MapType
  <2> QED
    BY <1>1, <2>1, <2>2, GrowsStill DEF Grows
<1>2. CASE m.addr[f][i] = 0
  <2>1. Adds(m, ByAddr(m, f, i), f, i, PER, PER)
    BY <1>2, AddrAdds DEF Sound
  <2>2. Grows(m, ByAddr(m, f, i), gone, 1)
    BY <2>1, GrowsBy, Shape
  <2>3. Val(ByAddr(m, f, i), f, i, PER, PER) # 0
    BY <2>1, Shape DEF Adds, Sound, MapType
  <2> QED
    BY <2>2, <2>3 DEF Val
<1> QED
  BY <1>1, <1>2

LEMMA TableStep ==
    ASSUME NEW m, NEW gone, Sound(m, gone), m.top < NBLK,
           NEW f \in Inode, NEW i \in Addr, i >= DIRECT, NEW k \in Index, m.addr[f][i] # 0
    PROVE  /\ Grows(m, ByTable(m, m.addr[f][i], k), gone, 1)
           /\ ByTable(m, m.addr[f][i], k).addr[f][i] = m.addr[f][i]
           /\ ByTable(m, m.addr[f][i], k).store[m.addr[f][i]][k] # 0
<1> DEFINE t == m.addr[f][i]
           n == ByTable(m, t, k)
<1>1. CASE m.store[t][k] # 0
  <2>1. n = m
    BY <1>1 DEF ByTable
  <2>2. m.top \in Nat
    BY Shape DEF Sound, MapType
  <2> QED
    BY <1>1, <2>1, <2>2, GrowsStill DEF Grows
<1>2. CASE m.store[t][k] = 0
  <2>1. Adds(m, n, f, i, k, PER)
    BY <1>2, TableAdds DEF Sound
  <2>2. Grows(m, n, gone, 1)
    BY <2>1, GrowsBy, Shape
  <2>3. n.addr = m.addr
    BY <1>2 DEF ByTable, Alloc, Sound, MapType
  <2>4. Val(n, f, i, k, PER) # 0
    BY <2>1, Shape DEF Adds, Sound, MapType
  <2>5. n.store[t][k] # 0
    <3> HIDE DEF n
    <3>1. n.addr[f][i] = t /\ k # PER /\ ~ i < DIRECT
      BY <2>3, Shape DEF Addr
    <3> QED
      BY <2>4, <3>1 DEF Val
  <2> QED
    BY <2>2, <2>3, <2>5
<1> QED
  BY <1>1, <1>2

LEMMA SecondStep ==
    ASSUME NEW m, NEW gone, Sound(m, gone), m.top < NBLK,
           NEW f \in Inode, NEW i \in Addr, i >= DIRECT + SINGLE,
           NEW j \in Index, NEW k \in Index, NEW t, t = Val(m, f, i, j, PER), t # 0
    PROVE  /\ Grows(m, ByTable(m, t, k), gone, 1)
           /\ Val(ByTable(m, t, k), f, i, j, k) = ByTable(m, t, k).store[t][k]
           /\ ByTable(m, t, k).store[t][k] # 0
<1> DEFINE n == ByTable(m, t, k)
<1>0. j # PER /\ k # PER /\ ~ i < DIRECT + SINGLE /\ j \in Optional /\ k \in Optional /\ PER \in Optional
  BY Shape DEF Addr, Index, Optional
<1>1. CASE m.store[t][k] # 0
  <2>1. n = m
    BY <1>1 DEF ByTable
  <2>2. m.top \in Nat
    BY Shape DEF Sound, MapType
  <2>3. Val(m, f, i, j, k) = m.store[t][k]
    BY <1>0 DEF Val
  <2> QED
    BY <1>1, <2>1, <2>2, <2>3, GrowsStill DEF Grows
<1>2. CASE m.store[t][k] = 0
  <2>1. Adds(m, n, f, i, j, k)
    BY <1>2, SecondAdds DEF Sound
  <2>2. Grows(m, n, gone, 1)
    BY <2>1, <1>0, GrowsBy
  <2>3. Val(n, f, i, j, k) # 0
    BY <2>1, Shape DEF Adds, Sound, MapType
  <2>4. Val(n, f, i, j, PER) = t
    BY <2>1, <1>0 DEF Adds
  <2>5. Val(n, f, i, j, k) = n.store[t][k]
    <3> HIDE DEF n
    <3> QED
      BY <2>4, <1>0 DEF Val
  <2> QED
    BY <2>2, <2>3, <2>5
<1> QED
  BY <1>1, <1>2

\* Where the number of a file's logical block is.
BlockOf(m, f, l) == Val(m, f, First(l), Second(l), Third(l))

\* What Bmap does for any block it does not refuse.
LEMMA BmapGrows ==
    ASSUME NEW m, NEW gone, Sound(m, gone), m.top + 3 <= NBLK,
           NEW f \in Inode, NEW l \in Logical
    PROVE  LET b == Bmap(m, f, l)
           IN  /\ Grows(m, b.map, gone, 3)
               /\ b.blk = BlockOf(b.map, f, l) /\ b.blk # 0
<1> DEFINE p  == Path(l)
           m1 == ByAddr(m, f, p[1])
           b1 == m1.addr[f][p[1]]
           m2 == ByTable(m1, b1, p[2])
           b2 == m2.store[b1][p[2]]
           m3 == ByTable(m2, b2, p[3])
<1>0. m.top \in Nat /\ NBLK \in Nat
  BY Shape DEF Sound, MapType
<1>1. /\ First(l) \in Addr /\ Second(l) \in Optional /\ Third(l) \in Optional
      /\ p = IF Second(l) = PER THEN <<First(l)>>
             ELSE IF Third(l) = PER THEN <<First(l), Second(l)>>
             ELSE <<First(l), Second(l), Third(l)>>
  BY PathParts
<1>2. p[1] = First(l)
  BY <1>1
<1>3. Grows(m, m1, gone, 1) /\ b1 # 0
  BY <1>0, <1>1, <1>2, AddrStep
<1>4. CASE l < DIRECT
  <2>1. Len(p) = 1 /\ Second(l) = PER /\ Third(l) = PER
    BY <1>1, <1>4, DirectPart
  <2>2. Bmap(m, f, l) = [map |-> m1, blk |-> b1]
    BY <2>1 DEF Bmap
  <2>3. b1 = BlockOf(m1, f, l)
    BY <1>2, <2>1 DEF BlockOf, Val
  <2>4. Grows(m, m1, gone, 3)
    BY <1>0, <1>3 DEF Grows
  <2> HIDE DEF m1, b1
  <2> QED
    BY <1>3, <2>2, <2>3, <2>4
<1>5. CASE ~ l < DIRECT /\ l < LARGE
  <2>0. First(l) \in DIRECT .. DIRECT + SINGLE - 1 /\ Second(l) \in Index /\ Third(l) = PER
    BY <1>5, SinglePart
  <2>1. Len(p) = 2 /\ p[2] = Second(l) /\ Second(l) # PER /\ First(l) >= DIRECT /\ ~ First(l) < DIRECT
    BY <1>1, <2>0, Shape
  <2>2. Bmap(m, f, l) = [map |-> m2, blk |-> b2]
    BY <2>1 DEF Bmap
  <2>3. Sound(m1, gone) /\ m1.top < NBLK
    BY <1>0, <1>3 DEF Grows
  <2> HIDE DEF m1
  <2>4. Grows(m1, m2, gone, 1) /\ m2.addr[f][p[1]] = b1 /\ b2 # 0
    BY <1>1, <1>2, <1>3, <2>0, <2>1, <2>3, TableStep
  <2>5. Grows(m, m2, gone, 3)
    <3>1. Grows(m, m2, gone, 1 + 1)
      BY <1>3, <2>4, GrowsThen
    <3> QED
      BY <1>0, <3>1 DEF Grows
  <2> HIDE DEF b1, m2
  <2>6. b2 = BlockOf(m2, f, l)
    BY <1>2, <1>3, <2>0, <2>1, <2>4 DEF BlockOf, Val
  <2> HIDE DEF b2
  <2> QED
    BY <2>2, <2>4, <2>5, <2>6
<1>6. CASE ~ l < LARGE
  <2>0. /\ First(l) \in DIRECT + SINGLE .. DIRECT + SINGLE + DOUBLE - 1
        /\ Second(l) \in Index /\ Third(l) \in Index
    BY <1>6, DoublePart
  <2>1. /\ Len(p) = 3 /\ p[2] = Second(l) /\ p[3] = Third(l)
        /\ Second(l) # PER /\ Third(l) # PER
        /\ First(l) >= DIRECT + SINGLE /\ First(l) >= DIRECT /\ ~ First(l) < DIRECT
    <3>1. Second(l) # PER /\ Third(l) # PER
      BY <2>0, Shape
    <3>2. p = <<First(l), Second(l), Third(l)>>
      BY <1>1, <3>1
    <3> QED
      BY <2>0, <3>1, <3>2, Shape
  <2>2. Bmap(m, f, l) = [map |-> m3, blk |-> m3.store[b2][p[3]]]
    <3>1. /\ Len(p) # 1 /\ Len(p) # 2 /\ Len(p) = 3
      BY <2>1
    <3> QED
      BY <3>1, Zenon DEF Bmap
  <2>3. Sound(m1, gone) /\ m1.top < NBLK /\ m1.top \in m.top .. m.top + 1
    BY <1>0, <1>3 DEF Grows
  <2> HIDE DEF m1
  <2>4. Grows(m1, m2, gone, 1) /\ m2.addr[f][p[1]] = b1 /\ b2 # 0
    BY <1>1, <1>2, <1>3, <2>0, <2>1, <2>3, TableStep
  <2>5. Sound(m2, gone) /\ m2.top < NBLK
    BY <1>0, <2>3, <2>4 DEF Grows
  <2> HIDE DEF b1, m2
  <2>6. b2 = Val(m2, f, First(l), Second(l), PER)
    BY <1>2, <1>3, <2>1, <2>4 DEF Val
  <2> HIDE DEF b2
  <2>7. Grows(m2, m3, gone, 1) /\ Val(m3, f, First(l), Second(l), Third(l)) = m3.store[b2][Third(l)]
        /\ m3.store[b2][Third(l)] # 0
    BY <1>1, <2>0, <2>1, <2>4, <2>5, <2>6, SecondStep
  <2>8. Grows(m, m3, gone, 3)
    <3>1. Grows(m, m2, gone, 1 + 1)
      BY <1>3, <2>4, GrowsThen
    <3>2. Grows(m, m3, gone, (1 + 1) + 1)
      BY <2>7, <3>1, GrowsThen
    <3> QED
      BY <3>2
  <2> HIDE DEF m3
  <2> QED
    BY <2>1, <2>2, <2>7, <2>8 DEF BlockOf
<1> QED
  BY <1>4, <1>5, <1>6

-----------------------------------------------------------------------------
(* A block of data is written; a file is truncated.                        *)

\* The content of file f's logical block l.
Held(m, f, l) == Content(m, f, First(l), Second(l), Third(l))

LEMMA HeldType ==
    ASSUME NEW m, NEW gone, Sound(m, gone), NEW f \in Inode, NEW l \in Logical
    PROVE  Held(m, f, l) \in [Index -> Word]
<1>1. First(l) \in Addr /\ Second(l) \in Optional /\ Third(l) \in Optional
  BY PathParts
<1>2. PICK own : Owned(m, own, gone) /\ m \in MapType
  BY DEF Sound
<1>3. Val(m, f, First(l), Second(l), Third(l)) \in Block \cup {0}
  BY <1>1, <1>2, ValApart
<1> QED
  BY <1>2, <1>3, Shape DEF Held, Content, MapType

LEMMA HeldSame ==
    ASSUME NEW m, NEW n, SameContent(m, n), NEW f \in Inode, NEW l \in Logical
    PROVE  Held(n, f, l) = Held(m, f, l)
BY PathParts DEF Held, SameContent

LEMMA WriteKeeps ==
    ASSUME NEW m, NEW gone, Sound(m, gone), NEW f \in Inode, NEW l \in Logical,
           BlockOf(m, f, l) # 0, NEW c \in [Index -> Word],
           NEW n, n = [m EXCEPT !.store[BlockOf(m, f, l)] = c]
    PROVE  /\ Sound(n, gone)
           /\ \A g \in Inode, h \in Logical :
                Held(n, g, h) = IF g = f /\ h = l THEN c ELSE Held(m, g, h)
<1> DEFINE b == BlockOf(m, f, l)
<1>0. PICK own : Owned(m, own, gone) /\ m \in MapType
  BY DEF Sound
<1>1. /\ First(l) \in Addr /\ Second(l) \in Optional /\ Third(l) \in Optional
      /\ IsData(First(l), Second(l), Third(l)) /\ PER \in Optional
  BY PathParts, Shape
<1>2. ASSUME NEW g \in Inode, NEW x \in Addr, NEW y \in Optional, NEW z \in Optional,
             Val(m, g, x, y, z) = b
      PROVE  g = f /\ x = First(l) /\ y = Second(l) /\ z = Third(l)
  BY <1>0, <1>1, <1>2, ValApart DEF BlockOf
<1>3. b \in Block
  BY <1>0, <1>1, ValApart DEF BlockOf
<1>4. /\ n.addr = m.addr /\ n.top = m.top /\ n.store = [m.store EXCEPT ![b] = c]
      /\ n \in MapType
      /\ n.store[b] = c
      /\ \A d \in Block : d # b => n.store[d] = m.store[d]
  BY <1>0, <1>3 DEF MapType
<1> HIDE DEF b
<1>5. ASSUME NEW g \in Inode, NEW x \in Addr, NEW y \in Optional, NEW z \in Optional
      PROVE  Val(n, g, x, y, z) = Val(m, g, x, y, z)
  <2> DEFINE first == m.addr[g][x]
             second == Val(m, g, x, y, PER)
  <2>1. first = Val(m, g, x, PER, PER) /\ n.addr[g][x] = first
    BY <1>4 DEF Val
  <2>2. first \in Block \cup {0} /\ second \in Block \cup {0}
    BY <1>0, <1>1, <2>1, ValApart
  <2>3. ~ x < DIRECT /\ first # 0 => n.store[first] = m.store[first]
    <3>1. first = b => x < DIRECT
      BY <1>1, <1>2, <2>1, Shape DEF IsData
    <3> QED
      BY <3>1, <2>2, <1>4
  <2>4. Val(n, g, x, y, PER) = second
    BY <2>1, <2>3 DEF Val
  <2>5. ~ x < DIRECT + SINGLE /\ second # 0 /\ y # PER => n.store[second] = m.store[second]
    <3>1. second = b /\ y # PER => x < DIRECT + SINGLE
      BY <1>1, <1>2, Shape DEF IsData
    <3> QED
      BY <3>1, <2>2, <1>4
  <2>6. CASE y = PER
    BY <2>1, <2>6 DEF Val
  <2>7. CASE z = PER
    BY <2>4, <2>7
  <2>8. CASE y # PER /\ z # PER
    <3>1. \A q \in {m, n} :
            Val(q, g, x, y, z) =
                IF Val(q, g, x, y, PER) = 0 \/ x < DIRECT + SINGLE THEN 0
                ELSE q.store[Val(q, g, x, y, PER)][z]
      BY <2>8 DEF Val
    <3> QED
      BY <3>1, <2>4, <2>5, <2>8
  <2> QED
    BY <2>6, <2>7, <2>8
<1>6. Sound(n, gone)
  <2>1. Owned(n, own, gone)
    BY <1>0, <1>4, <1>5 DEF Owned
  <2> QED
    BY <2>1, <1>4 DEF Sound
<1>7. ASSUME NEW g \in Inode, NEW h \in Logical
      PROVE  Held(n, g, h) = IF g = f /\ h = l THEN c ELSE Held(m, g, h)
  <2>1. First(h) \in Addr /\ Second(h) \in Optional /\ Third(h) \in Optional
    BY PathParts
  <2>2. BlockOf(n, g, h) = BlockOf(m, g, h) /\ BlockOf(m, g, h) \in Block \cup {0}
    BY <2>1, <1>0, <1>5, ValApart DEF BlockOf
  <2>3. CASE g = f /\ h = l
    BY <2>2, <2>3, <1>3, <1>4, Shape DEF Held, Content, BlockOf, Block, b
  <2>4. CASE ~ (g = f /\ h = l)
    <3>1. BlockOf(m, g, h) # b
      BY <2>1, <2>4, <1>2, PathOneToOne DEF BlockOf
    <3> QED
      BY <2>2, <2>4, <3>1, <1>4 DEF Held, Content, BlockOf
  <2> QED
    BY <2>3, <2>4
<1> QED
  BY <1>6, <1>7

\* The blocks of a file.
BlocksOf(m, f) == {Val(m, f, i, j, k) : i \in Addr, j \in Optional, k \in Optional} \ {0}

LEMMA TruncateKeeps ==
    ASSUME NEW m, NEW gone, Sound(m, gone), NEW f \in Inode,
           NEW n, n = [m EXCEPT !.addr[f] = [i \in Addr |-> 0]]
    PROVE  /\ Sound(n, gone \cup BlocksOf(m, f))
           /\ \A g \in Inode, h \in Logical :
                Held(n, g, h) = IF g = f THEN Zeros ELSE Held(m, g, h)
<1>0. PICK own : Owned(m, own, gone) /\ m \in MapType
  BY DEF Sound
<1>1. /\ n.top = m.top /\ n.store = m.store /\ n \in MapType
      /\ \A i \in Addr : n.addr[f][i] = 0
      /\ \A g \in Inode : g # f => n.addr[g] = m.addr[g]
  <2>1. /\ m.addr \in [Inode -> [Addr -> 0 .. NBLK]]
        /\ n.addr = [m.addr EXCEPT ![f] = [i \in Addr |-> 0]]
        /\ n.top = m.top /\ n.store = m.store
        /\ n = [addr |-> n.addr, store |-> m.store, top |-> m.top]
    BY <1>0 DEF MapType
  <2>2. [i \in Addr |-> 0] \in [Addr -> 0 .. NBLK]
    BY Shape
  <2>3. n.addr \in [Inode -> [Addr -> 0 .. NBLK]]
    BY <2>1, <2>2
  <2>4. n \in MapType
    BY <2>1, <2>3, <1>0 DEF MapType
  <2> QED
    BY <2>1, <2>4
<1>2. ASSUME NEW g \in Inode, NEW x \in Addr, NEW y \in Optional, NEW z \in Optional
      PROVE  Val(n, g, x, y, z) = IF g = f THEN 0 ELSE Val(m, g, x, y, z)
  BY <1>1 DEF Val
<1>3. Sound(n, gone \cup BlocksOf(m, f))
  <2> DEFINE gone2 == gone \cup BlocksOf(m, f)
  <2>1. own \in [Block -> Owner] /\ gone2 \subseteq 1 .. n.top
    BY <1>0, <1>1 DEF Owned, BlocksOf
  <2>2. ASSUME NEW g \in Inode, NEW x \in Addr, NEW y \in Optional, NEW z \in Optional,
               Val(n, g, x, y, z) # 0
        PROVE  Val(n, g, x, y, z) \in 1 .. n.top \ gone2 /\ own[Val(n, g, x, y, z)] = <<g, x, y, z>>
    <3>1. g # f /\ Val(n, g, x, y, z) = Val(m, g, x, y, z)
      BY <1>2, <2>2
    <3>2. Val(m, g, x, y, z) \notin BlocksOf(m, f)
      BY <3>1, <2>2, <1>0, ValApart DEF BlocksOf
    <3>3. /\ Val(m, g, x, y, z) \in 1 .. m.top \ gone
          /\ own[Val(m, g, x, y, z)] = <<g, x, y, z>>
      BY <3>1, <2>2, <1>0 DEF Owned
    <3> QED
      BY <3>1, <3>2, <3>3, <1>1
  <2>3. ASSUME NEW b \in 1 .. n.top \ gone2
        PROVE  \E g \in Inode, x \in Addr, y, z \in Optional : Val(n, g, x, y, z) = b
    <3>1. PICK g \in Inode, x \in Addr, y \in Optional, z \in Optional : Val(m, g, x, y, z) = b
      BY <1>0, <1>1 DEF Owned
    <3>2. g # f
      BY <3>1, <1>1 DEF BlocksOf
    <3> QED
      BY <3>1, <3>2, <1>2
  <2> HIDE DEF gone2
  <2>4. Owned(n, own, gone2)
    <3>1. \A g \in Inode, x \in Addr, y, z \in Optional :
            \/ Val(n, g, x, y, z) = 0
            \/ /\ Val(n, g, x, y, z) \in 1 .. n.top \ gone2
               /\ own[Val(n, g, x, y, z)] = <<g, x, y, z>>
      BY <2>2
    <3> QED
      BY <2>1, <2>3, <3>1 DEF Owned
  <2> QED
    BY <2>4, <1>1 DEF Sound, gone2
<1>4. ASSUME NEW g \in Inode, NEW h \in Logical
      PROVE  Held(n, g, h) = IF g = f THEN Zeros ELSE Held(m, g, h)
  BY <1>1, <1>2, PathParts DEF Held, Content
<1> QED
  BY <1>3, <1>4

-----------------------------------------------------------------------------
(* The state.                                                              *)

Apart == Sound(Map, freed)

\* The sets that FileBlocks writes with paths, as places.
PathOf(i, j, k) == IF j = PER THEN <<i>> ELSE IF k = PER THEN <<i, j>> ELSE <<i, j, k>>

LEMMA PlaceValues ==
    ASSUME NEW f \in Inode, NEW i \in Addr, NEW j \in Index, NEW k \in Index
    PROVE  /\ Val(Map, f, i, PER, PER) = addr[f][i]
           /\ Val(Map, f, i, j, PER) =
                IF addr[f][i] = 0 \/ i < DIRECT THEN 0 ELSE store[addr[f][i]][j]
           /\ Val(Map, f, i, j, k) =
                IF Val(Map, f, i, j, PER) = 0 \/ i < DIRECT + SINGLE THEN 0
                ELSE store[Val(Map, f, i, j, PER)][k]
<1>1. j # PER /\ k # PER
  BY Shape
<1> QED
  BY <1>1 DEF Val, Map

LEMMA NoValue ==
    ASSUME NEW f \in Inode, NEW i \in Addr, NEW k \in Optional, k # PER
    PROVE  Val(Map, f, i, PER, k) = 0
BY DEF Val

LEMMA SomeIndex ==
    ASSUME NEW j \in Optional
    PROVE  j = PER \/ j \in Index
BY Shape DEF Optional, Index

LEMMA BlockAtIs ==
    ASSUME NEW f \in Inode, NEW l \in Logical
    PROVE  BlockAt(f, l) = BlockOf(Map, f, l)
<1> DEFINE p  == Path(l)
           b1 == addr[f][p[1]]
           b2 == IF b1 = 0 THEN 0 ELSE store[b1][p[2]]
           b3 == IF b2 = 0 THEN 0 ELSE store[b2][p[3]]
<1>1. /\ First(l) \in Addr /\ Second(l) \in Optional /\ Third(l) \in Optional
      /\ p = IF Second(l) = PER THEN <<First(l)>>
             ELSE IF Third(l) = PER THEN <<First(l), Second(l)>>
             ELSE <<First(l), Second(l), Third(l)>>
  BY PathParts
<1>2. CASE l < DIRECT
  <2>1. Len(p) = 1 /\ p[1] = First(l) /\ Second(l) = PER /\ Third(l) = PER
    BY <1>1, <1>2, DirectPart
  <2>2. BlockAt(f, l) = b1
    BY <2>1 DEF BlockAt
  <2> QED
    BY <2>1, <2>2 DEF BlockOf, Val, Map
<1>3. CASE ~ l < DIRECT /\ l < LARGE
  <2>0. First(l) \in DIRECT .. DIRECT + SINGLE - 1 /\ Second(l) \in Index /\ Third(l) = PER
    BY <1>3, SinglePart
  <2>1. /\ Len(p) # 1 /\ Len(p) = 2 /\ p[1] = First(l) /\ p[2] = Second(l)
        /\ Second(l) # PER /\ ~ First(l) < DIRECT
    BY <1>1, <2>0, Shape
  <2>2. BlockAt(f, l) = b2
    BY <2>1 DEF BlockAt
  <2> QED
    BY <2>0, <2>1, <2>2 DEF BlockOf, Val, Map
<1>4. CASE ~ l < LARGE
  <2>0. /\ First(l) \in DIRECT + SINGLE .. DIRECT + SINGLE + DOUBLE - 1
        /\ Second(l) \in Index /\ Third(l) \in Index
    BY <1>4, DoublePart
  <2>1. /\ Second(l) # PER /\ Third(l) # PER
        /\ ~ First(l) < DIRECT + SINGLE /\ ~ First(l) < DIRECT
    BY <2>0, Shape
  <2>2. p = <<First(l), Second(l), Third(l)>>
    BY <1>1, <2>1
  <2>3. Len(p) # 1 /\ Len(p) # 2 /\ Len(p) = 3 /\ p[1] = First(l) /\ p[2] = Second(l) /\ p[3] = Third(l)
    BY <2>2
  <2>4. BlockAt(f, l) = b3
    BY <2>3, Zenon DEF BlockAt
  <2> QED
    BY <2>1, <2>3, <2>4 DEF BlockOf, Val, Map
<1> QED
  BY <1>2, <1>3, <1>4

\* ITrunc frees all blocks of the file.
LEMMA FreedIs ==
    ASSUME NEW f \in Inode
    PROVE  Freed(f) = BlocksOf(Map, f)
<1> DEFINE at(low, high) == {addr[f][i] : i \in low .. high - 1} \ {0}
           direct  == at(0, DIRECT)
           tables  == at(DIRECT, DIRECT + SINGLE)
           doubles == at(DIRECT + SINGLE, DIRECT + SINGLE + DOUBLE)
           seconds == UNION {Named(b) : b \in doubles}
           leaves  == UNION {Named(b) : b \in tables \cup seconds}
<1>1. Freed(f) = direct \cup tables \cup doubles \cup seconds \cup leaves
  BY DEF Freed
<1>2. ASSUME NEW b \in BlocksOf(Map, f) PROVE b \in Freed(f)
  <2>1. PICK i \in Addr, j \in Optional, k \in Optional : b = Val(Map, f, i, j, k) /\ b # 0
    BY DEF BlocksOf
  <2>2. j \in Index \/ (j = PER /\ k = PER)
    BY <2>1, NoValue, SomeIndex
  <2>3. k \in Index \/ k = PER
    BY SomeIndex
  <2>4. addr[f][i] # 0
    <3>1. CASE j = PER
      BY <3>1, <2>1, <2>2 DEF Val, Map
    <3>2. CASE j \in Index /\ k = PER
      BY <3>2, <2>1, PlaceValues
    <3>3. CASE j \in Index /\ k \in Index
      BY <3>3, <2>1, PlaceValues
    <3> QED
      BY <3>1, <3>2, <3>3, <2>2, <2>3
  <2>5. /\ i < DIRECT => addr[f][i] \in direct
        /\ i >= DIRECT /\ i < DIRECT + SINGLE => addr[f][i] \in tables
        /\ i >= DIRECT + SINGLE => addr[f][i] \in doubles
    BY <2>4, Shape DEF Addr
  <2>6. i \in Nat
    BY DEF Addr
  <2>7. CASE j = PER
    <3>1. b = addr[f][i]
      BY <2>1, <2>2, <2>7 DEF Val, Map
    <3> HIDE DEF direct, tables, doubles, seconds, leaves
    <3> QED
      BY <3>1, <1>1, <2>5, <2>6, Shape
  <2>8. CASE j \in Index /\ k = PER
    <3>1. i >= DIRECT /\ b \in Named(addr[f][i])
      BY <2>1, <2>6, <2>8, PlaceValues, Shape DEF Named
    <3>2. i < DIRECT + SINGLE => b \in leaves
      BY <3>1, <2>5, Shape
    <3>3. i >= DIRECT + SINGLE => b \in seconds
      BY <3>1, <2>5
    <3> HIDE DEF direct, tables, doubles, seconds, leaves
    <3> QED
      BY <3>2, <3>3, <1>1, <2>6, Shape
  <2>9. CASE j \in Index /\ k \in Index
    <3> DEFINE c == Val(Map, f, i, j, PER)
    <3>1. i >= DIRECT + SINGLE /\ c # 0 /\ b = store[c][k] /\ b \in Named(c)
      BY <2>1, <2>6, <2>9, PlaceValues, Shape DEF Named
    <3>2. c \in Named(addr[f][i])
      BY <3>1, <2>9, PlaceValues DEF Named
    <3> HIDE DEF c
    <3>3. c \in seconds
      BY <3>1, <3>2, <2>5
    <3>4. b \in leaves
      BY <3>1, <3>3
    <3> HIDE DEF direct, tables, doubles, seconds, leaves
    <3> QED
      BY <3>4, <1>1
  <2> QED
    BY <2>2, <2>3, <2>7, <2>8, <2>9
<1>3. ASSUME NEW b \in Freed(f) PROVE b \in BlocksOf(Map, f)
  <2>0. ASSUME NEW i \in Addr, NEW j \in Optional, NEW k \in Optional, b = Val(Map, f, i, j, k), b # 0
        PROVE  b \in BlocksOf(Map, f)
    BY <2>0 DEF BlocksOf
  <2>1. CASE b \in direct \cup tables \cup doubles
    <3>1. PICK i \in Addr : b = addr[f][i] /\ b # 0
      BY <2>1, Shape DEF Addr
    <3> QED
      BY <3>1, <2>0, PlaceValues, Shape DEF Val, Map
  <2>2. ASSUME NEW c \in seconds
        PROVE  \E i \in Addr, j \in Index :
                  i >= DIRECT + SINGLE /\ c = Val(Map, f, i, j, PER) /\ c # 0
    <3>1. PICK i \in DIRECT + SINGLE .. DIRECT + SINGLE + DOUBLE - 1 :
            addr[f][i] # 0 /\ c \in Named(addr[f][i])
      <4>1. PICK d \in doubles : c \in Named(d)
        OBVIOUS
      <4>2. PICK i \in DIRECT + SINGLE .. DIRECT + SINGLE + DOUBLE - 1 : d = addr[f][i] /\ d # 0
        BY Shape
      <4> QED
        BY <4>1, <4>2
    <3>2. PICK j \in Index : c = store[addr[f][i]][j] /\ c # 0
      BY <3>1 DEF Named
    <3>3. i \in Addr /\ i >= DIRECT + SINGLE /\ ~ i < DIRECT
      BY Shape DEF Addr
    <3>4. c = Val(Map, f, i, j, PER)
      BY <3>1, <3>2, <3>3, PlaceValues
    <3> QED
      BY <3>2, <3>3, <3>4
  <2>3. CASE b \in seconds
    BY <2>0, <2>2, <2>3, Shape
  <2>4. CASE b \in UNION {Named(c) : c \in tables}
    <3>1. PICK i \in DIRECT .. DIRECT + SINGLE - 1 : addr[f][i] # 0 /\ b \in Named(addr[f][i])
      <4>1. PICK d \in tables : b \in Named(d)
        BY <2>4
      <4>2. PICK i \in DIRECT .. DIRECT + SINGLE - 1 : d = addr[f][i] /\ d # 0
        BY Shape
      <4> QED
        BY <4>1, <4>2
    <3>2. PICK j \in Index : b = store[addr[f][i]][j] /\ b # 0
      BY <3>1 DEF Named
    <3>3. i \in Addr /\ ~ i < DIRECT
      BY Shape DEF Addr
    <3>4. b = Val(Map, f, i, j, PER)
      BY <3>1, <3>2, <3>3, PlaceValues
    <3> QED
      BY <2>0, <3>2, <3>3, <3>4, Shape
  <2>5. CASE b \in UNION {Named(c) : c \in seconds}
    <3>1. PICK c \in seconds : b \in Named(c)
      BY <2>5
    <3>2. PICK k \in Index : b = store[c][k] /\ b # 0
      BY <3>1 DEF Named
    <3>3. PICK i \in Addr, j \in Index : i >= DIRECT + SINGLE /\ c = Val(Map, f, i, j, PER) /\ c # 0
      BY <2>2
    <3>4. ~ i < DIRECT + SINGLE
      BY <3>3, Shape DEF Addr
    <3>5. b = Val(Map, f, i, j, k)
      BY <3>2, <3>3, <3>4, PlaceValues
    <3> QED
      BY <2>0, <3>2, <3>5, Shape
  <2>6. leaves = (UNION {Named(c) : c \in tables}) \cup (UNION {Named(c) : c \in seconds})
    OBVIOUS
  <2> HIDE DEF direct, tables, doubles, seconds, leaves
  <2> QED
    BY <1>1, <1>3, <2>1, <2>3, <2>4, <2>5, <2>6
<1> QED
  BY <1>2, <1>3

-----------------------------------------------------------------------------
(* The invariant.                                                          *)

\* What is beyond the end of a file is 0, so that the file can grow over it.
ZeroBeyond ==
    \A f \in Inode, l \in Logical, x \in Index :
        l * PER + x >= size[f] => Held(Map, f, l)[x] = 0

\* A call in progress will not run out of blocks: the bound Room, for what is left.
RoomLeft ==
    (io # NoIO /\ io.count # 0 /\ (io.op = "read" => io.off < size[F])) =>
        top + 3 * ((Pos + io.count + (PER - 1)) \div PER) <= NBLK

IInv == TypeOK /\ Apart /\ ZeroBeyond /\ RoomLeft

LEMMA InTransfer ==
    ASSUME TypeOK, io # NoIO
    PROVE  /\ io \in Transfer /\ io.op \in {"read", "write"}
           /\ io.op = "write" => io.val \in Data
           /\ io.of \in OpenFile /\ F \in Inode /\ io.off \in Nat /\ io.count \in Nat
           /\ Lbn \in Nat /\ Pos \in Index /\ io.off = PER * Lbn + Pos
           /\ size[F] \in Nat
<1>1. /\ io \in Transfer /\ io.op \in {"read", "write"}
      /\ io.op = "write" => io.val \in Data
      /\ io.of \in OpenFile /\ F \in Inode /\ io.off \in Nat /\ io.count \in Nat
  BY DEF TypeOK, Transfer, F
<1>2. Lbn \in Nat /\ Pos \in Index /\ io.off = PER * Lbn + Pos
  BY <1>1, Shape, Division DEF Lbn, Pos, Index
<1>3. size[F] \in Nat
  BY <1>1, Sizes, Shape DEF TypeOK
<1> QED
  BY <1>1, <1>2, <1>3

\* The words a turn moves.
ReadCount  == Least(Least(PER - Pos, io.count), size[F] - io.off)
WriteCount == Least(PER - Pos, io.count)

LEMMA Counted ==
    ASSUME TypeOK, io # NoIO, io.count # 0, NEW n \in Nat \ {0}, n <= PER - Pos, n <= io.count,
           ~ TooFar
    PROVE  /\ Lbn \in Logical /\ io.off + n <= HUGE * PER
           /\ \A k \in 1 .. n :
                /\ Pos + k - 1 \in Index
                /\ (io.off + k - 1) \div PER = Lbn /\ (io.off + k - 1) % PER = Pos + k - 1
<1>0. Lbn \in Nat /\ Pos \in Index /\ io.off = PER * Lbn + Pos /\ io.off \in Nat /\ HUGE \in Nat
  BY InTransfer, Sizes
<1> HIDE DEF Lbn, Pos
<1>1. Lbn \in Logical
  BY <1>0 DEF TooFar, Logical
<1>2. io.off + n <= HUGE * PER
  <2>1. PICK d \in Nat : HUGE = Lbn + 1 + d
    BY <1>0, Excess DEF TooFar
  <2>2. (Lbn + 1 + d) * PER = PER * Lbn + PER + d * PER /\ d * PER >= 0 /\ PER * Lbn \in Nat
    BY <1>0, Shape
  <2> QED
    BY <2>1, <2>2, <1>0, Shape DEF Index
<1>3. ASSUME NEW k \in 1 .. n
      PROVE  /\ Pos + k - 1 \in Index
             /\ (io.off + k - 1) \div PER = Lbn /\ (io.off + k - 1) % PER = Pos + k - 1
  <2>1. Pos + k - 1 \in 0 .. PER - 1
    BY <1>0, Shape DEF Index
  <2>2. io.off + k - 1 = Lbn * PER + (Pos + k - 1)
    BY <1>0, Shape DEF Index
  <2>3. (Lbn * PER + (Pos + k - 1)) \div PER = Lbn /\ (Lbn * PER + (Pos + k - 1)) % PER = Pos + k - 1
    <3> DEFINE y == Pos + k - 1
    <3>1. y \in 0 .. PER - 1
      BY <2>1
    <3> HIDE DEF y
    <3>2. (Lbn * PER + y) \div PER = Lbn /\ (Lbn * PER + y) % PER = y
      BY <1>0, <3>1, Shape, QuotientUnique
    <3> QED
      BY <3>2 DEF y
  <2> QED
    BY <2>1, <2>2, <2>3 DEF Index
<1> QED
  BY <1>1, <1>2, <1>3

\* In a turn Bmap has the blocks it may need, and what it finds is the content.
LEMMA TurnMaps ==
    ASSUME IInv, io # NoIO, io.count # 0, io.op = "read" => io.off < size[F], ~ TooFar
    PROVE  LET b == Bmap(Map, F, Lbn)
           IN  /\ Grows(Map, b.map, freed, 3) /\ b.map.top <= NBLK
               /\ b.blk = BlockOf(b.map, F, Lbn) /\ b.blk # 0
               /\ b.map.store[b.blk] = Held(Map, F, Lbn)
               /\ Lbn \in Logical /\ F \in Inode
               /\ (Pos + io.count + (PER - 1)) \div PER >= 1
<1>1. /\ Lbn \in Nat /\ Pos \in Index /\ io.count \in Nat /\ F \in Inode /\ Lbn \in Logical
  BY InTransfer, Sizes DEF IInv, TooFar, Logical
<1>2. (Pos + io.count + (PER - 1)) \div PER >= 1
  <2>1. Pos + io.count + (PER - 1) \in Nat /\ Pos + io.count + (PER - 1) >= PER
    BY <1>1, Shape DEF Index
  <2>2. PER \div PER = 1
    <3>1. (1 * PER + 0) \div PER = 1
      BY Shape, QuotientUnique
    <3> QED
      BY <3>1, Shape
  <2> QED
    BY <2>1, <2>2, Shape, QuotientMonotone
<1>3. Map.top = top /\ top \in Nat /\ top + 3 <= NBLK
  <2> DEFINE x == Pos + io.count + (PER - 1)
  <2>1. top \in Nat /\ x \div PER \in Nat
    <3>1. x \in Nat
      BY <1>1, Shape DEF Index
    <3>2. top \in Nat
      BY Shape DEF IInv, TypeOK
    <3> HIDE DEF x
    <3> QED
      BY <3>1, <3>2, Shape, Division
  <2> QED
    BY <1>2, <2>1, Shape DEF IInv, RoomLeft, Map
<1>4. LET b == Bmap(Map, F, Lbn)
      IN  /\ Grows(Map, b.map, freed, 3)
          /\ b.blk = BlockOf(b.map, F, Lbn) /\ b.blk # 0
  BY <1>1, <1>3, BmapGrows DEF IInv, Apart
<1> DEFINE b == Bmap(Map, F, Lbn)
<1> HIDE DEF b
<1>5. b.map.store[b.blk] = Held(b.map, F, Lbn)
  BY <1>4 DEF Held, Content, BlockOf, b
<1>6. Held(b.map, F, Lbn) = Held(Map, F, Lbn)
  BY <1>1, <1>4, HeldSame DEF Grows, b
<1>7. b.map.top <= NBLK
  BY <1>3, <1>4, Shape DEF Grows, b
<1> QED
  BY <1>1, <1>2, <1>4, <1>5, <1>6, <1>7 DEF b

\* After a turn the room is that of the blocks that are left.
LEMMA RoomAfter ==
    ASSUME TypeOK, RoomLeft, io # NoIO, io.count # 0, io.op = "read" => io.off < size[F],
           NEW n, n = PER - Pos, n < io.count, top' \in top .. top + 3, F' = F,
           io' = [io EXCEPT !.off = @ + n, !.count = @ - n]
    PROVE  top' + 3 * ((Pos' + io'.count + (PER - 1)) \div PER) <= NBLK
<1>0. /\ Lbn \in Nat /\ Pos \in Index /\ io.off = PER * Lbn + Pos /\ io.off \in Nat
      /\ io.count \in Nat /\ top \in Nat /\ NBLK \in Nat
  BY InTransfer, Shape DEF TypeOK
<1>1. io'.off = io.off + n /\ io'.count = io.count - n
  BY InTransfer DEF Transfer
<1>2. Pos' = 0
  <2>1. io'.off = (Lbn + 1) * PER + 0
    <3> HIDE DEF Lbn, Pos
    <3> QED
      BY <1>0, <1>1, Shape DEF Index
  <2>2. ((Lbn + 1) * PER + 0) % PER = 0
    <3>1. Lbn + 1 \in Nat /\ 0 \in 0 .. PER - 1
      BY <1>0, Shape
    <3> QED
      BY <3>1, Shape, QuotientUnique
  <2> QED
    BY <2>1, <2>2 DEF Pos
<1> DEFINE x == Pos + io.count + (PER - 1)
           q == x \div PER
           r == x % PER
<1>3. /\ x \in Nat /\ q \in Nat /\ r \in 0 .. PER - 1 /\ x = PER * q + r /\ x >= PER + 1
  <2>1. x \in Nat /\ x >= PER + 1
    <3> DEFINE o == Pos
               c == io.count
    <3>1. /\ o \in 0 .. PER - 1 /\ c \in Nat /\ PER - o < c
          /\ PER \in Nat /\ PER > 0 /\ x = o + c + (PER - 1)
      BY <1>0, Shape DEF Index
    <3> HIDE DEF o, c, x
    <3> QED
      BY <3>1
  <2> HIDE DEF x
  <2> QED
    BY <2>1, Shape, Division
<1>4. top + 3 * q <= NBLK
  BY DEF RoomLeft
<1> HIDE DEF q, r
<1>5. io'.count + (PER - 1) = x - PER
  <2> DEFINE c == io'.count
             o == Pos
  <2>1. c = io.count - (PER - o) /\ o \in Nat /\ io.count \in Nat /\ PER \in Nat
    BY <1>0, <1>1, Shape DEF Index
  <2> HIDE DEF c, o
  <2>2. c + (PER - 1) = (o + io.count + (PER - 1)) - PER
    BY <2>1
  <2> QED
    BY <2>2 DEF c, o
<1> HIDE DEF x
<1>6. PICK d \in Nat : q = d + 1
  <2>1. q # 0
    BY <1>3, Shape
  <2>2. q - 1 \in Nat /\ q = (q - 1) + 1
    BY <1>3, <2>1
  <2> QED
    BY <2>2
<1>7. x - PER = d * PER + r
  <2>1. PER * (d + 1) = d * PER + PER /\ d * PER \in Nat
    BY Shape
  <2> QED
    BY <1>3, <1>6, <2>1, Shape
<1>8. (x - PER) \div PER = d
  BY <1>3, <1>7, Shape, QuotientUnique
<1>9. Pos' + io'.count + (PER - 1) = x - PER
  BY <1>0, <1>1, <1>2, <1>5, Shape DEF Index
<1> QED
  BY <1>0, <1>4, <1>6, <1>8, <1>9

LEMMA MapIsSound ==
    ASSUME IInv
    PROVE  Map \in MapType /\ Sound(Map, freed) /\ Map.top = top /\ Map.addr = addr /\ Map.store = store
BY DEF IInv, Apart, Sound, Map

\* What is left of TypeOK when a map and its blocks are sound.
LEMMA SoundTypes ==
    ASSUME NEW m, NEW gone, Sound(m, gone)
    PROVE  /\ m.addr \in [Inode -> [Addr -> 0 .. NBLK]]
           /\ m.store \in [Block -> [Index -> Word]]
           /\ m.top \in 0 .. NBLK
           /\ gone \subseteq Block
BY Shape DEF Sound, MapType, Owned, Block

\* A turn of ReadI: the words of the file come from the position on, and nothing
\* that files hold changes.
LEMMA ReadTurnIs ==
    ASSUME IInv, ReadTurn
    PROVE  /\ IInv'
           /\ \A f \in Inode, l \in Logical : Held(Map', f, l) = Held(Map, f, l)
           /\ ReadCount \in 1 .. io.count /\ io.off + ReadCount <= size[F]
           /\ \A k \in 1 .. ReadCount : Pos + k - 1 \in Index
           /\ got' = got \o [k \in 1 .. ReadCount |-> Held(Map, F, Lbn)[Pos + k - 1]]
<1> DEFINE n == ReadCount
           b == Bmap(Map, F, Lbn)
<1>0. /\ io # NoIO /\ io.op = "read" /\ io.count # 0 /\ io.off < size[F] /\ ~ TooFar
      /\ io \in Transfer /\ io.of \in OpenFile /\ F \in Inode /\ io.off \in Nat /\ io.count \in Nat
      /\ Pos \in Index /\ size[F] \in Nat
  <2>1. io.op = "read" /\ io.count # 0 /\ ~ AtEnd /\ ~ TooFar
    BY DEF ReadTurn
  <2>2. io # NoIO
    BY <2>1 DEF NoIO
  <2> QED
    BY <2>1, <2>2, InTransfer DEF IInv, AtEnd
<1>1. /\ Grows(Map, b.map, freed, 3) /\ b.map.top <= NBLK
      /\ b.map.store[b.blk] = Held(Map, F, Lbn)
      /\ Lbn \in Logical
  BY <1>0, TurnMaps
<1>2. /\ n \in Nat \ {0} /\ n <= PER - Pos /\ n <= io.count /\ io.off + n <= size[F]
      /\ (n = PER - Pos \/ n = io.count \/ io.off + n = size[F])
  <2> DEFINE o == Pos
             c == io.count
             s == size[F]
             x == io.off
  <2>1. /\ o \in 0 .. PER - 1 /\ c \in Nat /\ c # 0 /\ s \in Nat /\ x \in Nat /\ x < s /\ PER \in Nat
        /\ n = Least(Least(PER - o, c), s - x)
    BY <1>0, Shape DEF Index, ReadCount
  <2> HIDE DEF o, c, s, x
  <2>2. /\ n \in Nat \ {0} /\ n <= PER - o /\ n <= c /\ x + n <= s
        /\ (n = PER - o \/ n = c \/ x + n = s)
    BY <2>1 DEF Least
  <2> QED
    BY <2>2 DEF o, c, s, x
<1>3. /\ Map'.addr = addr' /\ Map'.store = store' /\ Map'.top = top' /\ Map' = b.map
      /\ io' = [io EXCEPT !.off = @ + n, !.count = @ - n]
      /\ got' = got \o [k \in 1 .. n |-> b.map.store[b.blk][Pos + k - 1]]
      /\ UNCHANGED <<size, freed, file>>
  <2>1. /\ addr' = b.map.addr /\ store' = b.map.store /\ top' = b.map.top
        /\ io' = [io EXCEPT !.off = @ + n, !.count = @ - n]
        /\ got' = got \o [k \in 1 .. n |-> b.map.store[b.blk][Pos + k - 1]]
        /\ UNCHANGED <<size, freed, file>>
    BY DEF ReadTurn, ReadCount
  <2> HIDE DEF b, n
  <2>2. b.map \in MapType
    BY <1>1 DEF Grows, Sound
  <2> QED
    BY <2>1, <2>2 DEF Map, MapType
<1> HIDE DEF b, n
<1>4. \A f \in Inode, l \in Logical : Held(Map', f, l) = Held(Map, f, l)
  BY <1>1, <1>3, HeldSame DEF Grows
<1>5. \A k \in 1 .. n : Pos + k - 1 \in Index
  BY <1>0, <1>2, Counted DEF IInv
<1>6. Sound(Map', freed')
  BY <1>1, <1>3 DEF Grows
<1>7. io'.off = io.off + n /\ io'.count = io.count - n /\ io'.op = "read" /\ io' \in Transfer
      /\ io'.of = io.of
  <2>1. io \in [op: {"read"}, of: OpenFile, off: Nat, count: Nat]
    BY <1>0 DEF Transfer
  <2>2. io' \in [op: {"read"}, of: OpenFile, off: Nat, count: Nat]
        /\ io'.off = io.off + n /\ io'.count = io.count - n /\ io'.of = io.of
    <3>1. io' = [io EXCEPT !.off = @ + n, !.count = @ - n]
      BY <1>3
    <3>2. io.off \in Nat /\ io.count \in Nat /\ n \in Nat /\ n <= io.count
      BY <1>0, <1>2
    <3>3. io.off + n \in Nat /\ io.count - n \in Nat
      BY <3>2
    <3>4. io' = [op |-> io.op, of |-> io.of, off |-> io.off + n, count |-> io.count - n]
      BY <2>1, <3>1
    <3> QED
      BY <2>1, <3>3, <3>4
  <2> QED
    BY <2>2 DEF Transfer
<1>8. got' = got \o [k \in 1 .. n |-> Held(Map, F, Lbn)[Pos + k - 1]]
  BY <1>1, <1>3
<1>9. TypeOK'
  <2>1. Held(Map, F, Lbn) \in [Index -> Word]
    BY <1>0, <1>1, MapIsSound, HeldType
  <2>2. [k \in 1 .. n |-> Held(Map, F, Lbn)[Pos + k - 1]] \in Seq(Word)
    BY <1>2, <1>5, <2>1
  <2>3. got' \in Seq(Word)
    BY <1>8, <2>2 DEF IInv, TypeOK
  <2> QED
    BY <1>3, <1>6, <1>7, <2>3, SoundTypes DEF IInv, TypeOK
<1>10. ZeroBeyond'
  BY <1>3, <1>4 DEF IInv, ZeroBeyond
<1>11. RoomLeft'
  <2>1. F' = F /\ size'[F'] = size[F]
    BY <1>3, <1>7 DEF F
  <2>2. SUFFICES ASSUME io'.count # 0, io'.off < size[F]
                 PROVE  top' + 3 * ((Pos' + io'.count + (PER - 1)) \div PER) <= NBLK
    BY <1>7, <2>1 DEF RoomLeft
  <2>3. n = PER - Pos /\ n < io.count
    BY <1>0, <1>2, <1>7, <2>2
  <2>4. top' \in top .. top + 3
    BY <1>1, <1>3, MapIsSound DEF Grows
  <2> QED
    BY <1>0, <1>3, <2>1, <2>3, <2>4, RoomAfter DEF IInv
<1> QED
  BY <1>2, <1>4, <1>5, <1>6, <1>8, <1>9, <1>10, <1>11 DEF IInv, Apart, n

\* A turn of WriteI: the words from the position on are replaced, in one logical
\* block, and the file ends behind them if it ended before.
LEMMA WriteTurnIs ==
    ASSUME IInv, WriteTurn
    PROVE  /\ IInv'
           /\ WriteCount \in 1 .. io.count /\ io.off + WriteCount <= HUGE * PER
           /\ WriteCount <= PER - Pos /\ Lbn \in Logical
           /\ \A f \in Inode, l \in Logical, x \in Index :
                Held(Map', f, l)[x] =
                    IF f = F /\ l = Lbn /\ x \in Pos .. Pos + WriteCount - 1 THEN io.val
                    ELSE Held(Map, f, l)[x]
           /\ size' = [size EXCEPT ![F] = IF @ < io.off + WriteCount THEN io.off + WriteCount ELSE @]
<1> DEFINE n == WriteCount
           b == Bmap(Map, F, Lbn)
           c == [k \in Index |-> IF k \in Pos .. Pos + n - 1 THEN io.val ELSE Held(Map, F, Lbn)[k]]
<1>0. /\ io # NoIO /\ io.op = "write" /\ io.count # 0 /\ ~ TooFar
      /\ io \in Transfer /\ io.of \in OpenFile /\ F \in Inode /\ io.off \in Nat /\ io.count \in Nat
      /\ io.val \in Data /\ Lbn \in Nat
      /\ Pos \in Index /\ size[F] \in Nat /\ io.off = PER * Lbn + Pos
  <2>1. io.op = "write" /\ io.count # 0 /\ ~ TooFar
    BY DEF WriteTurn
  <2>2. io # NoIO
    BY <2>1 DEF NoIO
  <2> QED
    BY <2>1, <2>2, InTransfer DEF IInv
<1>1. /\ Grows(Map, b.map, freed, 3) /\ b.map.top <= NBLK
      /\ b.map.store[b.blk] = Held(Map, F, Lbn)
      /\ b.blk = BlockOf(b.map, F, Lbn) /\ b.blk # 0
      /\ Lbn \in Logical
  BY <1>0, TurnMaps
<1>2. /\ n \in Nat \ {0} /\ n <= PER - Pos /\ n <= io.count
      /\ (n = PER - Pos \/ n = io.count)
  <2> DEFINE o == Pos
             k == io.count
  <2>1. /\ o \in 0 .. PER - 1 /\ k \in Nat /\ k # 0 /\ PER \in Nat
        /\ n = Least(PER - o, k)
    BY <1>0, Shape DEF Index, WriteCount
  <2> HIDE DEF o, k
  <2>2. /\ n \in Nat \ {0} /\ n <= PER - o /\ n <= k
        /\ (n = PER - o \/ n = k)
    BY <2>1 DEF Least
  <2> QED
    BY <2>2 DEF o, k
<1>3. io.off + n <= HUGE * PER
  BY <1>0, <1>2, Counted DEF IInv
<1>4. /\ addr' = b.map.addr /\ top' = b.map.top
      /\ store' = [b.map.store EXCEPT ![b.blk] =
                      [k \in Index |-> IF k \in Pos .. Pos + n - 1 THEN io.val ELSE @[k]]]
      /\ size' = [size EXCEPT ![F] = IF @ < io.off + n THEN io.off + n ELSE @]
      /\ io' = [io EXCEPT !.off = @ + n, !.count = @ - n]
      /\ UNCHANGED <<freed, file, got>>
  BY DEF WriteTurn, WriteCount, SizeAfter
<1> HIDE DEF b, n
<1>5. store' = [b.map.store EXCEPT ![b.blk] = c]
  BY <1>1, <1>4
<1>6. Held(Map, F, Lbn) \in [Index -> Word]
  BY <1>0, <1>1, MapIsSound, HeldType
<1>7. c \in [Index -> Word]
  BY <1>0, <1>6 DEF Word
<1> DEFINE after == [b.map EXCEPT !.store[BlockOf(b.map, F, Lbn)] = c]
<1>8. /\ Map'.addr = addr' /\ Map'.store = store' /\ Map'.top = top' /\ Map' = after
  <2>1. b.map = [addr |-> b.map.addr, store |-> b.map.store, top |-> b.map.top]
    BY <1>1 DEF Grows, Sound, MapType
  <2> HIDE DEF c
  <2>2. after = [addr |-> b.map.addr, store |-> [b.map.store EXCEPT ![b.blk] = c], top |-> b.map.top]
    BY <2>1, <1>1
  <2> QED
    BY <2>2, <1>4, <1>5 DEF Map
<1> HIDE DEF c
<1>9. /\ Sound(after, freed)
      /\ \A g \in Inode, h \in Logical :
           Held(after, g, h) = IF g = F /\ h = Lbn THEN c ELSE Held(b.map, g, h)
  BY <1>0, <1>1, <1>7, WriteKeeps DEF Grows
<1> HIDE DEF after
<1>10. ASSUME NEW f \in Inode, NEW l \in Logical, NEW x \in Index
       PROVE  Held(Map', f, l)[x] =
                    IF f = F /\ l = Lbn /\ x \in Pos .. Pos + n - 1 THEN io.val
                    ELSE Held(Map, f, l)[x]
  <2>1. Held(b.map, f, l) = Held(Map, f, l)
    BY <1>1, HeldSame DEF Grows
  <2>2. Held(Map', f, l) = IF f = F /\ l = Lbn THEN c ELSE Held(Map, f, l)
    BY <2>1, <1>8, <1>9
  <2> QED
    BY <2>2 DEF c
<1>11. Sound(Map', freed')
  BY <1>4, <1>8, <1>9
<1>12. io'.off = io.off + n /\ io'.count = io.count - n /\ io'.op = "write" /\ io' \in Transfer
       /\ io'.of = io.of
  <2>1. io \in [op: {"write"}, of: OpenFile, off: Nat, count: Nat, val: Data]
    BY <1>0 DEF Transfer
  <2>2. io.off + n \in Nat /\ io.count - n \in Nat
    BY <1>0, <1>2
  <2>3. io' = [op |-> io.op, of |-> io.of, off |-> io.off + n, count |-> io.count - n, val |-> io.val]
    BY <2>1, <1>4
  <2> QED
    BY <2>1, <2>2, <2>3 DEF Transfer
<1>13. \A f \in Inode : size'[f] = IF f = F /\ size[F] < io.off + n THEN io.off + n ELSE size[f]
  BY <1>0, <1>4 DEF IInv, TypeOK
<1>14. TypeOK'
  <2>1. size' \in [Inode -> 0 .. HUGE * PER]
    <3>1. io.off + n \in 0 .. HUGE * PER
      BY <1>0, <1>2, <1>3, Sizes, Shape
    <3>2. size \in [Inode -> 0 .. HUGE * PER]
      BY DEF IInv, TypeOK
    <3> HIDE DEF F
    <3> QED
      BY <3>1, <3>2, <1>0, <1>4
  <2>2. /\ addr' \in [Inode -> [Addr -> 0 .. NBLK]] /\ top' \in 0 .. NBLK
        /\ store' \in [Block -> [Index -> Word]] /\ freed' \subseteq Block
    <3>1. /\ Map'.addr \in [Inode -> [Addr -> 0 .. NBLK]] /\ Map'.top \in 0 .. NBLK
          /\ Map'.store \in [Block -> [Index -> Word]] /\ freed' \subseteq Block
      BY <1>11, SoundTypes
    <3> QED
      BY <3>1, <1>8
  <2>3. file' \in [OpenFile -> [inode: Inode, offset: Nat]] /\ got' \in Seq(Word)
    BY <1>4 DEF IInv, TypeOK
  <2> QED
    BY <2>1, <2>2, <2>3, <1>12 DEF TypeOK
<1>15. ZeroBeyond'
  <2> SUFFICES ASSUME NEW f \in Inode, NEW l \in Logical, NEW x \in Index, l * PER + x >= size'[f]
               PROVE  Held(Map', f, l)[x] = 0
    BY DEF ZeroBeyond
  <2>1. ~ (f = F /\ l = Lbn /\ x \in Pos .. Pos + n - 1)
    <3> SUFFICES ASSUME f = F, l = Lbn, x \in Pos .. Pos + n - 1 PROVE FALSE
      OBVIOUS
    <3> DEFINE o == Pos
               s == size[F]
               q == Lbn
               p == io.off
    <3>1. size'[f] >= io.off + n
      BY <1>0, <1>2, <1>13
    <3>2. /\ o \in Nat /\ q \in Nat /\ p = PER * q + o /\ n \in Nat /\ PER \in Nat
          /\ x \in o .. o + n - 1
      BY <1>0, <1>2, Shape DEF Index
    <3>3. q * PER + x >= p + n
      <4>1. size'[f] \in Nat /\ p \in Nat
        BY <1>0, <1>2, <1>13
      <4> QED
        BY <3>1, <3>2, <4>1
    <3> HIDE DEF o, s, q, p
    <3>4. q * PER = PER * q /\ PER * q \in Nat
      BY <3>2
    <3> QED
      BY <3>2, <3>3, <3>4
  <2>2. l * PER + x >= size[f]
    <3>1. size'[f] >= size[f] /\ size[f] \in Nat /\ size'[f] \in Nat
      BY <1>0, <1>2, <1>13, Sizes, Shape DEF IInv, TypeOK
    <3>2. l * PER + x \in Nat
      BY Sizes, Shape DEF Logical, Index
    <3> QED
      BY <3>1, <3>2
  <2>3. Held(Map, f, l)[x] = 0
    BY <2>2 DEF IInv, ZeroBeyond
  <2> QED
    BY <2>1, <2>3, <1>10
<1>16. RoomLeft'
  <2>1. F' = F
    BY <1>4, <1>12 DEF F
  <2>2. SUFFICES ASSUME io'.count # 0
                 PROVE  top' + 3 * ((Pos' + io'.count + (PER - 1)) \div PER) <= NBLK
    BY DEF RoomLeft
  <2>3. n = PER - Pos /\ n < io.count
    BY <1>0, <1>2, <1>12, <2>2
  <2>4. top' \in top .. top + 3
    BY <1>1, <1>4, MapIsSound DEF Grows
  <2> QED
    BY <1>0, <1>4, <2>1, <2>3, <2>4, RoomAfter DEF IInv
<1> QED
  BY <1>1, <1>2, <1>3, <1>4, <1>10, <1>11, <1>14, <1>15, <1>16 DEF IInv, Apart, n

\* The steps that move no blocks keep the maps.
LEMMA SameMap ==
    ASSUME UNCHANGED mapVars
    PROVE  Map' = Map
BY DEF mapVars, Map

LEMMA InitialInvariant ==
    ASSUME Init
    PROVE  IInv
<1>1. TypeOK
  <2>1. 0 \in 0 .. NBLK /\ 0 \in 0 .. HUGE * PER
    BY Shape, Sizes
  <2>2. << >> \in Seq(Word)
    OBVIOUS
  <2>3. file \in [OpenFile -> [inode: Inode, offset: Nat]]
    BY DEF Init
  <2> QED
    BY <2>1, <2>2, <2>3 DEF Init, TypeOK, Word
<1>2. ASSUME NEW f \in Inode, NEW i \in Addr, NEW j, NEW k
      PROVE  Val(Map, f, i, j, k) = 0
  BY DEF Init, Val, Map
<1>3. Apart
  <2> DEFINE own == [b \in Block |-> << >>]
  <2>1. own \in [Block -> Owner]
    BY DEF Owner
  <2>2. freed = {} /\ Map.top = 0
    BY DEF Init, Map
  <2> HIDE DEF own
  <2>3. Owned(Map, own, freed)
    BY <2>1, <2>2, <1>2 DEF Owned
  <2>4. Map \in MapType
    BY <1>1 DEF TypeOK, Map, MapType
  <2> QED
    BY <2>3, <2>4 DEF Apart, Sound
<1>4. ZeroBeyond
  BY <1>2, PathParts DEF ZeroBeyond, Held, Content, Zeros
<1>5. RoomLeft
  BY DEF Init, RoomLeft
<1> QED
  BY <1>1, <1>3, <1>4, <1>5 DEF IInv

\* Open and Seek change a position and nothing else.
LEMMA PositionKeeps ==
    ASSUME IInv, Ready, UNCHANGED <<mapVars, size, freed, io, got>>,
           file' \in [OpenFile -> [inode: Inode, offset: Nat]]
    PROVE  IInv'
<1>1. Map' = Map
  BY SameMap
<1>2. TypeOK'
  BY DEF IInv, TypeOK, mapVars
<1>3. Apart' /\ ZeroBeyond'
  BY <1>1 DEF IInv, Apart, ZeroBeyond
<1>4. RoomLeft'
  BY DEF RoomLeft, Ready
<1> QED
  BY <1>2, <1>3, <1>4 DEF IInv

LEMMA OpenKeeps ==
    ASSUME IInv, NEW d \in OpenFile, NEW f \in Inode, Open(d, f)
    PROVE  IInv' /\ file' \in [OpenFile -> [inode: Inode, offset: Nat]]
<1>1. file' \in [OpenFile -> [inode: Inode, offset: Nat]]
  BY DEF Open, IInv, TypeOK
<1> QED
  BY <1>1, PositionKeeps DEF Open

LEMMA SeekKeeps ==
    ASSUME IInv, NEW d \in OpenFile, NEW o \in Offsets, Seek(d, o)
    PROVE  IInv' /\ file' \in [OpenFile -> [inode: Inode, offset: Nat]]
           /\ file' = [file EXCEPT ![d] = file'[d]]
<1>1. PICK base : base + o \in 0 .. MaxOffset /\ file' = [file EXCEPT ![d].offset = base + o]
  BY DEF Seek
<1>2. base + o \in Nat /\ file \in [OpenFile -> [inode: Inode, offset: Nat]]
  BY <1>1, ShapeAssumption DEF IInv, TypeOK
<1> DEFINE p == base + o
<1> HIDE DEF p
<1>3. file' = [file EXCEPT ![d] = [inode |-> file[d].inode, offset |-> p]]
  <2>1. file' = [file EXCEPT ![d] = [file[d] EXCEPT !.offset = p]]
    BY <1>1 DEF p
  <2>2. [file[d] EXCEPT !.offset = p] = [inode |-> file[d].inode, offset |-> p]
    BY <1>2
  <2> QED
    BY <2>1, <2>2
<1>4. file' \in [OpenFile -> [inode: Inode, offset: Nat]] /\ file' = [file EXCEPT ![d] = file'[d]]
  BY <1>2, <1>3 DEF p
<1> QED
  BY <1>4, PositionKeeps DEF Seek

\* ITrunc leaves the file empty and every other file as it is.
LEMMA TruncIs ==
    ASSUME IInv, NEW f \in Inode, ITrunc(f)
    PROVE  /\ IInv'
           /\ \A g \in Inode, l \in Logical :
                Held(Map', g, l) = IF g = f THEN Zeros ELSE Held(Map, g, l)
<1>1. Map' = [Map EXCEPT !.addr[f] = [i \in Addr |-> 0]]
  BY DEF ITrunc, Map
<1>2. freed' = freed \cup BlocksOf(Map, f)
  BY FreedIs DEF ITrunc
<1>3. /\ Sound(Map', freed')
      /\ \A g \in Inode, l \in Logical :
           Held(Map', g, l) = IF g = f THEN Zeros ELSE Held(Map, g, l)
  BY <1>1, <1>2, TruncateKeeps DEF IInv, Apart
<1>4. TypeOK'
  <2>1. /\ Map'.addr \in [Inode -> [Addr -> 0 .. NBLK]] /\ Map'.top \in 0 .. NBLK
        /\ Map'.store \in [Block -> [Index -> Word]] /\ freed' \subseteq Block
    BY <1>3, SoundTypes
  <2>2. Map'.addr = addr' /\ Map'.top = top' /\ Map'.store = store'
    BY DEF Map
  <2>3. size' \in [Inode -> 0 .. HUGE * PER]
    BY Sizes, Shape DEF ITrunc, IInv, TypeOK
  <2> QED
    BY <2>1, <2>2, <2>3 DEF ITrunc, IInv, TypeOK
<1>5. ZeroBeyond'
  <2> SUFFICES ASSUME NEW g \in Inode, NEW l \in Logical, NEW x \in Index, l * PER + x >= size'[g]
               PROVE  Held(Map', g, l)[x] = 0
    BY DEF ZeroBeyond
  <2>1. g # f => size'[g] = size[g]
    BY DEF ITrunc, IInv, TypeOK
  <2> QED
    BY <2>1, <1>3 DEF IInv, ZeroBeyond, Zeros
<1>6. RoomLeft'
  BY DEF RoomLeft, ITrunc, Ready
<1> QED
  BY <1>3, <1>4, <1>5, <1>6 DEF IInv, Apart

\* The room a call asks for is enough from wherever it begins.
LEMMA RoomAtStart ==
    ASSUME NEW n \in Nat, NEW o \in Index, NEW t \in Nat,
           t + 3 * ((n + 2 * (PER - 1)) \div PER) <= NBLK
    PROVE  t + 3 * ((o + n + (PER - 1)) \div PER) <= NBLK
<1> DEFINE x == o + n + (PER - 1)
           y == n + 2 * (PER - 1)
<1>1. x \in Nat /\ y \in Nat /\ x <= y
  BY Shape DEF Index
<1> HIDE DEF x, y
<1>2. x \div PER \in Nat /\ y \div PER \in Nat /\ x \div PER <= y \div PER
  BY <1>1, Shape, Division, QuotientMonotone
<1>3. t + 3 * (y \div PER) <= NBLK
  BY DEF y
<1>4. t + 3 * (x \div PER) <= NBLK
  BY <1>2, <1>3, Shape
<1> QED
  BY <1>4 DEF x

LEMMA BeginKeeps ==
    ASSUME IInv, NEW n \in Counts, Room(n), io' \in Transfer, io'.count = n,
           UNCHANGED <<mapVars, size, freed, file, got>>
    PROVE  IInv'
<1>1. Map' = Map
  BY SameMap
<1>2. TypeOK'
  BY DEF IInv, TypeOK, mapVars
<1>3. Apart' /\ ZeroBeyond'
  BY <1>1 DEF IInv, Apart, ZeroBeyond
<1>4. RoomLeft'
  <2>1. io'.off \in Nat /\ n \in Nat
    BY ShapeAssumption DEF Transfer
  <2>2. Pos' \in Index
    BY <2>1, Shape, Division DEF Pos, Index
  <2>3. top \in Nat /\ top' = top
    BY Shape DEF IInv, TypeOK, mapVars
  <2>4. top' + 3 * ((Pos' + io'.count + (PER - 1)) \div PER) <= NBLK
    BY <2>1, <2>2, <2>3, RoomAtStart DEF Room
  <2> QED
    BY <2>4 DEF RoomLeft
<1> QED
  BY <1>2, <1>3, <1>4 DEF IInv

LEMMA BeginReadKeeps ==
    ASSUME IInv, NEW d \in OpenFile, NEW n \in Counts, BeginRead(d, n)
    PROVE  IInv' /\ io' \in Transfer
<1>1. io' \in Transfer /\ io'.count = n
  BY ShapeAssumption DEF BeginRead, IInv, TypeOK, Transfer
<1> QED
  BY <1>1, BeginKeeps DEF BeginRead

LEMMA BeginWriteKeeps ==
    ASSUME IInv, NEW d \in OpenFile, NEW n \in Counts, NEW v \in Data, BeginWrite(d, n, v)
    PROVE  IInv' /\ io' \in Transfer
<1>1. io' \in Transfer /\ io'.count = n
  BY ShapeAssumption DEF BeginWrite, IInv, TypeOK, Transfer
<1> QED
  BY <1>1, BeginKeeps DEF BeginWrite

LEMMA EndKeeps ==
    ASSUME IInv, io # NoIO, EndRead
    PROVE  IInv'
<1>1. Map' = Map /\ UNCHANGED <<mapVars, size, freed>> /\ io' = NoIO /\ got' = << >>
  BY SameMap DEF EndRead
<1>2. file' \in [OpenFile -> [inode: Inode, offset: Nat]]
  <2>1. io.of \in OpenFile /\ io.off \in Nat /\ file \in [OpenFile -> [inode: Inode, offset: Nat]]
    BY InTransfer DEF IInv, TypeOK
  <2> QED
    BY <2>1 DEF EndRead
<1>3. TypeOK'
  BY <1>1, <1>2 DEF IInv, TypeOK, mapVars
<1>4. Apart' /\ ZeroBeyond'
  BY <1>1 DEF IInv, Apart, ZeroBeyond
<1>5. RoomLeft'
  BY <1>1 DEF RoomLeft
<1> QED
  BY <1>3, <1>4, <1>5 DEF IInv

LEMMA StutterKeeps ==
    ASSUME IInv, UNCHANGED vars
    PROVE  IInv'
<1>1. Map' = Map /\ UNCHANGED <<addr, store, top, size, freed, file, io, got>>
  BY SameMap DEF vars, mapVars
<1>2. TypeOK' /\ Apart' /\ ZeroBeyond'
  BY <1>1 DEF IInv, TypeOK, Apart, ZeroBeyond
<1>3. RoomLeft'
  BY <1>1 DEF IInv, RoomLeft, F, Pos
<1> QED
  BY <1>2, <1>3 DEF IInv

\* Every step keeps the invariant.
LEMMA StepInvariant ==
    ASSUME IInv, [Next]_vars
    PROVE  IInv'
<1>1. CASE \E d \in OpenFile : \E f \in Inode : Open(d, f)
  BY <1>1, OpenKeeps
<1>2. CASE \E d \in OpenFile : \E o \in Offsets : Seek(d, o)
  BY <1>2, SeekKeeps
<1>3. CASE \E d \in OpenFile : \E n \in Counts : BeginRead(d, n)
  BY <1>3, BeginReadKeeps
<1>4. CASE \E d \in OpenFile : \E n \in Counts, v \in Data : BeginWrite(d, n, v)
  BY <1>4, BeginWriteKeeps
<1>5. CASE \E f \in Inode : ITrunc(f)
  BY <1>5, TruncIs
<1>6. CASE ReadTurn
  BY <1>6, ReadTurnIs
<1>7. CASE WriteTurn
  BY <1>7, WriteTurnIs
<1>8. CASE ReadEnd \/ WriteEnd
  BY <1>8, EndKeeps DEF ReadEnd, WriteEnd, NoIO
<1>9. CASE UNCHANGED vars
  BY <1>9, StutterKeeps
<1> QED
  BY <1>1, <1>2, <1>3, <1>4, <1>5, <1>6, <1>7, <1>8, <1>9 DEF Next, Turn

-----------------------------------------------------------------------------
(* The theorems about blocks.                                              *)

\* Append, written out.
LEMMA AppendToOne ==
    ASSUME NEW a, NEW b
    PROVE  Append(<<a>>, b) = <<a, b>>
<1> DEFINE S == {a, b}
           s == Append(<<a>>, b)
           t == <<a, b>>
<1>1. <<a>> \in Seq(S) /\ t \in Seq(S) /\ Len(t) = 2 /\ t[1] = a /\ t[2] = b
  OBVIOUS
<1>2. s \in Seq(S) /\ Len(s) = 2 /\ s[1] = a /\ s[2] = b
  BY <1>1
<1> HIDE DEF s, t
<1>3. \A i \in 1 .. Len(s) : s[i] = t[i]
  BY <1>1, <1>2
<1>4. s = t
  BY <1>1, <1>2, <1>3, SeqEqual
<1> QED
  BY <1>4 DEF s, t

LEMMA AppendToTwo ==
    ASSUME NEW a, NEW b, NEW c
    PROVE  Append(<<a, b>>, c) = <<a, b, c>>
<1> DEFINE S == {a, b, c}
           s == Append(<<a, b>>, c)
           t == <<a, b, c>>
<1>1. <<a, b>> \in Seq(S) /\ t \in Seq(S) /\ Len(t) = 3 /\ t[1] = a /\ t[2] = b /\ t[3] = c
  OBVIOUS
<1>2. s \in Seq(S) /\ Len(s) = 3 /\ s[1] = a /\ s[2] = b /\ s[3] = c
  BY <1>1
<1> HIDE DEF s, t
<1>3. \A i \in 1 .. Len(s) : s[i] = t[i]
  BY <1>1, <1>2
<1>4. s = t
  BY <1>1, <1>2, <1>3, SeqEqual
<1> QED
  BY <1>4 DEF s, t

\* What OnePlace and NoneLost call in use are the places with a block.
LEMMA PlaceIsUsed ==
    ASSUME NEW f \in Inode, NEW i \in Addr, NEW j \in Optional, NEW k \in Optional,
           Val(Map, f, i, j, k) # 0
    PROVE  <<f, PathOf(i, j, k), Val(Map, f, i, j, k)>> \in InUse
<1> DEFINE n == <<f, PathOf(i, j, k), Val(Map, f, i, j, k)>>
<1>0. n[3] # 0 /\ (n \in Names(f) => n \in InUse)
  BY DEF InUse
<1>1. CASE j = PER
  <2>1. k = PER
    BY <1>1, NoValue
  <2>2. n = <<f, <<i>>, addr[f][i]>>
    BY <1>1, <2>1 DEF PathOf, Val, Map
  <2> QED
    BY <1>0, <2>2 DEF Names
<1>2. CASE j # PER /\ k = PER
  <2>0. j \in Index
    BY <1>2, SomeIndex
  <2>1. /\ Val(Map, f, i, j, k) = store[addr[f][i]][j] /\ addr[f][i] # 0 /\ i >= DIRECT
    <3>1. Val(Map, f, i, j, PER) # 0 /\ Val(Map, f, i, j, PER) = Val(Map, f, i, j, k)
      BY <1>2
    <3>2. Val(Map, f, i, j, PER) =
            IF addr[f][i] = 0 \/ i < DIRECT THEN 0 ELSE store[addr[f][i]][j]
      BY <2>0, PlaceValues, Shape
    <3> QED
      BY <3>1, <3>2, Shape DEF Addr
  <2>2. <<i>> \in Tables(f)
    BY <2>1 DEF Tables
  <2>3. TableAt(f, <<i>>) = addr[f][i] /\ Append(<<i>>, j) = <<i, j>>
    BY AppendToOne DEF TableAt
  <2>4. n = <<f, Append(<<i>>, j), store[TableAt(f, <<i>>)][j]>>
    BY <1>2, <2>1, <2>3 DEF PathOf
  <2> HIDE DEF n
  <2>5. \E t \in Tables(f), x \in Index : n = <<f, Append(t, x), store[TableAt(f, t)][x]>>
    BY <2>0, <2>2, <2>4, Zenon
  <2>7. n \in Names(f)
    BY <2>5 DEF Names
  <2> QED
    BY <1>0, <2>7 DEF n
<1>3. CASE j # PER /\ k # PER
  <2>0. j \in Index /\ k \in Index
    BY <1>3, SomeIndex
  <2>1. /\ Val(Map, f, i, j, PER) # 0 /\ i >= DIRECT + SINGLE
        /\ Val(Map, f, i, j, k) = store[Val(Map, f, i, j, PER)][k]
    BY <2>0, PlaceValues, Shape DEF Addr
  <2>2. Val(Map, f, i, j, PER) = store[addr[f][i]][j] /\ addr[f][i] # 0
    BY <2>0, <2>1, PlaceValues
  <2>3. <<i, j>> \in Tables(f)
    BY <2>0, <2>1, <2>2, Shape DEF Tables, Doubles, Addr
  <2>4. TableAt(f, <<i, j>>) = store[addr[f][i]][j] /\ Append(<<i, j>>, k) = <<i, j, k>>
    BY AppendToTwo DEF TableAt
  <2>5. n = <<f, Append(<<i, j>>, k), store[TableAt(f, <<i, j>>)][k]>>
    BY <1>3, <2>1, <2>2, <2>4 DEF PathOf
  <2> HIDE DEF n
  <2>6. \E t \in Tables(f), x \in Index : n = <<f, Append(t, x), store[TableAt(f, t)][x]>>
    BY <2>0, <2>3, <2>5, Zenon
  <2>7. n \in Names(f)
    BY <2>6 DEF Names
  <2> QED
    BY <1>0, <2>7 DEF n
<1> QED
  BY <1>1, <1>2, <1>3

LEMMA UsedHasPlace ==
    ASSUME NEW n \in InUse
    PROVE  \E f \in Inode, i \in Addr, j, k \in Optional :
               Val(Map, f, i, j, k) # 0 /\ n = <<f, PathOf(i, j, k), Val(Map, f, i, j, k)>>
<1>0. PICK f \in Inode : n \in Names(f) /\ n[3] # 0
  BY DEF InUse
<1>1. CASE n \in {<<f, <<i>>, addr[f][i]>> : i \in Addr}
  <2>1. PICK i \in Addr : n = <<f, <<i>>, addr[f][i]>>
    BY <1>1
  <2>2. /\ Val(Map, f, i, PER, PER) = addr[f][i] /\ PathOf(i, PER, PER) = <<i>>
        /\ addr[f][i] # 0
    BY <1>0, <2>1 DEF Val, Map, PathOf
  <2> QED
    BY <2>1, <2>2, Shape
<1>2. CASE n \in {<<f, Append(t, k), store[TableAt(f, t)][k]>> : t \in Tables(f), k \in Index}
  <2>1. PICK t \in Tables(f), k \in Index : n = <<f, Append(t, k), store[TableAt(f, t)][k]>>
    BY <1>2
  <2>2. CASE \E i \in Addr : i >= DIRECT /\ addr[f][i] # 0 /\ t = <<i>>
    <3>1. PICK i \in Addr : i >= DIRECT /\ addr[f][i] # 0 /\ t = <<i>>
      BY <2>2
    <3>2. TableAt(f, t) = addr[f][i] /\ Append(t, k) = <<i, k>>
      BY <3>1, AppendToOne DEF TableAt
    <3>3. Val(Map, f, i, k, PER) = store[addr[f][i]][k]
      BY <3>1, PlaceValues, Shape DEF Addr
    <3>4. PathOf(i, k, PER) = <<i, k>> /\ k \in Optional /\ PER \in Optional
      BY Shape DEF PathOf
    <3> QED
      BY <1>0, <2>1, <3>2, <3>3, <3>4
  <2>3. CASE /\ t \in Doubles \X Index
             /\ addr[f][t[1]] # 0 /\ store[addr[f][t[1]]][t[2]] # 0
    <3>1. PICK i \in Doubles, j \in Index : t = <<i, j>>
      BY <2>3
    <3>2. i \in Addr /\ i >= DIRECT + SINGLE /\ ~ i < DIRECT
      BY <3>1, Shape DEF Doubles, Addr
    <3>3. addr[f][i] # 0 /\ store[addr[f][i]][j] # 0
      BY <2>3, <3>1
    <3>4. TableAt(f, t) = store[addr[f][i]][j] /\ Append(t, k) = <<i, j, k>>
      BY <3>1, AppendToTwo DEF TableAt
    <3>5. Val(Map, f, i, j, PER) = store[addr[f][i]][j]
      BY <3>2, <3>3, PlaceValues
    <3>6. Val(Map, f, i, j, k) = store[store[addr[f][i]][j]][k]
      BY <3>2, <3>3, <3>5, PlaceValues, Shape DEF Addr
    <3>7. PathOf(i, j, k) = <<i, j, k>> /\ j \in Optional /\ k \in Optional
      BY Shape DEF PathOf
    <3> QED
      BY <1>0, <2>1, <3>2, <3>4, <3>6, <3>7
  <2> QED
    BY <2>2, <2>3 DEF Tables
<1> QED
  BY <1>0, <1>1, <1>2 DEF Names

LEMMA PlacesApart == IInv => OnePlace
<1> SUFFICES ASSUME IInv, NEW m \in InUse, NEW n \in InUse, m[3] = n[3] PROVE m = n
  BY DEF OnePlace
<1>1. PICK own : Owned(Map, own, freed) /\ Map \in MapType
  BY DEF IInv, Apart, Sound
<1>2. PICK f \in Inode, i \in Addr, j \in Optional, k \in Optional :
          Val(Map, f, i, j, k) # 0 /\ m = <<f, PathOf(i, j, k), Val(Map, f, i, j, k)>>
  BY UsedHasPlace
<1>3. PICK g \in Inode, x \in Addr, y \in Optional, z \in Optional :
          Val(Map, g, x, y, z) # 0 /\ n = <<g, PathOf(x, y, z), Val(Map, g, x, y, z)>>
  BY UsedHasPlace
<1>4. Val(Map, f, i, j, k) = Val(Map, g, x, y, z)
  BY <1>2, <1>3
<1>5. f = g /\ i = x /\ j = y /\ k = z
  BY <1>1, <1>2, <1>4, ValApart
<1> QED
  BY <1>2, <1>3, <1>5

LEMMA BlocksKept == IInv => NoneLost
<1> SUFFICES ASSUME IInv PROVE NoneLost
  OBVIOUS
<1>1. PICK own : Owned(Map, own, freed) /\ Map.top = top
  BY DEF IInv, Apart, Sound, Map
<1>2. ASSUME NEW n \in InUse PROVE n[3] \in 1 .. top \ freed
  <2>1. PICK f \in Inode, i \in Addr, j \in Optional, k \in Optional :
            Val(Map, f, i, j, k) # 0 /\ n = <<f, PathOf(i, j, k), Val(Map, f, i, j, k)>>
    BY UsedHasPlace
  <2>2. Val(Map, f, i, j, k) \in 1 .. top \ freed
    BY <1>1, <2>1 DEF Owned
  <2> QED
    BY <2>1, <2>2
<1>3. ASSUME NEW b \in 1 .. top \ freed PROVE \E n \in InUse : n[3] = b
  <2>1. PICK f \in Inode, i \in Addr, j \in Optional, k \in Optional : Val(Map, f, i, j, k) = b
    BY <1>1 DEF Owned
  <2>2. b # 0
    BY Shape DEF IInv, TypeOK
  <2>3. <<f, PathOf(i, j, k), b>> \in InUse
    BY <2>1, <2>2, PlaceIsUsed
  <2> QED
    BY <2>3
<1> QED
  BY <1>2, <1>3 DEF NoneLost

\* The inductive invariant, for every number of direct numbers and of tables, every
\* length of a block and of the transfers.
THEOREM BlocksInvariant == Spec => []IInv
<1>1. IInv /\ [Next]_vars => IInv'
  BY StepInvariant
<1> QED
  BY <1>1, InitialInvariant, PTL DEF Spec

\* What i_addr and the tables name are blocks, a file is never longer than Bmap
\* reaches, and a call in progress has its count left: ReadI, WriteI and Bmap
\* (INode.cpp:75-380) leave their domain nowhere.
THEOREM BlocksTypeCorrect == Spec => []TypeOK
<1>1. IInv => TypeOK
  BY DEF IInv
<1> QED
  BY <1>1, BlocksInvariant, PTL

\* A block is at one place of one file, whatever was written where, read from holes
\* or truncated: the ways that Bmap (INode.cpp:307-371) takes never meet.
THEOREM BlocksApart == Spec => []OnePlace
BY PlacesApart, BlocksInvariant, PTL

\* ITrunc (INode.cpp:536-582) gives back each block that Bmap took, of all three
\* levels, and Bmap loses none: in a file or freed, and not both.
THEOREM NoBlockLost == Spec => []NoneLost
BY BlocksKept, BlocksInvariant, PTL

-----------------------------------------------------------------------------
(* Files hold what was written.                                            *)

\* The words of file f where map m and sizes s put them.
TextOf(m, s, f) ==
    [p \in 1 .. s[f] |-> Held(m, f, (p - 1) \div PER)[(p - 1) % PER]]

FileText == [f \in Inode |-> Text(f)]

\* A position of a file lies in a logical block that Bmap reaches.
LEMMA PositionInBlock ==
    ASSUME NEW p \in 1 .. HUGE * PER
    PROVE  /\ (p - 1) \div PER \in Logical /\ (p - 1) % PER \in Index
           /\ p - 1 = ((p - 1) \div PER) * PER + ((p - 1) % PER)
<1>0. HUGE * PER \in Nat /\ HUGE \in Nat
  BY Sizes, Shape
<1> DEFINE q == p - 1
<1>1. q \in Nat /\ q \in 0 .. PER * HUGE - 1
  BY <1>0, Shape
<1> HIDE DEF q
<1>2. /\ q \div PER \in Nat /\ q % PER \in 0 .. PER - 1
      /\ q = PER * (q \div PER) + (q % PER)
  BY <1>1, Shape, Division
<1>3. q \div PER \in 0 .. HUGE - 1
  BY <1>0, <1>1, Shape, QuotientBound
<1>4. PER * (q \div PER) = (q \div PER) * PER
  BY <1>2, Shape
<1> QED
  BY <1>2, <1>3, <1>4 DEF q, Logical, Index

TextsPlaced ==
    \A f \in Inode : Text(f) = TextOf(Map, size, f) /\ size[f] \in 0 .. HUGE * PER

LEMMA TextIs == IInv => TextsPlaced
<1> SUFFICES ASSUME IInv, NEW f \in Inode
             PROVE  Text(f) = TextOf(Map, size, f) /\ size[f] \in 0 .. HUGE * PER
  BY DEF TextsPlaced
<1>0. size[f] \in 0 .. HUGE * PER /\ HUGE * PER \in Nat
  BY Sizes, Shape DEF IInv, TypeOK
<1>1. ASSUME NEW p \in 1 .. size[f]
      PROVE  (LET b == BlockAt(f, (p - 1) \div PER)
              IN  IF b = 0 THEN 0 ELSE store[b][(p - 1) % PER])
             = Held(Map, f, (p - 1) \div PER)[(p - 1) % PER]
  <2> DEFINE l == (p - 1) \div PER
             x == (p - 1) % PER
  <2>1. l \in Logical /\ x \in Index
    BY <1>0, PositionInBlock
  <2> HIDE DEF l, x
  <2>2. BlockAt(f, l) = Val(Map, f, First(l), Second(l), Third(l))
    BY <2>1, BlockAtIs DEF BlockOf
  <2>3. (IF BlockAt(f, l) = 0 THEN 0 ELSE store[BlockAt(f, l)][x]) = Held(Map, f, l)[x]
    BY <2>1, <2>2 DEF Held, Content, Zeros, Map
  <2> QED
    BY <2>3 DEF l, x
<1> QED
  BY <1>0, <1>1, Zenon DEF Text, TextOf

LEMMA TextIsNext ==
    IInv' => \A f \in Inode : /\ Text(f)' = TextOf(Map', size', f)
                              /\ size'[f] \in 0 .. HUGE * PER
<1>1. IInv' => TextsPlaced'
  BY TextIs, PTL
<1> QED
  BY <1>1 DEF TextsPlaced

\* Texts are sequences.
LEMMA TextSequence ==
    ASSUME IInv, NEW f \in Inode
    PROVE  /\ FileText[f] = TextOf(Map, size, f)
           /\ Text(f) \in Seq(Word) /\ Len(Text(f)) = size[f]
           /\ \A p \in 1 .. size[f] :
                Text(f)[p] = Held(Map, f, (p - 1) \div PER)[(p - 1) % PER]
<1>0. Text(f) = TextOf(Map, size, f) /\ size[f] \in 0 .. HUGE * PER /\ HUGE * PER \in Nat
  BY TextIs, Sizes, Shape DEF TextsPlaced
<1>1. ASSUME NEW p \in 1 .. size[f]
      PROVE  Held(Map, f, (p - 1) \div PER)[(p - 1) % PER] \in Word
  <2>1. (p - 1) \div PER \in Logical /\ (p - 1) % PER \in Index
    BY <1>0, PositionInBlock
  <2> QED
    BY <2>1, MapIsSound, HeldType
<1>2. TextOf(Map, size, f) \in [1 .. size[f] -> Word]
  BY <1>1 DEF TextOf
<1>3. TextOf(Map, size, f) \in Seq(Word) /\ Len(TextOf(Map, size, f)) = size[f]
  BY <1>0, <1>2
<1> QED
  BY <1>0, <1>3 DEF FileText, TextOf

\* What does not change the content of blocks, or sizes, does not change texts.
LEMMA TextSame ==
    ASSUME IInv, IInv', UNCHANGED size,
           \A f \in Inode, l \in Logical : Held(Map', f, l) = Held(Map, f, l)
    PROVE  FileText' = FileText
<1>1. ASSUME NEW f \in Inode PROVE Text(f)' = Text(f)
  <2>1. /\ Text(f) = TextOf(Map, size, f) /\ Text(f)' = TextOf(Map', size, f)
        /\ size[f] \in 0 .. HUGE * PER /\ HUGE * PER \in Nat
    BY TextIs, TextIsNext, Sizes, Shape DEF TextsPlaced
  <2>2. ASSUME NEW p \in 1 .. size[f]
        PROVE  Held(Map', f, (p - 1) \div PER) = Held(Map, f, (p - 1) \div PER)
    BY <2>1, PositionInBlock
  <2>3. TextOf(Map', size, f) = TextOf(Map, size, f)
    BY <2>2, Zenon DEF TextOf
  <2> QED
    BY <2>1, <2>3
<1> QED
  BY <1>1 DEF FileText

LEMMA TextStill ==
    ASSUME UNCHANGED <<mapVars, size>>
    PROVE  FileText' = FileText
BY DEF FileText, Text, BlockAt, mapVars

\* A turn of a read delivers the words from the position on.
LEMMA ReadIsRead ==
    ASSUME IInv, ReadTurn
    PROVE  Flat!Read
<1> DEFINE n == ReadCount
           held == Held(Map, F, Lbn)
<1>1. /\ IInv' /\ n \in 1 .. io.count /\ io.off + n <= size[F]
      /\ \A f \in Inode, l \in Logical : Held(Map', f, l) = Held(Map, f, l)
      /\ got' = got \o [k \in 1 .. n |-> held[Pos + k - 1]]
  BY ReadTurnIs
<1>2. /\ io # NoIO /\ io.op = "read" /\ io.count # 0 /\ ~ TooFar
      /\ io' = [io EXCEPT !.off = @ + n, !.count = @ - n]
      /\ UNCHANGED <<size, file>>
  BY DEF ReadTurn, ReadCount, NoIO
<1>3. /\ io.off \in Nat /\ io.count \in Nat /\ F \in Inode /\ size[F] \in Nat /\ n \in Nat \ {0}
      /\ Pos \in Index /\ n <= PER - Pos
  <2>1. /\ io.off \in Nat /\ io.count \in Nat /\ F \in Inode /\ size[F] \in Nat /\ Pos \in Index
    BY <1>2, InTransfer DEF IInv
  <2>2. n \in Nat \ {0}
    BY <1>1, <2>1
  <2>3. PER - Pos \in Nat /\ size[F] - io.off \in Int
    BY <2>1, Shape DEF Index
  <2>4. n <= PER - Pos
    <3> DEFINE a == PER - Pos
               c == size[F] - io.off
               d == io.count
    <3>1. a \in Nat /\ c \in Int /\ d \in Nat /\ n = Least(Least(a, d), c)
      BY <2>1, <2>3 DEF ReadCount
    <3> HIDE DEF a, c, d, n
    <3>2. n <= a
      BY <3>1 DEF Least
    <3> QED
      BY <3>2 DEF a
  <2> QED
    BY <2>1, <2>2, <2>4
<1> HIDE DEF n
<1>4. \A k \in 1 .. n :
        /\ Pos + k - 1 \in Index
        /\ (io.off + k - 1) \div PER = Lbn /\ (io.off + k - 1) % PER = Pos + k - 1
  <2>1. n <= io.count
    BY <1>1, <1>3
  <2> QED
    BY <1>2, <1>3, <2>1, Counted DEF IInv
<1> DEFINE s == Text(F)
           piece == SubSeq(s, io.off + 1, io.off + n)
           words == [k \in 1 .. n |-> held[Pos + k - 1]]
<1>5. /\ s \in Seq(Word) /\ Len(s) = size[F]
      /\ \A p \in 1 .. size[F] : s[p] = Held(Map, F, (p - 1) \div PER)[(p - 1) % PER]
  BY <1>3, TextSequence
<1>6. ASSUME NEW k \in 1 .. n
      PROVE  io.off + k \in 1 .. size[F] /\ s[io.off + k] = words[k] /\ words[k] \in Word
  <2>1. io.off + k \in 1 .. size[F] /\ (io.off + k) - 1 = io.off + k - 1
    BY <1>1, <1>3
  <2>2. s[io.off + k] = Held(Map, F, (io.off + k - 1) \div PER)[(io.off + k - 1) % PER]
    BY <1>5, <2>1
  <2>3. s[io.off + k] = words[k]
    BY <1>4, <2>2
  <2> QED
    BY <1>5, <2>1, <2>3
<1> HIDE DEF s, words
<1>7. piece = words
  <2>1. \A p \in io.off + 1 .. io.off + n : s[p] \in Word
    BY <1>1, <1>3, <1>5
  <2>2. io.off + 1 \in Int /\ io.off + n \in Int /\ io.off + 1 <= io.off + n
        /\ (io.off + n) - (io.off + 1) + 1 = n
    BY <1>3
  <2>3. /\ piece \in Seq(Word) /\ Len(piece) = n
        /\ \A k \in 1 .. n : piece[k] = s[(io.off + 1) + k - 1]
    BY <2>1, <2>2, SubSeqProperties
  <2>4. \A k \in 1 .. n : piece[k] = words[k]
    <3> SUFFICES ASSUME NEW k \in 1 .. n PROVE piece[k] = words[k]
      OBVIOUS
    <3>1. (io.off + 1) + k - 1 = io.off + k
      BY <1>3
    <3> HIDE DEF piece
    <3> QED
      BY <2>3, <3>1, <1>6
  <2>5. words \in Seq(Word) /\ Len(words) = n
    <3>1. words \in [1 .. n -> Word]
      BY <1>6 DEF words
    <3> QED
      BY <1>3, <3>1
  <2> HIDE DEF piece
  <2> QED
    BY <2>3, <2>4, <2>5, SeqEqual
<1>8. FileText' = FileText
  BY <1>1, <1>2, TextSame
<1>9. Flat!F = F /\ FileText[F] = s
  BY <1>3 DEF Flat!F, F, FileText, s
<1>10. /\ n \in 1 .. io.count /\ io.off + n <= Len(FileText[Flat!F])
       /\ got' = got \o SubSeq(FileText[Flat!F], io.off + 1, io.off + n)
       /\ Flat!Moved(n)
  BY <1>1, <1>2, <1>5, <1>7, <1>9 DEF words, Flat!Moved
<1> HIDE DEF piece
<1>11. \E m \in 1 .. io.count :
         /\ io.off + m <= Len(FileText[Flat!F])
         /\ got' = got \o SubSeq(FileText[Flat!F], io.off + 1, io.off + m)
         /\ Flat!Moved(m)
  BY <1>10
<1> QED
  BY <1>2, <1>8, <1>11 DEF Flat!Read, FileText

\* A turn of a write replaces the words from the position on, and fills with zeros
\* what lies between the end of the file and there.
LEMMA WriteIsWrite ==
    ASSUME IInv, WriteTurn
    PROVE  Flat!Write
<1> DEFINE n == WriteCount
           new == TextOf(Map', size', F)
           over == Flat!Overlaid(Text(F), io.off, n, io.val)
<1>1. /\ IInv' /\ n \in 1 .. io.count /\ io.off + n <= HUGE * PER /\ n <= PER - Pos
      /\ Lbn \in Logical
      /\ \A f \in Inode, l \in Logical, x \in Index :
           Held(Map', f, l)[x] =
               IF f = F /\ l = Lbn /\ x \in Pos .. Pos + n - 1 THEN io.val
               ELSE Held(Map, f, l)[x]
      /\ size' = [size EXCEPT ![F] = IF @ < io.off + n THEN io.off + n ELSE @]
  BY WriteTurnIs
<1>2. /\ io # NoIO /\ io.op = "write" /\ io.count # 0
      /\ io' = [io EXCEPT !.off = @ + n, !.count = @ - n]
      /\ UNCHANGED <<file, got>>
  BY DEF WriteTurn, WriteCount, NoIO
<1>3. /\ io.off \in Nat /\ io.count \in Nat /\ F \in Inode /\ size[F] \in Nat
      /\ Pos \in Index /\ Lbn \in Nat /\ io.off = PER * Lbn + Pos
      /\ size \in [Inode -> 0 .. HUGE * PER] /\ HUGE * PER \in Nat
  <2>1. HUGE * PER \in Nat /\ size \in [Inode -> 0 .. HUGE * PER]
    BY Sizes, Shape DEF IInv, TypeOK
  <2> QED
    BY <1>2, <2>1, InTransfer DEF IInv
<1>4. n \in Nat \ {0} /\ io.off + n \in Nat
  BY <1>1, <1>3
<1> HIDE DEF n
<1>5. /\ Text(F) \in Seq(Word) /\ Len(Text(F)) = size[F]
      /\ \A p \in 1 .. size[F] : Text(F)[p] = Held(Map, F, (p - 1) \div PER)[(p - 1) % PER]
  BY <1>3, TextSequence
<1>6. /\ size'[F] = IF size[F] < io.off + n THEN io.off + n ELSE size[F]
      /\ size'[F] \in 0 .. HUGE * PER
      /\ \A f \in Inode : f # F => size'[f] = size[f]
  BY <1>1, <1>3, <1>4
\* The word at a position is written by this turn just if its block and its index are.
<1>7. ASSUME NEW p \in 1 .. size'[F]
      PROVE  Held(Map', F, (p - 1) \div PER)[(p - 1) % PER] =
                 IF p \in io.off + 1 .. io.off + n THEN io.val
                 ELSE IF p <= size[F] THEN Text(F)[p] ELSE 0
  <2> DEFINE l == (p - 1) \div PER
             x == (p - 1) % PER
  <2>1. l \in Logical /\ x \in Index /\ p - 1 = l * PER + x /\ p \in Nat
    BY <1>3, <1>6, PositionInBlock
  <2> HIDE DEF l, x
  <2>2. Held(Map', F, l)[x] =
            IF l = Lbn /\ x \in Pos .. Pos + n - 1 THEN io.val ELSE Held(Map, F, l)[x]
    BY <1>1, <1>3, <2>1
  <2>3. p \in io.off + 1 .. io.off + n <=> l = Lbn /\ x \in Pos .. Pos + n - 1
    <3> DEFINE q == Lbn
               o == Pos
    <3>0. /\ q \in Nat /\ o \in 0 .. PER - 1 /\ l \in Nat /\ x \in 0 .. PER - 1
          /\ io.off = q * PER + o /\ n <= PER - o /\ PER \in Nat \ {0}
          /\ q * PER \in Nat /\ l * PER \in Nat
      <4>1. PER * Lbn = Lbn * PER /\ Lbn * PER \in Nat
        BY <1>3, Shape
      <4>2. l \in Nat /\ l * PER \in Nat
        BY <2>1, Sizes, Shape DEF Logical
      <4> QED
        BY <1>1, <1>3, <2>1, <4>1, <4>2, Shape DEF Index
    <3> HIDE DEF q, o
    <3>1. ASSUME l = q, x \in o .. o + n - 1 PROVE p \in io.off + 1 .. io.off + n
      BY <1>3, <1>4, <2>1, <3>0, <3>1
    <3>2. ASSUME p \in io.off + 1 .. io.off + n PROVE l = q /\ x \in o .. o + n - 1
      <4> DEFINE y == o + (p - 1 - io.off)
      <4>1. y \in 0 .. PER - 1 /\ y \in o .. o + n - 1 /\ l * PER + x = q * PER + y
        BY <1>3, <1>4, <2>1, <3>0, <3>2
      <4> HIDE DEF y
      <4>2. l = q /\ x = y
        BY <3>0, <4>1, Digits
      <4> QED
        BY <4>1, <4>2
    <3>3. p \in io.off + 1 .. io.off + n <=> l = q /\ x \in o .. o + n - 1
      BY <3>1, <3>2
    <3> QED
      BY <3>3 DEF q, o
  <2>4. p <= size[F] => Text(F)[p] = Held(Map, F, l)[x]
    <3>1. p <= size[F] => p \in 1 .. size[F]
      BY <1>3, <1>6
    <3> QED
      BY <3>1, <1>5 DEF l, x
  <2>5. ~ p <= size[F] => Held(Map, F, l)[x] = 0
    <3>1. ~ p <= size[F] => l * PER + x >= size[F]
      BY <1>3, <2>1
    <3> QED
      BY <3>1, <2>1, <1>3 DEF IInv, ZeroBeyond
  <2>6. Held(Map', F, l)[x] =
            IF p \in io.off + 1 .. io.off + n THEN io.val
            ELSE IF p <= size[F] THEN Text(F)[p] ELSE 0
    BY <2>2, <2>3, <2>4, <2>5
  <2> QED
    BY <2>6 DEF l, x
<1>8. new = over
  <2> DEFINE at(p) == IF p \in io.off + 1 .. io.off + n THEN io.val
                      ELSE IF p <= size[F] THEN Text(F)[p] ELSE 0
  <2>1. new = [p \in 1 .. size'[F] |-> at(p)]
    <3>1. \A p \in 1 .. size'[F] : Held(Map', F, (p - 1) \div PER)[(p - 1) % PER] = at(p)
      BY <1>7
    <3> HIDE DEF at
    <3> QED
      BY <3>1, Zenon DEF TextOf
  <2>2. over = [p \in 1 .. size'[F] |-> at(p)]
    BY <1>5, <1>6 DEF Flat!Overlaid
  <2> HIDE DEF new, over, at
  <2> QED
    BY <2>1, <2>2
<1>9. FileText' = [FileText EXCEPT ![F] = over]
  <2>1. ASSUME NEW f \in Inode, f # F PROVE Text(f)' = Text(f)
    <3>1. /\ Text(f) = TextOf(Map, size, f) /\ Text(f)' = TextOf(Map', size', f)
          /\ size'[f] = size[f] /\ size[f] \in 0 .. HUGE * PER
      BY <1>1, <1>6, <2>1, TextIs, TextIsNext DEF TextsPlaced
    <3>2. ASSUME NEW p \in 1 .. size[f]
          PROVE  Held(Map', f, (p - 1) \div PER)[(p - 1) % PER]
                 = Held(Map, f, (p - 1) \div PER)[(p - 1) % PER]
      <4>1. (p - 1) \div PER \in Logical /\ (p - 1) % PER \in Index
        BY <1>3, <3>1, PositionInBlock
      <4> QED
        BY <4>1, <2>1, <1>1
    <3>3. TextOf(Map', size', f) = TextOf(Map, size, f)
      BY <3>1, <3>2, Zenon DEF TextOf
    <3> QED
      BY <3>1, <3>3
  <2>2. PICK g \in Inode : g = F
    BY <1>3
  <2>3. FileText'[g] = over
    <3>1. Text(g)' = TextOf(Map', size', g)
      BY <1>1, TextIsNext
    <3>2. Text(g)' = over
      BY <1>8, <2>2, <3>1
    <3> HIDE DEF over
    <3> QED
      BY <3>2 DEF FileText
  <2> HIDE DEF new, over
  <2> QED
    BY <2>1, <2>2, <2>3 DEF FileText
<1>10. Flat!F = F /\ FileText[F] = Text(F)
  BY <1>3 DEF Flat!F, F, FileText
<1> HIDE DEF new
<1>11. \E m \in 1 .. io.count :
         /\ io.off + m <= HUGE * PER
         /\ FileText' = [FileText EXCEPT ![Flat!F] = Flat!Overlaid(@, io.off, m, io.val)]
         /\ Flat!Moved(m)
  <2>1. FileText' = [FileText EXCEPT ![Flat!F] = Flat!Overlaid(@, io.off, n, io.val)]
    BY <1>9, <1>10 DEF over
  <2>2. Flat!Moved(n)
    BY <1>2 DEF Flat!Moved
  <2> QED
    BY <1>1, <2>1, <2>2
<1> QED
  BY <1>2, <1>11 DEF Flat!Write, FileText

LEMMA InitIsInit ==
    ASSUME Init
    PROVE  Flat!Init
<1>1. ASSUME NEW f \in Inode PROVE Text(f) = << >>
  <2>1. IInv /\ size[f] = 0
    BY InitialInvariant DEF Init
  <2>2. Text(f) \in Seq(Word) /\ Len(Text(f)) = 0
    BY <2>1, TextSequence
  <2> QED
    BY <2>2
<1>2. io.op = "none"
  BY DEF Init, NoIO
<1> QED
  BY <1>1, <1>2 DEF Init, Flat!Init

LEMMA PositionIsPosition ==
    ASSUME IInv, Ready, UNCHANGED <<mapVars, size, io, got>>, NEW d \in OpenFile,
           file' \in [OpenFile -> [inode: Inode, offset: Nat]],
           file' = [file EXCEPT ![d] = file'[d]]
    PROVE  Flat!Position
<1>1. FileText' = FileText
  BY TextStill
<1>2. io.op = "none" /\ io'.op = "none"
  BY DEF Ready, NoIO
<1>3. file'[d] \in [inode: Inode, offset: Nat]
  OBVIOUS
<1> QED
  BY <1>1, <1>2, <1>3 DEF Flat!Position, FileText

LEMMA TruncIsTruncate ==
    ASSUME IInv, NEW f \in Inode, ITrunc(f)
    PROVE  Flat!Truncate(f)
<1>1. /\ IInv'
      /\ \A g \in Inode, l \in Logical :
           Held(Map', g, l) = IF g = f THEN Zeros ELSE Held(Map, g, l)
  BY TruncIs
<1>2. io.op = "none" /\ UNCHANGED <<file, io, got>>
  BY DEF ITrunc, Ready, NoIO
<1>3. size' = [size EXCEPT ![f] = 0] /\ size \in [Inode -> 0 .. HUGE * PER]
      /\ HUGE * PER \in Nat
  BY Sizes, Shape DEF ITrunc, IInv, TypeOK
<1>4. ASSUME NEW g \in Inode PROVE Text(g)' = IF g = f THEN << >> ELSE Text(g)
  <2>1. Text(g) = TextOf(Map, size, g) /\ Text(g)' = TextOf(Map', size', g)
    BY <1>1, TextIs, TextIsNext DEF TextsPlaced
  <2>2. CASE g = f
    <3>1. size'[f] = 0 /\ TextOf(Map', size', f) = << >>
      BY <1>3 DEF TextOf
    <3> QED
      BY <2>1, <2>2, <3>1
  <2>3. CASE g # f
    <3>1. size'[g] = size[g] /\ size[g] \in 0 .. HUGE * PER
      BY <1>3, <2>3
    <3>2. ASSUME NEW p \in 1 .. size[g]
          PROVE  Held(Map', g, (p - 1) \div PER) = Held(Map, g, (p - 1) \div PER)
      <4>1. (p - 1) \div PER \in Logical
        BY <1>3, <3>1, PositionInBlock
      <4> QED
        BY <4>1, <2>3, <1>1
    <3>3. TextOf(Map', size', g) = TextOf(Map, size, g)
      BY <3>1, <3>2, Zenon DEF TextOf
    <3> QED
      BY <2>1, <2>3, <3>3
  <2> QED
    BY <2>2, <2>3
<1>5. FileText' = [FileText EXCEPT ![f] = << >>]
  BY <1>4 DEF FileText
<1> QED
  BY <1>2, <1>5 DEF Flat!Truncate, FileText

LEMMA BeginIsBegin ==
    ASSUME IInv, Ready, io' \in Transfer, io'.off = file[io'.of].offset,
           UNCHANGED <<mapVars, size, file, got>>
    PROVE  Flat!Begin
<1>1. FileText' = FileText
  BY TextStill
<1>2. io.op = "none"
  BY DEF Ready, NoIO
<1>3. io' \in Flat!Transfer
  BY DEF Transfer, Flat!Transfer
<1> QED
  BY <1>1, <1>2, <1>3 DEF Flat!Begin, FileText

\* A call ends when all is done, at the end of the file, or where Bmap refuses.
LEMMA EndIsEnd ==
    ASSUME IInv, ReadEnd \/ WriteEnd
    PROVE  Flat!End
<1>1. /\ io # NoIO /\ EndRead /\ io.op \in {"read", "write"}
      /\ io.count = 0 \/ (io.op = "read" /\ AtEnd) \/ TooFar
  BY DEF ReadEnd, WriteEnd, NoIO
<1>2. /\ io.off \in Nat /\ F \in Inode /\ Lbn \in Nat /\ Pos \in Index /\ io.off = PER * Lbn + Pos
  BY <1>1, InTransfer DEF IInv
<1>3. size[F] \in 0 .. HUGE * PER /\ HUGE * PER \in Nat /\ HUGE \in Nat
  BY <1>2, Sizes, Shape DEF IInv, TypeOK
<1>4. TooFar => io.off >= HUGE * PER
  <2> DEFINE q == Lbn
             o == Pos
  <2>1. q \in Nat /\ o \in Nat /\ io.off = PER * q + o
    BY <1>2, Shape DEF Index
  <2> HIDE DEF q, o
  <2>2. ASSUME q >= HUGE PROVE io.off >= HUGE * PER
    <3>1. PICK e \in Nat : q = HUGE + e
      BY <2>1, <2>2, <1>3, Excess
    <3>2. PER * (HUGE + e) = HUGE * PER + PER * e /\ PER * e \in Nat
      BY <1>3, Shape
    <3> QED
      BY <2>1, <3>1, <3>2, <1>3
  <2> QED
    BY <2>2 DEF TooFar, q
<1>5. Flat!F = F /\ FileText[F] = Text(F) /\ Len(Text(F)) = size[F]
  BY <1>2, TextSequence DEF Flat!F, F, FileText
<1>6. io.count = 0 \/ io.off >= IF io.op = "read" THEN Len(FileText[Flat!F]) ELSE HUGE * PER
  BY <1>1, <1>2, <1>3, <1>4, <1>5 DEF AtEnd
<1>7. FileText' = FileText
  BY <1>1, TextStill DEF EndRead
<1>8. /\ io.op # "none" /\ io'.op = "none" /\ got' = << >>
      /\ file' = [file EXCEPT ![io.of].offset = io.off]
  BY <1>1 DEF EndRead, NoIO
<1> QED
  BY <1>6, <1>7, <1>8 DEF Flat!End, FileText

\* Every step is a step of a flat file, or changes nothing that a program sees.
LEMMA StepIsStep ==
    ASSUME IInv, [Next]_vars
    PROVE  [Flat!Next]_(Flat!ffVars)
<1>1. CASE \E d \in OpenFile : \E f \in Inode : Open(d, f)
  <2>1. PICK d \in OpenFile, f \in Inode : Open(d, f)
    BY <1>1
  <2>2. file' \in [OpenFile -> [inode: Inode, offset: Nat]]
    BY <2>1, OpenKeeps
  <2>3. file' = [file EXCEPT ![d] = file'[d]]
    BY <2>1, <2>2 DEF Open, IInv, TypeOK
  <2>4. Flat!Position
    BY <2>1, <2>2, <2>3, PositionIsPosition DEF Open
  <2> QED
    BY <2>4 DEF Flat!Next
<1>2. CASE \E d \in OpenFile : \E o \in Offsets : Seek(d, o)
  <2>1. PICK d \in OpenFile, o \in Offsets : Seek(d, o)
    BY <1>2
  <2>2. /\ file' \in [OpenFile -> [inode: Inode, offset: Nat]]
        /\ file' = [file EXCEPT ![d] = file'[d]]
    BY <2>1, SeekKeeps
  <2>3. Flat!Position
    BY <2>1, <2>2, PositionIsPosition DEF Seek
  <2> QED
    BY <2>3 DEF Flat!Next
<1>3. CASE \E d \in OpenFile : \E n \in Counts : BeginRead(d, n)
  <2>1. PICK d \in OpenFile, n \in Counts : BeginRead(d, n)
    BY <1>3
  <2>2. io' \in Transfer /\ io'.off = file[io'.of].offset
    BY <2>1, BeginReadKeeps DEF BeginRead
  <2>3. Flat!Begin
    BY <2>1, <2>2, BeginIsBegin DEF BeginRead
  <2> QED
    BY <2>3 DEF Flat!Next
<1>4. CASE \E d \in OpenFile : \E n \in Counts, v \in Data : BeginWrite(d, n, v)
  <2>1. PICK d \in OpenFile, n \in Counts, v \in Data : BeginWrite(d, n, v)
    BY <1>4
  <2>2. io' \in Transfer /\ io'.off = file[io'.of].offset
    BY <2>1, BeginWriteKeeps DEF BeginWrite
  <2>3. Flat!Begin
    BY <2>1, <2>2, BeginIsBegin DEF BeginWrite
  <2> QED
    BY <2>3 DEF Flat!Next
<1>5. CASE \E f \in Inode : ITrunc(f)
  BY <1>5, TruncIsTruncate DEF Flat!Next
<1>6. CASE ReadTurn
  BY <1>6, ReadIsRead DEF Flat!Next
<1>7. CASE WriteTurn
  BY <1>7, WriteIsWrite DEF Flat!Next
<1>8. CASE ReadEnd \/ WriteEnd
  BY <1>8, EndIsEnd DEF Flat!Next
<1>9. CASE UNCHANGED vars
  <2>1. FileText' = FileText /\ UNCHANGED <<file, io, got>>
    BY <1>9, TextStill DEF vars, mapVars
  <2> QED
    BY <2>1 DEF Flat!ffVars, FileText
<1> QED
  BY <1>1, <1>2, <1>3, <1>4, <1>5, <1>6, <1>7, <1>8, <1>9 DEF Next, Turn

\* Programs see flat files: what a read delivers is what was last written there, or
\* zeros, and positions and ends are where they are to be, whatever ReadI, WriteI,
\* Bmap and ITrunc (src/fs/INode.cpp) do with blocks, tables and holes.
THEOREM BlocksImplementFlatFile == Spec => ImplementsFlatFile
<1>1. IInv /\ [Next]_vars => [Flat!Next]_(Flat!ffVars)
  BY StepIsStep
<1>2. Init => Flat!Init
  BY InitIsInit
<1> QED
  BY <1>1, <1>2, BlocksInvariant, PTL DEF Spec, ImplementsFlatFile, Flat!Spec

=============================================================================
