------------------------- MODULE BufferCacheProofs -------------------------
(***************************************************************************)
(* Theorems about the buffer cache, for every number of buffers and every  *)
(* set of blocks and contents.                                             *)
(***************************************************************************)
EXTENDS BufferCacheProps, Arithmetic, FiniteSetTheorems, TLAPS

USE NBUFAssumption, ZeroAssumption, NoBlkAssumption, DepthAssumption, AfterHitAssumption

-----------------------------------------------------------------------------
(* Type correctness.                                                       *)

\* The list operations keep the pointers in the list's nodes.
LEMMA ListTypes ==
    ASSUME fwd \in [Node -> Node], bck \in [Node -> Node], NEW b \in Buf
    PROVE  /\ AppendFwd(b) \in [Node -> Node]
           /\ AppendBck(b) \in [Node -> Node]
           /\ UnlinkFwd(b) \in [Node -> Node]
           /\ UnlinkBck(b) \in [Node -> Node]
BY DEF AppendFwd, AppendBck, UnlinkFwd, UnlinkBck, Node, Buf, FL

\* Initialize leaves everything in type.
LEMMA InitTypes ==
    /\ InitFlags \in [Buf -> SUBSET Flag]
    /\ InitBlk \in [Buf -> Block \cup {NoBlk}]
    /\ InitData \in [Buf -> Data]
    /\ InitFwd \in [Node -> Node]
    /\ InitBck \in [Node -> Node]
    /\ [k \in Block |-> Nil] \in [Block -> Node]
    /\ Idle \in Node \cup {Idle}
<1>1. \A x \in Node : x # NBUF => x + 1 \in Node
  BY DEF Node, Buf, FL
<1>2. \A x \in Node : x # FL => x - 1 \in Node
  BY DEF Node, Buf, FL
<1>3. FL \in Node /\ NBUF \in Node /\ Nil \in Node
  BY DEF Node, Buf, FL, Nil
<1> QED
  BY <1>1, <1>2, <1>3 DEF InitFlags, InitBlk, InitData, InitFwd, InitBck

\* A GetBlk in progress asks for a block.
LEMMA SearchingRequest ==
    ASSUME TypeOK, Searching
    PROVE  req \in Request /\ req.blk \in Block /\ req.new \in BOOLEAN
BY DEF TypeOK, Searching, Request

LEMMA ReturnType ==
    ASSUME TypeOK, req \in Request, NEW b \in Buf, NEW fl \in SUBSET Flag,
           NEW f \in [Node -> Node], NEW g \in [Node -> Node],
           Return(b, fl, f, g)
    PROVE  TypeOK'
<1> DEFINE k == req.blk
<1>1. k \in Block
  BY DEF Request
<1>2. held' \in [Block -> Node] /\ req' \in Request \cup {NoReq}
  BY <1>1 DEF Return, TypeOK, Node
<1>3. blk' \in [Buf -> Block \cup {NoBlk}]
  BY <1>1 DEF Return, TypeOK
<1>4. data' \in [Buf -> Data]
  BY <1>1 DEF Return, TypeOK
<1>5. fresh' \in SUBSET Block
  BY <1>1 DEF Return, TypeOK
<1>6. flags' \in [Buf -> SUBSET Flag]
  BY DEF Return, TypeOK, Flag
<1>7. fwd' \in [Node -> Node] /\ bck' \in [Node -> Node]
  BY DEF Return, Node, Buf, FL
<1>8. disk' \in [Block -> Data] /\ cursor' \in Node \cup {Idle} /\ busyHit' \in BOOLEAN
  BY DEF Return, TypeOK
<1> QED
  BY <1>2, <1>3, <1>4, <1>5, <1>6, <1>7, <1>8 DEF TypeOK


LEMMA TypeStep == TypeOK /\ [Next]_vars => TypeOK'
<1> SUFFICES ASSUME TypeOK, [Next]_vars PROVE TypeOK'
  OBVIOUS
<1> USE DEF TypeOK
<1>1. ASSUME NEW k \in Block, NEW new \in BOOLEAN, Ask(k, new) PROVE TypeOK'
  BY <1>1 DEF Ask, Request
<1>2. ASSUME NEW k \in Block, Release(k) PROVE TypeOK'
  <2>1. held[k] \in Buf
    BY <1>2 DEF Release, CanFinish, Node, Nil, FL
  <2>2. flags' \in [Buf -> SUBSET Flag]
    BY <1>2, <2>1 DEF Release, Brelse
  <2> QED
    BY <1>2, <2>1, <2>2, ListTypes DEF Release, Brelse, Finish, Node, Nil, FL
<1>3. ASSUME NEW k \in Block, NEW d \in Data, Bdwrite(k, d) PROVE TypeOK'
  <2>1. held[k] \in Buf
    BY <1>3 DEF Bdwrite, CanFinish, Node, Nil, FL
  <2>2. flags' \in [Buf -> SUBSET Flag]
    BY <1>3, <2>1 DEF Bdwrite, Brelse, DelayedFlags, Flag
  <2> QED
    BY <1>3, <2>1, <2>2, ListTypes DEF Bdwrite, Brelse, Finish, Node, Nil, FL
<1>4. ASSUME NEW k \in Block, NEW d \in Data, Bwrite(k, d) PROVE TypeOK'
  <2>1. held[k] \in Buf
    BY <1>4 DEF Bwrite, CanFinish, Node, Nil, FL
  <2>2. flags' \in [Buf -> SUBSET Flag]
    BY <1>4, <2>1 DEF Bwrite, Brelse
  <2>3. fwd' \in [Node -> Node] /\ bck' \in [Node -> Node]
    BY <1>4, <2>1, ListTypes DEF Bwrite, Brelse
  <2>4. disk' \in [Block -> Data] /\ data' \in [Buf -> Data]
    BY <1>4, <2>1 DEF Bwrite
  <2> QED
    BY <1>4, <2>1, <2>2, <2>3, <2>4 DEF Bwrite, Finish, Node, Nil, FL
<1>5. CASE FlushStart
  BY <1>5 DEF FlushStart, FlushFirst, Head, Node, FL
<1>6. ASSUME NEW b \in Buf, BusyHit(b) PROVE TypeOK'
  BY <1>6 DEF BusyHit
<1>7. ASSUME NEW b \in Buf, Hit(b) PROVE TypeOK'
  <2>1. flags[b] \cup {"BUSY"} \in SUBSET Flag
    BY DEF Flag
  <2>2. Return(b, flags[b] \cup {"BUSY"}, UnlinkFwd(b), UnlinkBck(b)) /\ Searching
    BY <1>7 DEF Hit, Found
  <2> HIDE DEF TypeOK
  <2>3. UnlinkFwd(b) \in [Node -> Node] /\ UnlinkBck(b) \in [Node -> Node]
    BY ListTypes DEF TypeOK
  <2> QED
    BY <2>1, <2>2, <2>3, ReturnType, SearchingRequest
<1>8. CASE WriteBack
  <2>1. Head \in Buf
    BY <1>8 DEF WriteBack, Head, FreeEmpty, Node, FL
  <2>2. flags' \in [Buf -> SUBSET Flag]
    BY <1>8, <2>1 DEF WriteBack, NotAvail, SentFlags, Flag
  <2>3. fwd' \in [Node -> Node] /\ bck' \in [Node -> Node]
    BY <1>8, <2>1, ListTypes DEF WriteBack, NotAvail
  <2>4. disk' \in [Block -> Data]
    BY <1>8, <2>1 DEF WriteBack, Written
  <2> QED
    BY <1>8, <2>2, <2>3, <2>4 DEF WriteBack
<1>9. CASE Claim
  <2>1. Head \in Buf
    BY <1>9 DEF Claim, Head, FreeEmpty, Node, FL
  <2>2. {"BUSY"} \in SUBSET Flag
    BY DEF Flag
  <2>3. Return(Head, {"BUSY"}, UnlinkFwd(Head), UnlinkBck(Head)) /\ Searching
    BY <1>9 DEF Claim, Miss
  <2> HIDE DEF TypeOK
  <2>4. UnlinkFwd(Head) \in [Node -> Node] /\ UnlinkBck(Head) \in [Node -> Node]
    BY <2>1, ListTypes DEF TypeOK
  <2> QED
    BY <2>1, <2>2, <2>3, <2>4, ReturnType, SearchingRequest
<1>10. CASE FlushWrite
  <2>1. cursor \in Buf
    BY <1>10 DEF FlushWrite
  <2>2. flags' \in [Buf -> SUBSET Flag]
    BY <1>10, <2>1 DEF FlushWrite, NotAvail, SentFlags, Flag
  <2>3. fwd' \in [Node -> Node] /\ bck' \in [Node -> Node]
    BY <1>10, <2>1, ListTypes DEF FlushWrite, NotAvail
  <2>4. disk' \in [Block -> Data]
    BY <1>10, <2>1 DEF FlushWrite, Written
  <2>5. cursor' \in Node
    BY <1>10, <2>1, <2>3 DEF FlushWrite, Node
  <2> QED
    BY <1>10, <2>2, <2>3, <2>4, <2>5 DEF FlushWrite
<1>11. CASE FlushSkip
  BY <1>11 DEF FlushSkip, Node
<1>12. CASE FlushEnd
  BY <1>12 DEF FlushEnd
<1>13. CASE Restart
  BY <1>13, InitTypes DEF Restart
<1>14. CASE UNCHANGED vars
  BY <1>14 DEF vars
<1> HIDE DEF TypeOK
<1> QED
  BY <1>1, <1>2, <1>3, <1>4, <1>5, <1>6, <1>7, <1>8, <1>9, <1>10, <1>11, <1>12, <1>13, <1>14
     DEF Next, Caller, GetBlkTurn, FlushTurn

\* b_flags, the pointers and the caller's variables stay in their types.
THEOREM TypeCorrect == Spec => []TypeOK
<1>1. Init => TypeOK
  BY InitTypes DEF Init, TypeOK
<1> QED
  BY <1>1, TypeStep, PTL DEF Spec

-----------------------------------------------------------------------------
(* No block is cached twice.                                               *)

\* A buffer changes its block only in Return, and there either it had the
\* block already (Hit) or no buffer had it (Claim).
LEMMA UniqueStep == TypeOK /\ UniqueCopy /\ [Next]_vars => UniqueCopy'
<1> SUFFICES ASSUME TypeOK, UniqueCopy, [Next]_vars PROVE UniqueCopy'
  OBVIOUS
<1>1. ASSUME NEW b \in Buf, Hit(b) PROVE UniqueCopy'
  BY <1>1 DEF Hit, Found, Return, UniqueCopy, TypeOK
<1>2. CASE Claim
  <2>1. Head \in Buf
    BY <1>2 DEF Claim, Head, FreeEmpty, Node, FL, TypeOK
  <2> QED
    BY <1>2, <2>1 DEF Claim, Miss, Return, UniqueCopy, TypeOK
<1>3. CASE Restart
  BY <1>3 DEF Restart, InitBlk, UniqueCopy
<1>4. CASE UNCHANGED blk
  BY <1>4 DEF UniqueCopy
<1> QED
  BY <1>1, <1>2, <1>3, <1>4 DEF Next, vars, Caller, GetBlkTurn, FlushTurn, Ask, Release,
     Bdwrite, Bwrite, Finish, FlushStart, BusyHit, WriteBack, FlushWrite, FlushSkip, FlushEnd

\* A block is never cached twice, whatever has become of the free list.
THEOREM NeverCachedTwice == Spec => []UniqueCopy
<1>1. Init => UniqueCopy
  BY DEF Init, InitBlk, UniqueCopy
<1>2. Init => TypeOK
  BY InitTypes DEF Init, TypeOK
<1> QED
  BY <1>1, <1>2, TypeStep, UniqueStep, PTL DEF Spec

-----------------------------------------------------------------------------
(* The single thread.                                                      *)

LEMMA CallerStep == TypeOK /\ CallerOrder /\ [Next]_vars => CallerOrder'
<1> SUFFICES ASSUME TypeOK, CallerOrder, [Next]_vars PROVE CallerOrder'
  OBVIOUS
<1> USE DEF TypeOK, CallerOrder, InUse
<1>1. ASSUME NEW k \in Block, NEW new \in BOOLEAN, Ask(k, new) PROVE CallerOrder'
  BY <1>1 DEF Ask, Ready
<1>2. ASSUME NEW k \in Block, CanFinish(k), Finish(k) PROVE CallerOrder'
  BY <1>2 DEF CanFinish, Ready, Finish
<1>3. CASE FlushStart
  BY <1>3 DEF FlushStart, Ready
<1>4. ASSUME NEW b \in Buf, NEW fl, NEW f, NEW g, Searching, Return(b, fl, f, g)
      PROVE  CallerOrder'
  <2>1. req.blk \in Block /\ b # Nil
    BY <1>4, SearchingRequest DEF Buf, Nil
  <2>2. held' = [held EXCEPT ![req.blk] = b] /\ req' = NoReq /\ cursor' = cursor
    BY <1>4 DEF Return
  <2>3. fresh' \subseteq fresh \cup {req.blk}
    BY <1>4 DEF Return
  <2>4. cursor = Idle
    BY <1>4 DEF Searching
  <2> QED
    BY <2>1, <2>2, <2>3, <2>4
<1>5. CASE FlushWrite \/ FlushSkip
  BY <1>5 DEF FlushWrite, FlushSkip, Buf, Idle
<1>6. CASE FlushEnd
  BY <1>6 DEF FlushEnd
<1>7. CASE Restart
  BY <1>7 DEF Restart
<1>8. CASE UNCHANGED <<req, held, fresh, cursor>>
  BY <1>8
<1>9. Claim => Head \in Buf
  BY DEF Claim, Head, FreeEmpty, Node, FL
<1> HIDE DEF TypeOK, CallerOrder
<1>10. ASSUME NEW b \in Buf, Hit(b) PROVE CallerOrder'
  BY <1>10, <1>4 DEF Hit, Found
<1>11. CASE Claim
  BY <1>11, <1>9, <1>4 DEF Claim, Miss
<1> QED
  BY <1>1, <1>2, <1>3, <1>5, <1>6, <1>7, <1>8, <1>10, <1>11 DEF Next, vars, Caller, GetBlkTurn,
     FlushTurn, Release, Bdwrite, Bwrite, BusyHit, WriteBack

-----------------------------------------------------------------------------
(* The free list.                                                          *)

\* Taking a buffer out leaves the others linked.
LEMMA UnlinkLinked ==
    ASSUME TypeOK, NEW F \in SUBSET Buf, Linked(F, fwd, bck), NEW b \in F
    PROVE  Linked(F \ {b}, UnlinkFwd(b), UnlinkBck(b))
BY DEF Linked, UnlinkFwd, UnlinkBck, TypeOK, Node, Buf, FL

\* A buffer that is not on the list is put at its end.
LEMMA AppendLinked ==
    ASSUME TypeOK, NEW F \in SUBSET Buf, Linked(F, fwd, bck), NEW b \in Buf \ F
    PROVE  Linked(F \cup {b}, AppendFwd(b), AppendBck(b))
<1> DEFINE t == bck[FL]
           f == AppendFwd(b)
           g == AppendBck(b)
<1>1. t \in F \cup {FL} /\ fwd[t] = FL /\ t # b /\ b # FL /\ b \in Node /\ t \in Node
  BY DEF Linked, TypeOK, Node, Buf, FL
<1>2. \A x \in Node : f[x] = IF x = b THEN FL ELSE IF x = t THEN b ELSE fwd[x]
  BY <1>1 DEF AppendFwd, TypeOK
<1>3. \A x \in Node : g[x] = IF x = FL THEN b ELSE IF x = b THEN t ELSE bck[x]
  BY <1>1 DEF AppendBck, TypeOK
<1> HIDE DEF t, f, g
<1>4. F \cup {FL, b} \subseteq Node
  BY DEF Node, FL
<1>5. \A x \in F \cup {b, FL} : f[x] \in F \cup {b, FL} /\ g[f[x]] = x
  BY <1>1, <1>2, <1>3, <1>4 DEF Linked, t
<1>6. \A x \in F \cup {b, FL} : g[x] \in F \cup {b, FL} /\ f[g[x]] = x
  BY <1>1, <1>2, <1>3, <1>4 DEF Linked, t
<1> QED
  BY <1>5, <1>6 DEF Linked, f, g

LEMMA InitLinked == Linked(Buf, InitFwd, InitBck)
BY DEF Linked, InitFwd, InitBck, Node, Buf, FL

\* The same for the order of the list.
LEMMA UnlinkLine ==
    ASSUME TypeOK, NEW F \in SUBSET Buf, Linked(F, fwd, bck), NEW b \in F,
           NEW after \in [F \cup {FL} -> SUBSET F], Line(F, fwd, after)
    PROVE  /\ [x \in (F \ {b}) \cup {FL} |-> after[x] \ {b}] \in [(F \ {b}) \cup {FL} -> SUBSET (F \ {b})]
           /\ Line(F \ {b}, UnlinkFwd(b), [x \in (F \ {b}) \cup {FL} |-> after[x] \ {b}])
           /\ fwd[b] # b
<1> DEFINE G == F \ {b}
           A == [x \in G \cup {FL} |-> after[x] \ {b}]
<1>0. FL \notin F /\ \A x \in F \cup {FL} : x \in Node
  BY DEF Node, Buf, FL
<1>1. A \in [G \cup {FL} -> SUBSET G] /\ A[FL] = G
  BY DEF Line
<1>2. \A x \in G : x \notin A[x]
  BY DEF Line
<1>3. /\ \/ fwd[b] = FL /\ after[b] = {}
         \/ fwd[b] \in F /\ after[b] = {fwd[b]} \cup after[fwd[b]]
      /\ b \notin after[b] /\ fwd[b] # b
  <2>1. \/ fwd[b] = FL /\ after[b] = {}
        \/ fwd[b] \in F /\ after[b] = {fwd[b]} \cup after[fwd[b]]
    BY DEF Line
  <2>2. b \notin after[b]
    BY DEF Line
  <2> QED
    BY <1>0, <2>1, <2>2
<1>4. ASSUME NEW x \in G \cup {FL}
      PROVE  \/ UnlinkFwd(b)[x] = FL /\ A[x] = {}
             \/ UnlinkFwd(b)[x] \in G /\ A[x] = {UnlinkFwd(b)[x]} \cup A[UnlinkFwd(b)[x]]
  <2>1. x \in Node /\ x # b /\ x \in F \cup {FL} /\ b # FL
    BY <1>0
  <2>2. CASE x = bck[b]
    <3>1. fwd[x] = b /\ UnlinkFwd(b)[x] = fwd[b]
      BY <2>1, <2>2 DEF Linked, UnlinkFwd, TypeOK
    <3>2. after[x] = {b} \cup after[b]
      BY <2>1, <3>1 DEF Line
    <3>3. A[x] = after[b]
      BY <1>3, <3>2
    <3>4. CASE fwd[b] = FL
      BY <1>0, <1>3, <3>1, <3>3, <3>4
    <3>5. CASE fwd[b] # FL
      <4>1. fwd[b] \in G /\ after[b] = {fwd[b]} \cup after[fwd[b]]
        BY <1>3, <3>5
      <4>2. A[fwd[b]] = after[fwd[b]]
        BY <1>3, <4>1
      <4> QED
        BY <3>1, <3>3, <4>1, <4>2
    <3> QED
      BY <3>4, <3>5
  <2>3. CASE x # bck[b]
    <3>1. UnlinkFwd(b)[x] = fwd[x]
      BY <2>1, <2>3 DEF UnlinkFwd, TypeOK
    <3>2. fwd[x] # b
      BY <2>1, <2>3 DEF Linked
    <3>3. \/ fwd[x] = FL /\ after[x] = {}
          \/ fwd[x] \in F /\ after[x] = {fwd[x]} \cup after[fwd[x]]
      BY <2>1 DEF Line
    <3>4. CASE fwd[x] = FL /\ after[x] = {}
      BY <3>1, <3>4
    <3>5. CASE fwd[x] \in F /\ after[x] = {fwd[x]} \cup after[fwd[x]]
      <4>1. fwd[x] \in G
        BY <3>2, <3>5
      <4>2. A[x] = {fwd[x]} \cup A[fwd[x]]
        BY <3>2, <3>5, <4>1
      <4> QED
        BY <3>1, <4>1, <4>2
    <3> QED
      BY <3>3, <3>4, <3>5
  <2> QED
    BY <2>2, <2>3
<1> HIDE DEF A, G
<1>5. Line(G, UnlinkFwd(b), A)
  BY <1>1, <1>2, <1>4 DEF Line
<1> QED
  BY <1>1, <1>3, <1>5 DEF G, A

LEMMA UnlinkOrdered ==
    ASSUME TypeOK, NEW F \in SUBSET Buf, Linked(F, fwd, bck), Ordered(F, fwd), NEW b \in F
    PROVE  Ordered(F \ {b}, UnlinkFwd(b)) /\ fwd[b] # b
<1>1. PICK after \in [F \cup {FL} -> SUBSET F] : Line(F, fwd, after)
  BY DEF Ordered
<1> DEFINE A == [x \in (F \ {b}) \cup {FL} |-> after[x] \ {b}]
<1>2. A \in [(F \ {b}) \cup {FL} -> SUBSET (F \ {b})] /\ Line(F \ {b}, UnlinkFwd(b), A) /\ fwd[b] # b
  BY <1>1, UnlinkLine
<1> HIDE DEF A
<1> QED
  BY <1>2 DEF Ordered

LEMMA AppendOrdered ==
    ASSUME TypeOK, NEW F \in SUBSET Buf, Linked(F, fwd, bck), Ordered(F, fwd), NEW b \in Buf \ F
    PROVE  Ordered(F \cup {b}, AppendFwd(b))
<1>1. PICK after \in [F \cup {FL} -> SUBSET F] : Line(F, fwd, after)
  BY DEF Ordered
<1> DEFINE G == F \cup {b}
           A == [x \in G \cup {FL} |-> IF x = b THEN {} ELSE after[x] \cup {b}]
<1>0. FL \notin G /\ b \notin F /\ (\A x \in G \cup {FL} : x \in Node) /\ bck[FL] \in F \cup {FL}
  BY DEF Node, Buf, FL, Linked
<1>2. A \in [G \cup {FL} -> SUBSET G] /\ A[FL] = G
  BY <1>0, <1>1 DEF Line
<1>3. \A x \in G : x \notin A[x]
  BY <1>1 DEF Line
<1>4. ASSUME NEW x \in G \cup {FL}
      PROVE  \/ AppendFwd(b)[x] = FL /\ A[x] = {}
             \/ AppendFwd(b)[x] \in G /\ A[x] = {AppendFwd(b)[x]} \cup A[AppendFwd(b)[x]]
  <2>1. AppendFwd(b)[x] = IF x = b THEN FL ELSE IF x = bck[FL] THEN b ELSE fwd[x]
    BY <1>0 DEF AppendFwd, TypeOK
  <2>2. CASE x = b
    BY <2>1, <2>2
  <2>3. CASE x # b /\ x = bck[FL]
    <3>1. fwd[x] = FL /\ after[x] = {}
      BY <1>0, <1>1, <2>3 DEF Linked, Line
    <3>2. A[x] = {b} /\ A[b] = {}
      BY <2>3, <3>1
    <3> QED
      BY <1>0, <2>1, <2>3, <3>2
  <2>4. CASE x # b /\ x # bck[FL]
    <3>1. fwd[x] # FL
      BY <2>4 DEF Linked
    <3>2. after[x] = {fwd[x]} \cup after[fwd[x]] /\ fwd[x] \in F /\ fwd[x] # b
      BY <1>0, <1>1, <2>4, <3>1 DEF Line
    <3>3. A[x] = {fwd[x]} \cup A[fwd[x]]
      BY <2>4, <3>2
    <3> QED
      BY <2>1, <2>4, <3>2, <3>3
  <2> QED
    BY <2>2, <2>3, <2>4
<1> HIDE DEF A, G
<1>5. Ordered(G, AppendFwd(b))
  BY <1>2, <1>3, <1>4 DEF Ordered, Line
<1> QED
  BY <1>5 DEF G

LEMMA InitOrdered == Ordered(Buf, InitFwd)
<1> DEFINE A == [x \in Buf \cup {FL} |-> {y \in Buf : y > x}]
<1>1. A \in [Buf \cup {FL} -> SUBSET Buf] /\ A[FL] = Buf
  BY DEF Buf, FL
<1>2. \A x \in Buf : x \notin A[x]
  BY DEF Buf
<1>3. ASSUME NEW x \in Buf \cup {FL}
      PROVE  \/ InitFwd[x] = FL /\ A[x] = {}
             \/ InitFwd[x] \in Buf /\ A[x] = {InitFwd[x]} \cup A[InitFwd[x]]
  <2>1. x \in 0 .. NBUF /\ InitFwd[x] = IF x = NBUF THEN FL ELSE x + 1
    BY DEF InitFwd, Node, Buf, FL
  <2>2. CASE x = NBUF
    <3>1. A[x] = {}
      BY <2>2 DEF Buf
    <3> QED
      BY <2>1, <2>2, <3>1
  <2>3. CASE x # NBUF
    <3>1. x + 1 \in Buf /\ x + 1 # FL
      BY <2>1, <2>3 DEF Buf, FL
    <3>2. \A y \in Buf : y > x <=> y = x + 1 \/ y > x + 1
      BY <2>1 DEF Buf
    <3>3. A[x] = {y \in Buf : y > x} /\ A[x + 1] = {y \in Buf : y > x + 1}
      BY <3>1
    <3>4. A[x] = {x + 1} \cup A[x + 1]
      BY <3>1, <3>2, <3>3
    <3> QED
      BY <2>1, <2>3, <3>1, <3>4
  <2> QED
    BY <2>2, <2>3
<1> HIDE DEF A
<1> QED
  BY <1>1, <1>2, <1>3 DEF Ordered, Line

-----------------------------------------------------------------------------
(* What holds until a busy hit: one lemma per way of touching a buffer.    *)

\* A caller gives back the buffer it holds for k, with content d, while the
\* disk gets e for k.
LEMMA FinishSound ==
    ASSUME IInv, ~busyHit, NEW k \in Block, CanFinish(k),
           NEW fl \in SUBSET Flag, NEW d \in Data, NEW e \in Data,
           Brelse(held[k], fl), Finish(k),
           data' = [data EXCEPT ![held[k]] = d],
           disk' = [disk EXCEPT ![k] = e],
           "DELWRI" \in fl => "DONE" \in fl,
           "DONE" \in fl /\ "DELWRI" \notin fl => d = e
    PROVE  Sound'
<1> DEFINE b == held[k]
<1> USE DEF IInv, Sound
<1>1. b \in Buf /\ "BUSY" \in flags[b] /\ blk[b] = k /\ cursor = Idle /\ k \in InUse
  BY DEF CanFinish, Ready, HeldIsMine, TypeOK, Node, Nil, FL, InUse
<1>2. \A j \in Block : held[j] = b => j = k
  BY <1>1 DEF HeldIsMine, InUse, Buf, Nil
<1>3. /\ \A c \in Buf : flags'[c] = IF c = b THEN fl \ {"BUSY", "ASYNC"} ELSE flags[c]
      /\ \A c \in Buf : data'[c] = IF c = b THEN d ELSE data[c]
      /\ \A j \in Block : disk'[j] = IF j = k THEN e ELSE disk[j]
      /\ \A j \in Block : held'[j] = IF j = k THEN Nil ELSE held[j]
      /\ blk' = blk /\ cursor' = cursor /\ fresh' = fresh \ {k} /\ ~busyHit'
  BY <1>1 DEF Brelse, Finish, TypeOK
<1>4. Free' = Free \cup {b}
  BY <1>1, <1>3 DEF Free
<1>5. \A c \in Buf : c # b => blk[c] # k
  BY <1>1 DEF UniqueCopy, TypeOK
<1>6. FreeListLinked'
  <2>1. Free \in SUBSET Buf /\ b \in Buf \ Free
    BY <1>1 DEF Free
  <2>2. Linked(Free \cup {b}, AppendFwd(b), AppendBck(b))
    BY <2>1, AppendLinked DEF FreeListLinked
  <2> QED
    BY <1>4, <2>2 DEF FreeListLinked, Linked, Brelse
<1>6a. FreeListOrdered'
  <2>1. Free \in SUBSET Buf /\ b \in Buf \ Free
    BY <1>1 DEF Free
  <2>2. Ordered(Free \cup {b}, AppendFwd(b))
    BY <2>1, AppendOrdered DEF FreeListLinked, FreeListOrdered
  <2> QED
    BY <1>4, <2>2 DEF FreeListOrdered, Ordered, Brelse
<1>7. HeldIsMine'
  BY <1>1, <1>2, <1>3 DEF HeldIsMine, InUse, TypeOK, Node, Nil, FL
<1>8. LeakIsClean'
  BY <1>1, <1>2, <1>3, <1>5 DEF LeakIsClean, Leaked, Nil, Buf
<1>9. DoneIsDisk'
  <2> SUFFICES ASSUME NEW c \in Buf, "DONE" \in flags'[c], "DELWRI" \notin flags'[c],
                      \A j \in fresh' : held'[j] # c
               PROVE  blk[c] # NoBlk /\ data'[c] = disk'[blk[c]]
    BY <1>3 DEF DoneIsDisk
  <2>1. CASE c = b
    BY <2>1, <1>1, <1>3
  <2>2. CASE c # b
    <3>1. \A j \in fresh : held[j] # c
      BY <2>2, <1>3 DEF CallerOrder, InUse, TypeOK
    <3>2. blk[c] # NoBlk /\ data[c] = disk[blk[c]]
      BY <2>2, <1>3, <3>1 DEF DoneIsDisk
    <3> QED
      BY <2>2, <1>3, <1>5, <3>2 DEF TypeOK
  <2> QED
    BY <2>1, <2>2
<1>10. FreeIsIdle'
  BY <1>3, <1>4 DEF FreeIsIdle, Free
<1>11. DelayedIsDone'
  BY <1>1, <1>3 DEF DelayedIsDone
<1>12. CursorOnList' /\ FlushedBehind'
  BY <1>1, <1>3 DEF CursorOnList, FlushedBehind
<1> QED
  BY <1>6, <1>6a, <1>7, <1>8, <1>9, <1>10, <1>11, <1>12

\* GetBlk or Bflush sends a delayed write of the free list to the disk.
LEMMA SendSound ==
    ASSUME IInv, ~busyHit, NEW b \in Free, "DELWRI" \in flags[b],
           NotAvail(b, SentFlags(flags[b])), disk' = Written(b),
           UNCHANGED <<blk, data, held, fresh, busyHit>>,
           cursor' # Idle => cursor = b /\ cursor' = fwd[b]
    PROVE  Sound'
<1> USE DEF IInv, Sound
<1>1. b \in Buf /\ blk[b] \in Block /\ "BUSY" \notin flags[b]
  BY DEF Free, DelayedIsDone
<1>2. \A j \in Block : held[j] # b
  BY <1>1 DEF HeldIsMine, InUse, Buf, Nil
<1>3. /\ \A c \in Buf : flags'[c] = IF c = b THEN SentFlags(flags[b]) ELSE flags[c]
      /\ \A j \in Block : disk'[j] = IF j = blk[b] THEN data[b] ELSE disk[j]
  BY <1>1 DEF NotAvail, Written, TypeOK
<1>4. SentFlags(flags[b]) = {"BUSY", "ASYNC"}
  BY <1>1 DEF SentFlags, TypeOK, Flag
<1>5. Free' = Free \ {b}
  BY <1>1, <1>3, <1>4 DEF Free
<1>6. \A c \in Buf : c # b => blk[c] # blk[b]
  BY <1>1 DEF UniqueCopy, TypeOK
<1>7. FreeListLinked'
  <2>1. Free \in SUBSET Buf
    BY DEF Free
  <2>2. Linked(Free \ {b}, UnlinkFwd(b), UnlinkBck(b))
    BY <2>1, UnlinkLinked DEF FreeListLinked
  <2> QED
    BY <1>5, <2>2 DEF FreeListLinked, Linked, NotAvail
<1>7a. FreeListOrdered'
  <2>1. Free \in SUBSET Buf
    BY DEF Free
  <2>2. Ordered(Free \ {b}, UnlinkFwd(b))
    BY <2>1, UnlinkOrdered DEF FreeListLinked, FreeListOrdered
  <2> QED
    BY <1>5, <2>2 DEF FreeListOrdered, Ordered, NotAvail
<1>8. HeldIsMine'
  BY <1>1, <1>2, <1>3 DEF HeldIsMine, InUse, TypeOK, Node, Nil, FL
<1>9. LeakIsClean'
  BY <1>1, <1>2, <1>3, <1>4, <1>6 DEF LeakIsClean, Leaked
<1>10. DoneIsDisk'
  BY <1>1, <1>3, <1>4, <1>6 DEF DoneIsDisk, TypeOK
<1>11. FreeIsIdle'
  BY <1>3, <1>5 DEF FreeIsIdle, Free
<1>12. DelayedIsDone'
  BY <1>1, <1>3, <1>4 DEF DelayedIsDone
<1>13. CursorOnList'
  <2>1. fwd[b] \in Free \cup {FL}
    BY <1>1 DEF FreeListLinked, Linked
  <2>2. fwd[b] # b
    <3>1. Free \in SUBSET Buf
      BY DEF Free
    <3> QED
      BY <3>1, UnlinkOrdered DEF FreeListLinked, FreeListOrdered
  <2> QED
    BY <1>5, <2>1, <2>2 DEF CursorOnList
<1>14. FlushedBehind'
  <2> SUFFICES ASSUME cursor' # Idle
               PROVE  \E after \in [Free' \cup {FL} -> SUBSET Free'] :
                        /\ Line(Free', fwd', after)
                        /\ \A c \in Free' : "DELWRI" \in flags'[c] =>
                                cursor' # FL /\ c \in {cursor'} \cup after[cursor']
    BY DEF FlushedBehind
  <2>1. cursor' = fwd[b] /\ cursor = b
    BY <1>1
  <2>2. PICK after \in [Free \cup {FL} -> SUBSET Free] :
            /\ Line(Free, fwd, after)
            /\ \A c \in Free : "DELWRI" \in flags[c] => cursor # FL /\ c \in {cursor} \cup after[cursor]
    <3>1. cursor # Idle
      BY <1>1, <2>1 DEF Buf, Idle
    <3>2. FlushedBehind
      OBVIOUS
    <3> QED
      BY <3>1, <3>2 DEF FlushedBehind
  <2> DEFINE A == [x \in (Free \ {b}) \cup {FL} |-> after[x] \ {b}]
  <2>3. A \in [(Free \ {b}) \cup {FL} -> SUBSET (Free \ {b})] /\ Line(Free \ {b}, UnlinkFwd(b), A)
    <3>1. Free \in SUBSET Buf /\ Linked(Free, fwd, bck)
      BY DEF Free, FreeListLinked
    <3> QED
      BY <2>2, <3>1, UnlinkLine
  <2>4. ASSUME NEW c \in Free \ {b}, "DELWRI" \in flags'[c]
        PROVE  fwd[b] # FL /\ c \in {fwd[b]} \cup A[fwd[b]]
    <3>1. flags'[c] = flags[c] /\ c \in Free
      BY <1>3, <2>4 DEF Free
    <3>2. c \in after[b]
      BY <2>1, <2>2, <2>4, <3>1
    <3>3. \/ fwd[b] = FL /\ after[b] = {}
          \/ fwd[b] \in Free /\ after[b] = {fwd[b]} \cup after[fwd[b]]
      BY <2>2 DEF Line
    <3>4. fwd[b] \in Free /\ c \in {fwd[b]} \cup after[fwd[b]] /\ fwd[b] # FL
      BY <3>2, <3>3 DEF Free, Buf, FL
    <3>5. fwd[b] # b
      BY <2>2, <3>3, <3>4 DEF Line
    <3>6. A[fwd[b]] = after[fwd[b]] \ {b}
      BY <3>4, <3>5
    <3> QED
      BY <2>4, <3>4, <3>6
  <2> HIDE DEF A
  <2>5. fwd' = UnlinkFwd(b)
    BY DEF NotAvail
  <2> QED
    BY <1>5, <2>1, <2>3, <2>4, <2>5
<1> QED
  BY <1>7, <1>7a, <1>8, <1>9, <1>10, <1>11, <1>12, <1>13, <1>14

\* GetBlk returns buffer b of the free list, either because it has the block
\* (Hit) or because no buffer has it and b is clean (Claim).
LEMMA ReturnSound ==
    ASSUME IInv, ~busyHit, Searching, NEW b \in Free,
           NEW fl \in SUBSET Flag,
           Return(b, fl, UnlinkFwd(b), UnlinkBck(b)),
           \/ blk[b] = req.blk /\ fl = flags[b] \cup {"BUSY"}
           \/ (\A c \in Buf : blk[c] # req.blk) /\ fl = {"BUSY"}
    PROVE  Sound'
<1> DEFINE k == req.blk
           fl2 == IF req.new THEN fl ELSE fl \cup {"DONE"}
<1> USE DEF IInv, Sound
<1>1. k \in Block /\ req.new \in BOOLEAN /\ cursor = Idle /\ k # NoBlk
  BY SearchingRequest DEF Searching, CallerOrder
<1>2. b \in Buf /\ "BUSY" \notin flags[b] /\ "ASYNC" \notin fl /\ "BUSY" \in fl
  BY DEF Free, FreeIsIdle
<1>3. \A j \in Block : held[j] # b
  BY <1>2 DEF HeldIsMine, InUse, Buf, Nil
<1>4. held[k] = Nil /\ k \notin fresh
  BY <1>1 DEF CallerOrder, Searching, InUse
<1>5. /\ held' = [held EXCEPT ![k] = b]
      /\ blk' = [blk EXCEPT ![b] = k]
      /\ UNCHANGED <<disk, cursor, busyHit>>
      /\ fresh' = IF req.new THEN fresh \cup {k} ELSE fresh
      /\ data' = [data EXCEPT ![b] = IF req.new THEN Zero
                                     ELSE IF "DONE" \in fl THEN data[b] ELSE disk[k]]
      /\ flags' = [flags EXCEPT ![b] = fl2]
      /\ fwd' = UnlinkFwd(b)
      /\ bck' = UnlinkBck(b)
  BY <1>1, <1>2 DEF Return, Loaded, TypeOK
<1>6. \A c \in Buf : c # b => blk[c] # k
  BY <1>1, <1>2 DEF UniqueCopy, TypeOK
<1>7. Free' = Free \ {b}
  BY <1>2, <1>5 DEF Free, TypeOK
<1>8. FreeListLinked'
  <2>1. Free \in SUBSET Buf
    BY DEF Free
  <2>2. Linked(Free \ {b}, UnlinkFwd(b), UnlinkBck(b))
    BY <2>1, UnlinkLinked DEF FreeListLinked
  <2> QED
    BY <1>5, <1>7, <2>2 DEF FreeListLinked, Linked
<1>9. FreeListOrdered'
  <2>1. Free \in SUBSET Buf
    BY DEF Free
  <2>2. Ordered(Free \ {b}, UnlinkFwd(b))
    BY <2>1, UnlinkOrdered DEF FreeListLinked, FreeListOrdered
  <2> QED
    BY <1>5, <1>7, <2>2 DEF FreeListOrdered, Ordered
<1>10. HeldIsMine'
  <2> SUFFICES ASSUME NEW j \in Block, held'[j] # Nil
               PROVE  /\ blk'[held'[j]] = j
                      /\ "BUSY" \in flags'[held'[j]]
                      /\ "ASYNC" \notin flags'[held'[j]]
    BY DEF HeldIsMine, InUse
  <2>1. CASE j = k
    BY <2>1, <1>1, <1>2, <1>5 DEF TypeOK
  <2>2. CASE j # k
    <3>1. held'[j] = held[j] /\ held[j] # b /\ held[j] \in Buf
      BY <2>2, <1>1, <1>3, <1>5 DEF TypeOK, Node, Nil, FL
    <3> QED
      BY <3>1, <1>2, <1>5 DEF HeldIsMine, InUse, TypeOK
  <2> QED
    BY <2>1, <2>2
<1>11. LeakIsClean'
  <2> SUFFICES ASSUME NEW c \in Buf, "BUSY" \in flags'[c], \A j \in Block : held'[j] # c
               PROVE  /\ flags'[c] = {"BUSY", "ASYNC"}
                      /\ blk'[c] \in Block
                      /\ data'[c] = disk'[blk'[c]]
    BY DEF LeakIsClean, Leaked
  <2>1. c # b
    BY <1>1, <1>2, <1>5 DEF TypeOK
  <2>2. \A j \in Block : held[j] # c
    BY <1>1, <1>4, <1>5 DEF TypeOK, Buf, Nil
  <2> QED
    BY <2>1, <2>2, <1>2, <1>5 DEF LeakIsClean, Leaked, TypeOK
<1>12. DoneIsDisk'
  <2> SUFFICES ASSUME NEW c \in Buf, "DONE" \in flags'[c], "DELWRI" \notin flags'[c],
                      \A j \in fresh' : held'[j] # c
               PROVE  blk'[c] # NoBlk /\ data'[c] = disk'[blk'[c]]
    BY DEF DoneIsDisk
  <2>1. CASE c = b
    <3>1. ~req.new
      BY <2>1, <1>1, <1>5 DEF TypeOK
    <3>2. CASE "DONE" \in fl
      BY <2>1, <3>1, <3>2, <1>1, <1>2, <1>3, <1>5 DEF DoneIsDisk, TypeOK
    <3>3. CASE "DONE" \notin fl
      BY <2>1, <3>1, <3>3, <1>1, <1>2, <1>5 DEF TypeOK
    <3> QED
      BY <3>2, <3>3
  <2>2. CASE c # b
    <3>1. \A j \in fresh : held[j] # c
      BY <2>2, <1>1, <1>4, <1>5 DEF TypeOK
    <3> QED
      BY <2>2, <3>1, <1>2, <1>5 DEF DoneIsDisk, TypeOK
  <2> QED
    BY <2>1, <2>2
<1>13. FreeIsIdle'
  BY <1>2, <1>5, <1>7 DEF FreeIsIdle, Free, TypeOK
<1>14. DelayedIsDone'
  BY <1>1, <1>2, <1>5 DEF DelayedIsDone, TypeOK
<1>15. CursorOnList' /\ FlushedBehind'
  BY <1>1, <1>5 DEF CursorOnList, FlushedBehind
<1> QED
  BY <1>8, <1>9, <1>10, <1>11, <1>12, <1>13, <1>14, <1>15

\* Memory as Initialize leaves it, in a process that holds no buffer.
Started ==
    /\ flags = InitFlags
    /\ blk = InitBlk
    /\ fwd = InitFwd
    /\ bck = InitBck
    /\ held = [k \in Block |-> Nil]
    /\ cursor = Idle

LEMMA StartSound == Started => Sound
<1> SUFFICES ASSUME Started PROVE Sound
  OBVIOUS
<1> USE DEF Started
<1>1. Free = Buf
  BY DEF Free, InitFlags
<1>2. FreeListLinked /\ FreeListOrdered
  BY <1>1, InitLinked, InitOrdered DEF FreeListLinked, FreeListOrdered
<1>3. HeldIsMine /\ LeakIsClean
  BY DEF HeldIsMine, LeakIsClean, Leaked, InUse, InitFlags
<1> QED
  BY <1>2, <1>3 DEF Sound, DoneIsDisk, FreeIsIdle, DelayedIsDone, CursorOnList, FlushedBehind, Free,
     InitFlags

LEMMA SoundStep ==
    ASSUME IInv, [Next]_vars
    PROVE  Sound'
<1> USE DEF IInv
<1>1. ASSUME NEW k \in Block, NEW new \in BOOLEAN, Ask(k, new) PROVE Sound'
  BY <1>1 DEF Ask, Ready, Sound, FreeListLinked, FreeListOrdered, HeldIsMine, LeakIsClean,
     Leaked, InUse, DoneIsDisk, FreeIsIdle, DelayedIsDone, CursorOnList, FlushedBehind, Free
<1>2. ASSUME busyHit' PROVE Sound'
  BY <1>2 DEF Sound, FreeListLinked, FreeListOrdered, HeldIsMine, LeakIsClean,
     DoneIsDisk, FreeIsIdle, DelayedIsDone, CursorOnList, FlushedBehind
<1>3. ASSUME ~busyHit', NEW k \in Block, Release(k) PROVE Sound'
  <2>1. held[k] \in Buf /\ ~busyHit /\ blk[held[k]] = k
    BY <1>3 DEF Release, CanFinish, Finish, Node, Nil, FL, TypeOK, Sound, HeldIsMine, InUse
  <2>2. "DONE" \in flags[held[k]] /\ "DELWRI" \notin flags[held[k]] => data[held[k]] = disk[k]
    <3>1. \A j \in fresh : held[j] # held[k]
      BY <1>3, <2>1 DEF Release, Sound, HeldIsMine, CallerOrder, InUse, TypeOK
    <3> QED
      BY <2>1, <3>1 DEF Sound, DoneIsDisk
  <2>3. /\ flags[held[k]] \in SUBSET Flag /\ data[held[k]] \in Data /\ disk[k] \in Data
        /\ data' = [data EXCEPT ![held[k]] = data[held[k]]]
        /\ disk' = [disk EXCEPT ![k] = disk[k]]
    BY <1>3, <2>1 DEF Release, TypeOK
  <2>4. "DELWRI" \in flags[held[k]] => "DONE" \in flags[held[k]]
    BY <2>1 DEF Sound, DelayedIsDone
  <2>5. CanFinish(k) /\ Brelse(held[k], flags[held[k]]) /\ Finish(k)
    BY <1>3 DEF Release
  <2> QED
    BY <2>1, <2>2, <2>3, <2>4, <2>5, FinishSound
<1>4. ASSUME ~busyHit', NEW k \in Block, NEW d \in Data, Bdwrite(k, d) PROVE Sound'
  <2>1. held[k] \in Buf /\ ~busyHit
    BY <1>4 DEF Bdwrite, CanFinish, Finish, Node, Nil, FL, TypeOK
  <2>2. /\ DelayedFlags(flags[held[k]]) \in SUBSET Flag
        /\ "DONE" \in DelayedFlags(flags[held[k]]) /\ "DELWRI" \in DelayedFlags(flags[held[k]])
    BY <2>1 DEF DelayedFlags, TypeOK, Flag
  <2>3. disk[k] \in Data /\ disk' = [disk EXCEPT ![k] = disk[k]]
    BY <1>4 DEF Bdwrite, TypeOK
  <2>4. /\ CanFinish(k) /\ Brelse(held[k], DelayedFlags(flags[held[k]])) /\ Finish(k)
        /\ data' = [data EXCEPT ![held[k]] = d]
    BY <1>4 DEF Bdwrite
  <2> QED
    BY <2>1, <2>2, <2>3, <2>4, FinishSound
<1>5. ASSUME ~busyHit', NEW k \in Block, NEW d \in Data, Bwrite(k, d) PROVE Sound'
  <2>1. held[k] \in Buf /\ ~busyHit /\ blk[held[k]] = k /\ "ASYNC" \notin flags[held[k]]
    BY <1>5 DEF Bwrite, CanFinish, Finish, Node, Nil, FL, TypeOK, Sound, HeldIsMine, InUse
  <2> DEFINE fl == flags[held[k]] \ {"DONE", "DELWRI"}
  <2>2. fl \in SUBSET Flag /\ "DONE" \notin fl /\ "DELWRI" \notin fl
    BY <2>1 DEF TypeOK
  <2>3. /\ CanFinish(k) /\ Brelse(held[k], fl) /\ Finish(k)
        /\ data' = [data EXCEPT ![held[k]] = d]
        /\ disk' = [disk EXCEPT ![k] = d]
    BY <1>5, <2>1 DEF Bwrite
  <2> HIDE DEF fl
  <2> QED
    BY <2>1, <2>2, <2>3, FinishSound
<1>6. ASSUME ~busyHit', FlushStart PROVE Sound'
  <2>1. cursor' = fwd[FL] /\ ~busyHit /\ UNCHANGED <<flags, blk, data, fwd, bck, disk, held, fresh, busyHit>>
    BY <1>6 DEF FlushStart, FlushFirst, Head
  <2>2. fwd[FL] \in Free \cup {FL}
    BY <2>1 DEF Sound, FreeListLinked, Linked
  <2>3. FlushedBehind'
    <3>1. PICK after \in [Free \cup {FL} -> SUBSET Free] : Line(Free, fwd, after)
      BY <2>1 DEF Sound, FreeListOrdered, Ordered
    <3>2. /\ after[FL] = Free
          /\ \/ fwd[FL] = FL /\ after[FL] = {}
             \/ fwd[FL] \in Free /\ after[FL] = {fwd[FL]} \cup after[fwd[FL]]
      BY <3>1 DEF Line
    <3>3. \A b \in Free : fwd[FL] # FL /\ b \in {fwd[FL]} \cup after[fwd[FL]]
      BY <3>2 DEF Free, Buf, FL
    <3>4. Free' = Free /\ fwd' = fwd /\ flags' = flags
      BY <2>1 DEF Free
    <3> QED
      BY <2>1, <3>1, <3>3, <3>4 DEF FlushedBehind
  <2>4. /\ FreeListLinked' /\ FreeListOrdered' /\ HeldIsMine' /\ LeakIsClean' /\ DoneIsDisk'
        /\ FreeIsIdle' /\ DelayedIsDone' /\ CursorOnList'
    BY <2>1, <2>2 DEF Sound, FreeListLinked, FreeListOrdered, HeldIsMine, LeakIsClean,
       Leaked, InUse, DoneIsDisk, FreeIsIdle, DelayedIsDone, CursorOnList, Free
  <2> QED
    BY <2>3, <2>4 DEF Sound
<1>7. ASSUME ~busyHit', NEW b \in Buf, Hit(b) PROVE Sound'
  <2>1. ~busyHit /\ b \in Free
    BY <1>7 DEF Hit, Return, Free
  <2>2. flags[b] \cup {"BUSY"} \in SUBSET Flag
    BY DEF TypeOK, Flag
  <2>3. /\ Searching /\ blk[b] = req.blk
        /\ Return(b, flags[b] \cup {"BUSY"}, UnlinkFwd(b), UnlinkBck(b))
    BY <1>7 DEF Hit, Found
  <2> QED
    BY <2>1, <2>2, <2>3, ReturnSound
<1>8. ASSUME ~busyHit', WriteBack PROVE Sound'
  <2>1. ~busyHit /\ Head \in Free
    BY <1>8 DEF WriteBack, Head, FreeEmpty, Sound, FreeListLinked, Linked
  <2>2. cursor' = Idle
    BY <1>8 DEF WriteBack, Miss, Searching, CallerOrder
  <2>3. /\ "DELWRI" \in flags[Head] /\ NotAvail(Head, SentFlags(flags[Head]))
        /\ disk' = Written(Head) /\ UNCHANGED <<blk, data, held, fresh, busyHit>>
        /\ cursor' = cursor
    BY <1>8 DEF WriteBack
  <2> QED
    BY <2>1, <2>2, <2>3, SendSound
<1>9. ASSUME ~busyHit', Claim PROVE Sound'
  <2>1. ~busyHit /\ Head \in Free
    BY <1>9 DEF Claim, Return, Head, FreeEmpty, Sound, FreeListLinked, Linked
  <2>2. {"BUSY"} \in SUBSET Flag
    BY DEF Flag
  <2>3. /\ Searching /\ \A c \in Buf : blk[c] # req.blk
        /\ Return(Head, {"BUSY"}, UnlinkFwd(Head), UnlinkBck(Head))
    BY <1>9 DEF Claim, Miss
  <2> QED
    BY <2>1, <2>2, <2>3, ReturnSound
<1>10. ASSUME ~busyHit', FlushWrite PROVE Sound'
  <2>1. ~busyHit /\ cursor \in Free
    BY <1>10 DEF FlushWrite, Sound, CursorOnList, Buf, FL, Idle
  <2>2. fwd'[cursor] = fwd[cursor]
    <3>1. cursor \in Node /\ bck[cursor] # cursor
      <4>1. fwd[cursor] # cursor
        <5>1. Free \in SUBSET Buf /\ Linked(Free, fwd, bck) /\ Ordered(Free, fwd)
          BY <2>1 DEF Sound, FreeListOrdered, FreeListLinked, Free
        <5> QED
          BY <2>1, <5>1, UnlinkOrdered
      <4>2. cursor \in Node /\ fwd[bck[cursor]] = cursor
        BY <2>1 DEF Sound, FreeListLinked, Linked, Free, Node
      <4> QED
        BY <4>1, <4>2
    <3> QED
      BY <1>10, <3>1 DEF FlushWrite, NotAvail, UnlinkFwd, TypeOK
  <2>3. /\ "DELWRI" \in flags[cursor] /\ NotAvail(cursor, SentFlags(flags[cursor]))
        /\ disk' = Written(cursor) /\ UNCHANGED <<blk, data, held, fresh, busyHit>>
        /\ cursor' = fwd[cursor]
    BY <1>10, <2>2 DEF FlushWrite
  <2> QED
    BY <2>1, <2>3, SendSound
<1>11. ASSUME ~busyHit', FlushSkip PROVE Sound'
  <2>1. /\ ~busyHit /\ cursor' = fwd[cursor] /\ cursor \in Free
        /\ UNCHANGED <<flags, blk, data, fwd, bck, disk, held, fresh, busyHit>>
    BY <1>11 DEF FlushSkip, Sound, CursorOnList, Buf, FL, Idle
  <2>2. fwd[cursor] \in Free \cup {FL}
    BY <2>1 DEF Sound, FreeListLinked, Linked
  <2>3. FlushedBehind'
    <3>1. PICK after \in [Free \cup {FL} -> SUBSET Free] :
            /\ Line(Free, fwd, after)
            /\ \A b \in Free : "DELWRI" \in flags[b] => cursor # FL /\ b \in {cursor} \cup after[cursor]
      <4>1. cursor # Idle
        BY <2>1 DEF Free, Buf, Idle
      <4>2. FlushedBehind
        BY DEF Sound
      <4> QED
        BY <2>1, <4>1, <4>2 DEF FlushedBehind
    <3>2. \/ fwd[cursor] = FL /\ after[cursor] = {}
          \/ fwd[cursor] \in Free /\ after[cursor] = {fwd[cursor]} \cup after[fwd[cursor]]
      BY <2>1, <3>1 DEF Line
    <3>3. "DELWRI" \notin flags[cursor]
      BY <1>11 DEF FlushSkip
    <3>4. \A b \in Free : "DELWRI" \in flags[b] =>
                fwd[cursor] # FL /\ b \in {fwd[cursor]} \cup after[fwd[cursor]]
      BY <3>1, <3>2, <3>3 DEF Free, Buf, FL
    <3>5. Free' = Free /\ fwd' = fwd /\ flags' = flags
      BY <2>1 DEF Free
    <3> QED
      BY <2>1, <3>1, <3>4, <3>5 DEF FlushedBehind
  <2>4. /\ FreeListLinked' /\ FreeListOrdered' /\ HeldIsMine' /\ LeakIsClean' /\ DoneIsDisk'
        /\ FreeIsIdle' /\ DelayedIsDone' /\ CursorOnList'
    BY <2>1, <2>2 DEF Sound, FreeListLinked, FreeListOrdered, HeldIsMine, LeakIsClean,
       Leaked, InUse, DoneIsDisk, FreeIsIdle, DelayedIsDone, CursorOnList, Free
  <2> QED
    BY <2>3, <2>4 DEF Sound
<1>12. CASE FlushEnd
  BY <1>12 DEF FlushEnd, Sound, FreeListLinked, FreeListOrdered, HeldIsMine, LeakIsClean,
     Leaked, InUse, DoneIsDisk, FreeIsIdle, DelayedIsDone, CursorOnList, FlushedBehind, Free
<1>13. CASE Restart
  <2>1. Started'
    BY <1>13 DEF Restart, Started, InitFlags, InitBlk, InitFwd, InitBck, Idle, Nil, Buf, Node, FL
  <2>2. Started' => Sound'
    BY StartSound, PTL
  <2> QED
    BY <2>1, <2>2
<1>14. CASE UNCHANGED vars
  <2>1. UNCHANGED <<flags, blk, data, fwd, bck, disk, held, fresh, cursor, busyHit>>
    BY <1>14 DEF vars
  <2>2. Free' = Free /\ Leaked' = Leaked /\ InUse' = InUse
    BY <2>1 DEF Free, Leaked, InUse
  <2>3. FreeListLinked' /\ FreeListOrdered' /\ CursorOnList'
    BY <2>1, <2>2 DEF Sound, FreeListLinked, FreeListOrdered, CursorOnList
  <2>4. FlushedBehind'
    BY <2>1, <2>2 DEF Sound, FlushedBehind
  <2>5. HeldIsMine' /\ LeakIsClean' /\ DoneIsDisk' /\ FreeIsIdle' /\ DelayedIsDone'
    BY <2>1, <2>2 DEF Sound, HeldIsMine, LeakIsClean, DoneIsDisk, FreeIsIdle, DelayedIsDone
  <2> QED
    BY <2>3, <2>4, <2>5 DEF Sound
<1>15. ASSUME NEW b \in Buf, BusyHit(b) PROVE Sound'
  BY <1>2, <1>15 DEF BusyHit
<1> QED
  BY <1>1, <1>2, <1>3, <1>4, <1>5, <1>6, <1>7, <1>8, <1>9, <1>10, <1>11, <1>12, <1>13, <1>14,
     <1>15 DEF Next, Caller, GetBlkTurn, FlushTurn

\* The inductive invariant: as long as no search has met a busy buffer, the
\* free list, the buffers in use, the leaked ones and the delayed writes are
\* what the code above the cache takes them to be.
THEOREM CacheInvariant == Spec => []IInv
<1>1. Init => IInv
  <2>1. Init => TypeOK
    BY InitTypes DEF Init, TypeOK
  <2>2. Init => Started
    BY DEF Init, Started
  <2>3. Init => UniqueCopy /\ CallerOrder
    BY DEF Init, InitBlk, UniqueCopy, CallerOrder
  <2> QED
    BY <2>1, <2>2, <2>3, StartSound DEF IInv
<1>2. IInv /\ [Next]_vars => IInv'
  BY TypeStep, UniqueStep, CallerStep, SoundStep DEF IInv
<1> QED
  BY <1>1, <1>2, PTL DEF Spec

\* The buffer a caller holds is the one of its block, B_BUSY and not B_ASYNC:
\* nobody evicts it, and the Brelse, Bwrite or Bdwrite that ends its use acts
\* on the block it was asked for.
THEOREM HeldBuffersAreMine == Spec => []HeldIsMine
BY CacheInvariant, PTL DEF IInv, Sound

\* A buffer that is lost to the free list has nothing left to write.
THEOREM LeaksLoseNoData == Spec => []LeakIsClean
BY CacheInvariant, PTL DEF IInv, Sound

\* B_DONE means what the comment of Brelse says: without a delayed write
\* pending, the buffer equals the disk.
THEOREM DoneMeansContent == Spec => []DoneIsDisk
BY CacheInvariant, PTL DEF IInv, Sound

\* The free list is linked both ways and has no ring apart from the header.
THEOREM FreeListSound == Spec => [](FreeListLinked /\ FreeListOrdered)
BY CacheInvariant, PTL DEF IInv, Sound

\* The walk from the header along a line of buffers reaches each of them, after as
\* many steps as the buffers on the line from the header to it.
LEMMA WalkReaches ==
    ASSUME NEW F \in SUBSET Buf, Ordered(F, fwd), Linked(F, fwd, bck)
    PROVE  Walk[NBUF] = F \cup {FL}
<1>1. PICK after \in [F \cup {FL} -> SUBSET F] : Line(F, fwd, after)
  BY DEF Ordered
<1> DEFINE size(x) == Cardinality(after[x])
           W == [n \in Nat |-> {FL} \cup {x \in F : Cardinality(F) <= size(x) + n}]
<1>2. IsFiniteSet(F) /\ Cardinality(F) \in Nat /\ Cardinality(F) <= NBUF
  <2>1. IsFiniteSet(Buf) /\ Cardinality(Buf) = NBUF
    BY FS_Interval DEF Buf
  <2> QED
    BY <2>1, FS_Subset, FS_CardinalityType
<1>3. ASSUME NEW x \in F \cup {FL} PROVE IsFiniteSet(after[x]) /\ size(x) \in Nat
  BY <1>2, FS_Subset, FS_CardinalityType
<1>4. ASSUME NEW x \in F \cup {FL}, fwd[x] # FL
      PROVE  fwd[x] \in F /\ size(x) = size(fwd[x]) + 1
  <2>1. /\ fwd[x] \in F /\ after[x] = after[fwd[x]] \cup {fwd[x]}
        /\ fwd[x] \notin after[fwd[x]]
    BY <1>1, <1>4 DEF Line
  <2> QED
    BY <1>3, <2>1, FS_AddElement
<1>5. size(FL) = Cardinality(F) /\ FL \notin F
  BY <1>1 DEF Line, Buf, FL
<1>6. ASSUME NEW x \in F PROVE size(x) + 1 <= Cardinality(F)
  <2>1. x \notin after[x] /\ after[x] \cup {x} \in SUBSET F
    BY <1>1 DEF Line
  <2>2. Cardinality(after[x] \cup {x}) = size(x) + 1
    BY <1>3, <2>1, FS_AddElement
  <2>3. Cardinality(after[x] \cup {x}) <= Cardinality(F)
    BY <1>2, <2>1, FS_Subset
  <2> QED
    BY <2>2, <2>3
<1> HIDE DEF size
<1>7. W[0] = {FL}
  BY <1>2, <1>3, <1>6
<1>8. ASSUME NEW n \in Nat, n # 0
      PROVE  W[n] = W[n - 1] \cup {fwd[x] : x \in W[n - 1]}
  <2>0. n - 1 \in Nat
    BY <1>8
  <2>1. ASSUME NEW y \in W[n - 1] PROVE y \in W[n]
    BY <1>2, <1>3, <2>0, <2>1
  <2>2. ASSUME NEW x \in W[n - 1] PROVE fwd[x] \in W[n]
    <3>1. x \in F \cup {FL} /\ Cardinality(F) <= size(x) + (n - 1)
      BY <1>2, <1>3, <1>5, <2>0, <2>2
    <3>2. CASE fwd[x] # FL
      <4>1. fwd[x] \in F /\ size(x) = size(fwd[x]) + 1 /\ size(fwd[x]) \in Nat
        BY <1>3, <1>4, <3>1, <3>2
      <4> QED
        BY <1>2, <3>1, <4>1
    <3> QED
      BY <3>2
  <2>3. ASSUME NEW y \in W[n], y \notin W[n - 1] PROVE \E x \in W[n - 1] : fwd[x] = y
    <3>1. y \in F /\ y # FL /\ Cardinality(F) <= size(y) + n
      BY <1>5, <2>0, <2>3
    <3>2. bck[y] \in F \cup {FL} /\ fwd[bck[y]] = y
      BY <3>1 DEF Linked
    <3>3. size(bck[y]) = size(y) + 1 /\ size(y) \in Nat
      BY <1>3, <1>4, <3>1, <3>2
    <3>4. bck[y] \in W[n - 1]
      BY <1>2, <2>0, <3>1, <3>2, <3>3
    <3> QED
      BY <3>2, <3>4
  <2> HIDE DEF W
  <2> QED
    BY <2>1, <2>2, <2>3
<1>9. W[NBUF] = F \cup {FL}
  BY <1>2, <1>3
<1>10. Walk = [n \in Nat |-> IF n = 0 THEN {FL}
                             ELSE Walk[n - 1] \cup {fwd[x] : x \in Walk[n - 1]}]
  <2>1. W = [n \in Nat |-> IF n = 0 THEN {FL} ELSE W[n - 1] \cup {fwd[x] : x \in W[n - 1]}]
    <3> DEFINE V == [n \in Nat |-> IF n = 0 THEN {FL}
                                   ELSE W[n - 1] \cup {fwd[x] : x \in W[n - 1]}]
    <3>1. W = [n \in Nat |-> W[n]]
      OBVIOUS
    <3> HIDE DEF W
    <3>2. ASSUME NEW n \in Nat PROVE W[n] = V[n]
      BY <1>7, <1>8
    <3>3. V = [n \in Nat |-> V[n]]
      OBVIOUS
    <3> HIDE DEF V
    <3>4. W = V
      BY <3>1, <3>2, <3>3
    <3> QED
      BY <3>4 DEF V
  <2> HIDE DEF W
  <2>2. \E f : f = [n \in Nat |-> IF n = 0 THEN {FL}
                                  ELSE f[n - 1] \cup {fwd[x] : x \in f[n - 1]}]
    BY <2>1
  <2> QED
    BY <2>2 DEF Walk
<1> HIDE DEF W
<1>11. ASSUME NEW n \in Nat, Walk[n] # W[n] PROVE FALSE
  <2> DEFINE S == {m \in Nat : Walk[m] # W[m]}
  <2>1. PICK m \in S : \A q \in S : m <= q
    BY <1>11, LeastElement
  <2>2. CASE m = 0
    <3>1. Walk[0] = {FL}
      BY <1>10
    <3> QED
      BY <1>7, <2>1, <2>2, <3>1
  <2>3. CASE m # 0
    <3>1. m - 1 \in Nat /\ m - 1 \notin S
      BY <2>1, <2>3
    <3>2. Walk[m - 1] = W[m - 1]
      BY <3>1
    <3>3. Walk[m] = Walk[m - 1] \cup {fwd[x] : x \in Walk[m - 1]}
      BY <1>10, <2>1, <2>3
    <3>4. W[m] = W[m - 1] \cup {fwd[x] : x \in W[m - 1]}
      BY <1>8, <2>1, <2>3
    <3> QED
      BY <2>1, <3>2, <3>3, <3>4
  <2> QED
    BY <2>2, <2>3
<1> QED
  BY <1>9, <1>11

\* A walk along av_forw from the header, which is how GetBlk looks for a buffer to
\* reuse (BufferManager.cpp:90) and how Bflush finds the delayed writes (:264-283),
\* meets every buffer that is not in use, until a search has met a busy buffer.
THEOREM FreeListIsWhole == Spec => []FreeListWhole
<1>1. IInv => FreeListWhole
  <2>1. Free \in SUBSET Buf
    BY DEF Free
  <2> QED
    BY <2>1, WalkReaches DEF IInv, Sound, FreeListLinked, FreeListOrdered, FreeListWhole
<1> QED
  BY <1>1, CacheInvariant, PTL

-----------------------------------------------------------------------------
(* The cache implements the block store.                                   *)

\* What a reader gets, in terms of the block's one buffer.
LEMMA CurrentValue ==
    TypeOK /\ UniqueCopy =>
        \A k \in Block :
            /\ \A b \in Buf : blk[b] = k =>
                 Current(k) = IF "DONE" \in flags[b] \/ k \in fresh THEN data[b] ELSE disk[k]
            /\ (\A b \in Buf : blk[b] # k) => Current(k) = disk[k]
<1> SUFFICES ASSUME TypeOK, UniqueCopy, NEW k \in Block
             PROVE  /\ \A b \in Buf : blk[b] = k =>
                         Current(k) = IF "DONE" \in flags[b] \/ k \in fresh THEN data[b] ELSE disk[k]
                    /\ (\A b \in Buf : blk[b] # k) => Current(k) = disk[k]
  OBVIOUS
<1>1. ASSUME NEW b \in Buf, blk[b] = k
      PROVE  Current(k) = IF "DONE" \in flags[b] \/ k \in fresh THEN data[b] ELSE disk[k]
  <2>1. \A c \in Buf : blk[c] = k => c = b
    BY <1>1 DEF UniqueCopy
  <2> DEFINE c == CHOOSE x \in Buf : blk[x] = k
  <2>2. c \in Buf /\ blk[c] = k
    BY <1>1
  <2>3. c = b
    BY <2>1, <2>2
  <2> QED
    BY <1>1, <2>1, <2>3 DEF Current
<1>2. ASSUME \A b \in Buf : blk[b] # k PROVE Current(k) = disk[k]
  BY <1>2 DEF Current
<1> QED
  BY <1>1, <1>2

\* When the walk of Bflush comes back to the header, no delayed write is left: every
\* reader gets what is on the disk.  A write-back takes its buffer off the list in the
\* middle of the walk, and the walk goes on from the pointer it left in it.
THEOREM FlushReachesDisk == Spec => []FlushComplete
<1>1. IInv => FlushComplete
  <2> SUFFICES ASSUME IInv, ~busyHit, cursor = FL PROVE Content = disk
    BY DEF FlushComplete
  <2>1. cursor # Idle
    BY DEF FL, Idle
  <2>2. \A b \in Free : "DELWRI" \notin flags[b]
    <3>1. FlushedBehind
      BY DEF IInv, Sound
    <3> QED
      BY <2>1, <3>1 DEF FlushedBehind
  <2>3. InUse = {} /\ fresh = {}
    BY <2>1 DEF IInv, CallerOrder
  <2>4. ASSUME NEW b \in Buf, "DONE" \in flags[b]
        PROVE  blk[b] # NoBlk /\ data[b] = disk[blk[b]]
    <3>1. CASE "BUSY" \in flags[b]
      <4>1. \A k \in Block : held[k] # b
        BY <2>3 DEF InUse, Buf, Nil
      <4>2. flags[b] = {"BUSY", "ASYNC"}
        BY <3>1, <4>1 DEF IInv, Sound, LeakIsClean, Leaked
      <4> QED
        BY <2>4, <4>2
    <3>2. CASE "BUSY" \notin flags[b]
      <4>1. "DELWRI" \notin flags[b]
        BY <2>2, <3>2 DEF Free
      <4> QED
        BY <2>3, <2>4, <4>1 DEF IInv, Sound, DoneIsDisk
    <3> QED
      BY <3>1, <3>2
  <2>5. ASSUME NEW k \in Block PROVE Current(k) = disk[k]
    <3>1. CASE \A b \in Buf : blk[b] # k
      BY <3>1, CurrentValue DEF IInv
    <3>2. ASSUME NEW b \in Buf, blk[b] = k PROVE Current(k) = disk[k]
      <4>1. Current(k) = IF "DONE" \in flags[b] \/ k \in fresh THEN data[b] ELSE disk[k]
        BY <3>2, CurrentValue DEF IInv
      <4> QED
        BY <2>3, <2>4, <3>2, <4>1
    <3> QED
      BY <3>1, <3>2
  <2>6. disk = [k \in Block |-> disk[k]]
    BY DEF IInv, TypeOK
  <2> QED
    BY <2>5, <2>6 DEF Content
<1> QED
  BY <1>1, CacheInvariant, PTL

\* The same after a step.
LEMMA CurrentValueNext == IInv /\ [Next]_vars => (TypeOK /\ UniqueCopy)' /\
        \A k \in Block :
            /\ \A b \in Buf : blk'[b] = k =>
                 Current(k)' = IF "DONE" \in flags'[b] \/ k \in fresh' THEN data'[b] ELSE disk'[k]
            /\ (\A b \in Buf : blk'[b] # k) => Current(k)' = disk'[k]
<1>1. (TypeOK /\ UniqueCopy =>
        \A k \in Block :
            /\ \A b \in Buf : blk[b] = k =>
                 Current(k) = IF "DONE" \in flags[b] \/ k \in fresh THEN data[b] ELSE disk[k]
            /\ (\A b \in Buf : blk[b] # k) => Current(k) = disk[k])'
  BY CurrentValue, PTL
<1> QED
  BY <1>1, TypeStep, UniqueStep DEF IInv

\* Content is what the readers of all blocks get.
LEMMA SameContent ==
    ASSUME \A k \in Block : Current(k)' = Current(k)
    PROVE  Content' = Content
BY DEF Content

\* A caller gives back the buffer of k.
LEMMA FinishStore ==
    ASSUME IInv, [Next]_vars, ~busyHit, NEW k \in Block, CanFinish(k), Finish(k),
           NEW fl, NEW d, NEW e,
           flags' = [flags EXCEPT ![held[k]] = fl],
           data' = [data EXCEPT ![held[k]] = d],
           disk' = [disk EXCEPT ![k] = e]
    PROVE  /\ k \in InUse /\ InUse' = InUse \ {k}
           /\ Current(k) = IF "DONE" \in flags[held[k]] \/ k \in fresh
                           THEN data[held[k]] ELSE disk[k]
           /\ Current(k)' = IF "DONE" \in fl THEN d ELSE e
           /\ \A j \in Block \ {k} : Current(j)' = Current(j)
<1> USE DEF IInv
<1>1. held[k] \in Buf /\ blk[held[k]] = k /\ k \in InUse /\ k # NoBlk
  BY DEF CanFinish, Sound, HeldIsMine, InUse, TypeOK, Node, Nil, FL
<1>2. InUse' = InUse \ {k}
  BY DEF Finish, InUse, TypeOK
<1>3. blk' = blk /\ fresh' = fresh \ {k}
  BY DEF Finish
<1>4. Current(k) = IF "DONE" \in flags[held[k]] \/ k \in fresh THEN data[held[k]] ELSE disk[k]
  BY <1>1, CurrentValue
<1>5. Current(k)' = IF "DONE" \in fl THEN d ELSE e
  <2>1. Current(k)' = IF "DONE" \in flags'[held[k]] \/ k \in fresh'
                      THEN data'[held[k]] ELSE disk'[k]
    BY <1>1, <1>3, CurrentValueNext
  <2> QED
    BY <1>1, <1>3, <2>1 DEF TypeOK
<1>6. ASSUME NEW j \in Block \ {k} PROVE Current(j)' = Current(j)
  <2>1. disk'[j] = disk[j] /\ (j \in fresh' <=> j \in fresh)
    BY <1>3 DEF TypeOK
  <2>2. CASE \E b \in Buf : blk[b] = j
    <3>1. PICK b \in Buf : blk[b] = j
      BY <2>2
    <3>2. flags'[b] = flags[b] /\ data'[b] = data[b]
      BY <1>1, <3>1 DEF TypeOK
    <3>3. Current(j) = IF "DONE" \in flags[b] \/ j \in fresh THEN data[b] ELSE disk[j]
      BY <3>1, CurrentValue
    <3>4. Current(j)' = IF "DONE" \in flags'[b] \/ j \in fresh' THEN data'[b] ELSE disk'[j]
      BY <1>3, <3>1, CurrentValueNext
    <3> QED
      BY <2>1, <3>2, <3>3, <3>4
  <2>3. CASE \A b \in Buf : blk[b] # j
    BY <2>1, <2>3, <1>3, CurrentValue, CurrentValueNext
  <2> QED
    BY <2>2, <2>3
<1> QED
  BY <1>1, <1>2, <1>4, <1>5, <1>6

\* A delayed write of the free list goes to the disk: its block persists.
LEMMA SendStore ==
    ASSUME IInv, [Next]_vars, ~busyHit, NEW b \in Free, "DELWRI" \in flags[b],
           NEW k \in Block, blk[b] = k,
           NotAvail(b, SentFlags(flags[b])), disk' = Written(b),
           UNCHANGED <<blk, data, held, fresh, busyHit>>
    PROVE  Store!Operate
<1> USE DEF IInv
<1>1. b \in Buf /\ k \in Block /\ "DONE" \in flags[b] /\ "BUSY" \notin flags[b]
  BY DEF Free, Sound, DelayedIsDone
<1>2. k \notin InUse
  <2>1. k \in InUse => held[k] = b
    BY <1>1 DEF Sound, HeldIsMine, UniqueCopy, InUse, TypeOK, Node, Nil, FL
  <2> QED
    BY <1>1, <2>1 DEF Sound, HeldIsMine
<1>3. "DONE" \notin flags'[b] /\ \A c \in Buf : c # b => flags'[c] = flags[c]
  BY <1>1 DEF NotAvail, SentFlags, TypeOK
<1>4. disk' = [disk EXCEPT ![k] = data[b]]
  BY DEF Written
<1>5. Current(k) = data[b]
  BY <1>1, CurrentValue
<1>6. Current(k)' = data[b]
  <2>1. k \notin fresh
    BY <1>2 DEF CallerOrder
  <2>2. Current(k)' = disk'[k]
    BY <1>1, <1>3, <2>1, CurrentValueNext
  <2> QED
    BY <1>1, <1>4, <2>2 DEF TypeOK
<1>7. ASSUME NEW j \in Block, j # k PROVE Current(j)' = Current(j)
  <2>1. disk'[j] = disk[j]
    BY <1>1, <1>4, <1>7 DEF TypeOK
  <2>2. CASE \E c \in Buf : blk[c] = j
    <3>1. PICK c \in Buf : blk[c] = j
      BY <2>2
    <3>2. c # b
      BY <3>1, <1>7
    <3> QED
      BY <2>1, <3>1, <3>2, <1>3, CurrentValue, CurrentValueNext
  <2>3. CASE \A c \in Buf : blk[c] # j
    BY <2>1, <2>3, CurrentValue, CurrentValueNext
  <2> QED
    BY <2>2, <2>3
<1>8. Content' = Content
  BY <1>5, <1>6, <1>7, SameContent
<1>9. Content[k] = data[b]
  BY <1>1, <1>5 DEF Content
<1>10. InUse' = InUse
  BY DEF InUse
<1>11. Store!Persist(k)
  BY <1>4, <1>8, <1>9, <1>10 DEF Store!Persist
<1> QED
  BY <1>1, <1>2, <1>11 DEF Store!Operate

\* GetBlk returns buffer b of the free list for block k.
LEMMA ReturnStore ==
    ASSUME IInv, [Next]_vars, ~busyHit, Searching, NEW b \in Free, NEW k \in Block, req.blk = k,
           NEW fl, NEW f, NEW g, Return(b, fl, f, g),
           "BUSY" \in fl, "ASYNC" \notin fl,
           \/ blk[b] = k /\ fl = flags[b] \cup {"BUSY"}
           \/ (\A c \in Buf : blk[c] # k) /\ fl = {"BUSY"} /\ "DELWRI" \notin flags[b]
    PROVE  Store!Operate
<1> USE DEF IInv
<1>1. b \in Buf /\ k # NoBlk /\ req.new \in BOOLEAN /\ "BUSY" \notin flags[b]
  BY SearchingRequest DEF Free
<1>2. held[k] = Nil /\ k \notin InUse /\ k \notin fresh
  BY DEF Searching, CallerOrder, InUse
<1>3. \A j \in Block : held[j] # b
  BY <1>1 DEF Sound, HeldIsMine, InUse, Buf, Nil
<1>4. /\ held' = [held EXCEPT ![k] = b]
      /\ blk' = [blk EXCEPT ![b] = k]
      /\ disk' = disk /\ busyHit' = busyHit
      /\ fresh' = IF req.new THEN fresh \cup {k} ELSE fresh
      /\ data' = [data EXCEPT ![b] = IF req.new THEN Zero
                                     ELSE IF "DONE" \in fl THEN data[b] ELSE disk[k]]
      /\ flags' = [flags EXCEPT ![b] = IF req.new THEN fl ELSE fl \cup {"DONE"}]
  BY <1>1 DEF Return, Loaded, TypeOK
<1>5. InUse' = InUse \cup {k}
  BY <1>1, <1>4 DEF InUse, TypeOK, Buf, Nil
<1>6. Current(k) = IF "DONE" \in fl THEN data[b] ELSE disk[k]
  BY <1>1, <1>2, CurrentValue
<1>7. Current(k)' = IF req.new THEN Zero ELSE Current(k)
  <2>1. Current(k)' = IF "DONE" \in flags'[b] \/ k \in fresh' THEN data'[b] ELSE disk'[k]
    BY <1>1, <1>4, CurrentValueNext DEF TypeOK
  <2> QED
    BY <1>1, <1>4, <1>6, <2>1 DEF TypeOK
<1>8. ASSUME NEW j \in Block, j # k PROVE Current(j)' = Current(j)
  <2>1. j \in fresh' <=> j \in fresh
    BY <1>4, <1>8
  <2>2. CASE \E c \in Buf : c # b /\ blk[c] = j
    <3>1. PICK c \in Buf : c # b /\ blk[c] = j
      BY <2>2
    <3>2. flags'[c] = flags[c] /\ data'[c] = data[c] /\ blk'[c] = j
      BY <3>1, <1>1, <1>4 DEF TypeOK
    <3> QED
      BY <3>1, <3>2, <2>1, <1>4, CurrentValue, CurrentValueNext
  <2>3. CASE blk[b] = j
    <3>1. "DELWRI" \notin flags[b] /\ \A c \in Buf : blk'[c] # j
      BY <1>1, <1>4, <1>8, <2>3 DEF UniqueCopy, TypeOK
    <3>2. Current(j)' = disk[j]
      BY <3>1, <1>4, CurrentValueNext
    <3>3. "DONE" \in flags[b] => data[b] = disk[j]
      BY <1>1, <1>3, <2>3, <3>1 DEF Sound, DoneIsDisk, TypeOK
    <3>4. j \notin fresh
      <4>1. j \in fresh => held[j] \in Buf /\ blk[held[j]] = j
        BY DEF CallerOrder, Sound, HeldIsMine, InUse, TypeOK, Node, Nil, FL
      <4> QED
        BY <4>1, <1>1, <1>3, <2>3 DEF UniqueCopy, TypeOK
    <3>5. Current(j) = IF "DONE" \in flags[b] \/ j \in fresh THEN data[b] ELSE disk[j]
      BY <1>1, <2>3, CurrentValue
    <3> QED
      BY <3>2, <3>3, <3>4, <3>5
  <2>4. CASE \A c \in Buf : blk[c] # j
    <3>1. \A c \in Buf : blk'[c] # j
      BY <2>4, <1>1, <1>4, <1>8 DEF TypeOK
    <3> QED
      BY <2>4, <3>1, <1>4, CurrentValue, CurrentValueNext
  <2> QED
    BY <2>2, <2>3, <2>4
<1>9. CASE req.new
  <2>1. Content' = [Content EXCEPT ![k] = Zero]
    BY <1>7, <1>8, <1>9 DEF Content
  <2>2. Store!New(k)
    BY <1>4, <1>5, <2>1 DEF Store!New
  <2> QED
    BY <1>2, <1>4, <2>2 DEF Store!Operate
<1>10. CASE ~req.new
  <2>1. Content' = Content
    BY <1>7, <1>8, <1>10 DEF Content
  <2>2. Store!Open(k)
    BY <1>4, <1>5, <2>1 DEF Store!Open
  <2> QED
    BY <1>2, <1>4, <2>2 DEF Store!Operate
<1> QED
  BY <1>9, <1>10

\* Every step of the cache is a step of the store, or none.
LEMMA StoreStep == IInv /\ [Next]_vars => [Store!Next]_Store!bsVars
<1> SUFFICES ASSUME IInv, [Next]_vars PROVE [Store!Next]_Store!bsVars
  OBVIOUS
<1> USE DEF IInv
<1>1. CASE busyHit'
  <2>1. Store!Fault
    BY <1>1 DEF Store!Fault
  <2> QED
    BY <2>1 DEF Store!Next
<1>2. CASE Restart
  <2>1. disk' = disk /\ busyHit' = FALSE /\ InUse' = {}
    BY <1>2 DEF Restart, InUse
  <2>2. ASSUME NEW k \in Block PROVE Current(k)' = disk[k]
    <3>1. \A b \in Buf : blk'[b] # k
      BY <1>2 DEF Restart, InitBlk
    <3> QED
      BY <3>1, <2>1, CurrentValueNext
  <2>3. Content' = disk
    BY <2>2 DEF Content, TypeOK
  <2>4. Store!Restart
    BY <2>1, <2>3 DEF Store!Restart
  <2> QED
    BY <2>4 DEF Store!Next
<1>3. CASE UNCHANGED <<flags, blk, data, disk, held, fresh, busyHit>>
  BY <1>3 DEF Store!bsVars, Content, Current, InUse
<1>4. ASSUME ~busyHit', NEW k \in Block, Release(k) PROVE Store!Operate
  <2> DEFINE b == held[k]
             fl == flags[b] \ {"BUSY", "ASYNC"}
  <2>1. /\ CanFinish(k) /\ Finish(k) /\ k \notin fresh /\ ~busyHit /\ b \in Buf
        /\ UNCHANGED <<data, disk>>
    BY <1>4 DEF Release, CanFinish, Finish, TypeOK, Node, Nil, FL
  <2>2. /\ flags' = [flags EXCEPT ![held[k]] = fl]
        /\ data' = [data EXCEPT ![held[k]] = data[b]]
        /\ disk' = [disk EXCEPT ![k] = disk[k]]
    BY <1>4, <2>1 DEF Release, Brelse, TypeOK
  <2>3. /\ k \in InUse /\ InUse' = InUse \ {k}
        /\ Current(k)' = Current(k)
        /\ \A j \in Block \ {k} : Current(j)' = Current(j)
    <3>1. "DONE" \in fl <=> "DONE" \in flags[b]
      OBVIOUS
    <3> HIDE DEF fl
    <3>2. /\ k \in InUse /\ InUse' = InUse \ {k}
          /\ Current(k) = IF "DONE" \in flags[b] \/ k \in fresh THEN data[b] ELSE disk[k]
          /\ Current(k)' = IF "DONE" \in fl THEN data[b] ELSE disk[k]
          /\ \A j \in Block \ {k} : Current(j)' = Current(j)
      BY <2>1, <2>2, FinishStore
    <3> QED
      BY <2>1, <3>1, <3>2
  <2>4. Store!Close(k)
    BY <2>1, <2>3, SameContent DEF Store!Close
  <2> QED
    BY <1>4, <2>1, <2>3, <2>4 DEF Store!Operate
<1>5. ASSUME ~busyHit', NEW k \in Block, NEW d \in Data, Bdwrite(k, d) PROVE Store!Operate
  <2> DEFINE b == held[k]
             fl == DelayedFlags(flags[b]) \ {"BUSY", "ASYNC"}
  <2>1. CanFinish(k) /\ Finish(k) /\ ~busyHit /\ disk' = disk
    BY <1>5 DEF Bdwrite, CanFinish, Finish
  <2>2. /\ flags' = [flags EXCEPT ![held[k]] = fl]
        /\ data' = [data EXCEPT ![held[k]] = d]
        /\ disk' = [disk EXCEPT ![k] = disk[k]]
    BY <1>5 DEF Bdwrite, Brelse, TypeOK
  <2>3. "DONE" \in fl
    BY DEF DelayedFlags
  <2> HIDE DEF fl
  <2>4. /\ k \in InUse /\ InUse' = InUse \ {k}
        /\ Current(k)' = d
        /\ \A j \in Block \ {k} : Current(j)' = Current(j)
    BY <2>1, <2>2, <2>3, FinishStore
  <2>5. Content' = [Content EXCEPT ![k] = d]
    BY <2>4 DEF Content
  <2>6. Store!Write(k, d)
    BY <2>1, <2>4, <2>5 DEF Store!Write
  <2> QED
    BY <1>5, <2>1, <2>4, <2>6 DEF Store!Operate
<1>6. ASSUME ~busyHit', NEW k \in Block, NEW d \in Data, Bwrite(k, d) PROVE Store!Operate
  <2> DEFINE b == held[k]
             fl == flags[b] \ {"DONE", "DELWRI", "BUSY", "ASYNC"}
  <2>1. CanFinish(k) /\ Finish(k) /\ ~busyHit
    BY <1>6 DEF Bwrite, Finish
  <2>2. "ASYNC" \notin flags[b] /\ blk[b] = k
    BY <2>1 DEF CanFinish, Sound, HeldIsMine, InUse
  <2>3. /\ flags' = [flags EXCEPT ![held[k]] = fl]
        /\ data' = [data EXCEPT ![held[k]] = d]
        /\ disk' = [disk EXCEPT ![k] = d]
    <3>1. (flags[b] \ {"DONE", "DELWRI"}) \ {"BUSY", "ASYNC"} = fl
      OBVIOUS
    <3> QED
      BY <1>6, <2>2, <3>1 DEF Bwrite, Brelse
  <2>4. "DONE" \notin fl
    OBVIOUS
  <2> HIDE DEF fl
  <2>5. /\ k \in InUse /\ InUse' = InUse \ {k}
        /\ Current(k)' = d
        /\ \A j \in Block \ {k} : Current(j)' = Current(j)
    BY <2>1, <2>3, <2>4, FinishStore
  <2>6. Content' = [Content EXCEPT ![k] = d]
    BY <2>5 DEF Content
  <2>7. Store!Write(k, d)
    BY <2>3, <2>5, <2>6 DEF Store!Write
  <2> QED
    BY <1>6, <2>1, <2>5, <2>7 DEF Store!Operate
<1>7. ASSUME ~busyHit', NEW b \in Buf, Hit(b) PROVE Store!Operate
  <2>1. ~busyHit /\ b \in Free /\ Searching /\ "ASYNC" \notin flags[b]
    BY <1>7 DEF Hit, Found, Return, Free, Sound, FreeIsIdle
  <2>2. PICK k \in Block : req.blk = k
    BY <2>1, SearchingRequest
  <2>3. blk[b] = k /\ Return(b, flags[b] \cup {"BUSY"}, UnlinkFwd(b), UnlinkBck(b))
    BY <1>7, <2>2 DEF Hit, Found
  <2> QED
    BY <2>1, <2>2, <2>3, ReturnStore
<1>8. ASSUME ~busyHit', Claim PROVE Store!Operate
  <2>1. ~busyHit /\ Searching /\ Head \in Free /\ "DELWRI" \notin flags[Head]
    BY <1>8 DEF Claim, Miss, Return, Head, FreeEmpty, Sound, FreeListLinked, Linked
  <2>2. PICK k \in Block : req.blk = k
    BY <2>1, SearchingRequest
  <2>3. /\ \A c \in Buf : blk[c] # k
        /\ Return(Head, {"BUSY"}, UnlinkFwd(Head), UnlinkBck(Head))
    BY <1>8, <2>2 DEF Claim, Miss
  <2> QED
    BY <2>1, <2>2, <2>3, ReturnStore
<1>9. ASSUME ~busyHit', WriteBack PROVE Store!Operate
  <2>1. ~busyHit /\ Head \in Free /\ "DELWRI" \in flags[Head]
    BY <1>9 DEF WriteBack, Head, FreeEmpty, Sound, FreeListLinked, Linked
  <2>2. PICK k \in Block : blk[Head] = k
    BY <2>1 DEF Sound, DelayedIsDone, Free
  <2>3. /\ NotAvail(Head, SentFlags(flags[Head])) /\ disk' = Written(Head)
        /\ UNCHANGED <<blk, data, held, fresh, busyHit>>
    BY <1>9 DEF WriteBack
  <2> QED
    BY <2>1, <2>2, <2>3, SendStore
<1>10. ASSUME ~busyHit', FlushWrite PROVE Store!Operate
  <2>1. ~busyHit /\ cursor \in Free /\ "DELWRI" \in flags[cursor]
    BY <1>10 DEF FlushWrite, Sound, CursorOnList, Buf, FL, Idle
  <2>2. PICK k \in Block : blk[cursor] = k
    BY <2>1 DEF Sound, DelayedIsDone, Free
  <2>3. /\ NotAvail(cursor, SentFlags(flags[cursor])) /\ disk' = Written(cursor)
        /\ UNCHANGED <<blk, data, held, fresh, busyHit>>
    BY <1>10 DEF FlushWrite
  <2> QED
    BY <2>1, <2>2, <2>3, SendStore
<1>11. (\E k \in Block, new \in BOOLEAN : Ask(k, new)) \/ FlushStart \/ FlushSkip \/ FlushEnd
         => UNCHANGED <<flags, blk, data, disk, held, fresh, busyHit>>
  BY DEF Ask, FlushStart, FlushSkip, FlushEnd
<1>12. ASSUME NEW b \in Buf, BusyHit(b) PROVE busyHit'
  BY <1>12 DEF BusyHit
<1>13. UNCHANGED vars => UNCHANGED <<flags, blk, data, disk, held, fresh, busyHit>>
  BY DEF vars
<1>14. Store!Operate => Store!Next
  BY DEF Store!Next
<1> QED
  BY <1>1, <1>2, <1>3, <1>4, <1>5, <1>6, <1>7, <1>8, <1>9, <1>10, <1>11, <1>12, <1>13, <1>14
     DEF Next, Caller, GetBlkTurn, FlushTurn

\* The cache implements the block store: until a search meets a busy buffer,
\* what GetBlk, Bread, Bwrite, Bdwrite and Bflush do to the buffers is
\* invisible to readers, and only current content reaches the disk.
THEOREM CacheImplementsStore == Spec => ImplementsStore
<1>1. Init => Store!Init
  <2> SUFFICES ASSUME Init PROVE Store!Init
    OBVIOUS
  <2>1. TypeOK /\ UniqueCopy
    BY InitTypes DEF Init, TypeOK, InitBlk, UniqueCopy
  <2>2. \A k \in Block : Current(k) = disk[k]
    BY <2>1, CurrentValue DEF Init, InitBlk
  <2>3. Content = disk
    BY <2>1, <2>2 DEF Content, TypeOK
  <2> QED
    BY <2>3 DEF Store!Init, Init, InUse
<1>2. IInv /\ [Next]_vars => [Store!Next]_Store!bsVars
  BY StoreStep
<1> QED
  BY <1>1, <1>2, CacheInvariant, PTL DEF Spec, Store!Spec, ImplementsStore

=============================================================================
