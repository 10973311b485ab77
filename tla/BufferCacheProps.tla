-------------------------- MODULE BufferCacheProps --------------------------
(***************************************************************************)
(* The properties of the buffer cache of BufferCache.tla.                  *)
(***************************************************************************)
EXTENDS BufferCache

\* b_flags, the pointers and the caller's variables stay in their types.
TypeOK ==
    /\ flags \in [Buf -> SUBSET Flag]
    /\ blk \in [Buf -> Block \cup {NoBlk}]
    /\ data \in [Buf -> Data]
    /\ fwd \in [Node -> Node]
    /\ bck \in [Node -> Node]
    /\ disk \in [Block -> Data]
    /\ req \in Request \cup {NoReq}
    /\ held \in [Block -> Node]
    /\ fresh \in SUBSET Block
    /\ cursor \in Node \cup {Idle}
    /\ busyHit \in BOOLEAN

\* A block is never cached twice, whatever has happened to the free list:
\* GetBlk (BufferManager.cpp:70-127) moves a buffer to a block only after the
\* search of the device queue has failed for it.
UniqueCopy ==
    \A b, c \in Buf : blk[b] = blk[c] /\ blk[b] # NoBlk => b = c

-----------------------------------------------------------------------------
Free == {b \in Buf : "BUSY" \notin flags[b]}

\* With pointers f and g the header and the buffers F are linked both ways.
Linked(F, f, g) ==
    \A x \in F \cup {FL} :
        /\ f[x] \in F \cup {FL}
        /\ g[x] \in F \cup {FL}
        /\ g[f[x]] = x
        /\ f[g[x]] = x

\* Until a search clears the B_BUSY of a buffer in use, the free list is a
\* ring of exactly the buffers that are not B_BUSY: each pointer is undone by
\* the opposite one, and the header is on it.
FreeListLinked == ~busyHit => Linked(Free, fwd, bck)

\* The nodes met from the header in at most n steps along av_forw.
Walk[n \in Nat] == IF n = 0 THEN {FL} ELSE Walk[n - 1] \cup {fwd[x] : x \in Walk[n - 1]}

\* ... and all of it is one ring: a walk from the header (GetBlk's eviction,
\* Bflush) meets every buffer that is not in use.
FreeListWhole == ~busyHit => Walk[NBUF] = Free \cup {FL}

\* The buffer a caller holds for block k is the buffer of block k, is marked
\* B_BUSY, and has no B_ASYNC left that would make IODone give it away.
HeldIsMine ==
    ~busyHit =>
        \A k \in InUse :
            /\ blk[held[k]] = k
            /\ "BUSY" \in flags[held[k]]
            /\ "ASYNC" \notin flags[held[k]]

\* A buffer that is B_BUSY and that no caller holds was left behind by an
\* eviction or a flush; what it held is on the disk, so only the buffer is
\* lost (Bwrite, BufferManager.cpp:204-230, leaves a B_ASYNC one to nobody).
Leaked == {b \in Buf : "BUSY" \in flags[b] /\ \A k \in Block : held[k] # b}

LeakIsClean ==
    ~busyHit =>
        \A b \in Leaked :
            /\ flags[b] = {"BUSY", "ASYNC"}
            /\ blk[b] \in Block
            /\ data[b] = disk[blk[b]]

\* Brelse's comment (BufferManager.cpp:135-137): B_DONE means that the buffer
\* has what is, or what ought to be, on the disk.  Without a delayed write
\* pending it equals the disk.
DoneIsDisk ==
    ~busyHit =>
        \A b \in Buf : "DONE" \in flags[b] /\ "DELWRI" \notin flags[b]
                            /\ (\A k \in fresh : held[k] # b)
                       => blk[b] # NoBlk /\ data[b] = disk[blk[b]]

-----------------------------------------------------------------------------
(* The inductive invariant.  The properties above need six more facts.    *)

\* Along the av_forw pointers f the buffers F are in one line from the header back to
\* it, with after[x] behind node x.
Line(F, f, after) ==
    /\ after[FL] = F
    /\ \A x \in F : x \notin after[x]
    /\ \A x \in F \cup {FL} :
        \/ f[x] = FL /\ after[x] = {}
        \/ f[x] \in F /\ after[x] = {f[x]} \cup after[f[x]]

Ordered(F, f) == \E after \in [F \cup {FL} -> SUBSET F] : Line(F, f, after)

FreeListOrdered == ~busyHit => Ordered(Free, fwd)

\* Nothing that a flush has passed is a delayed write any more.
FlushedBehind ==
    ~busyHit /\ cursor # Idle =>
        \E after \in [Free \cup {FL} -> SUBSET Free] :
            /\ Line(Free, fwd, after)
            /\ \A b \in Free : "DELWRI" \in flags[b] => cursor # FL /\ b \in {cursor} \cup after[cursor]

\* A buffer on the free list is nobody's asynchronous write.
FreeIsIdle == ~busyHit => \A b \in Free : "ASYNC" \notin flags[b]

\* A delayed write belongs to a block and has content to write.
DelayedIsDone ==
    ~busyHit =>
        \A b \in Buf : "DELWRI" \in flags[b] => "DONE" \in flags[b] /\ blk[b] \in Block

\* The cursor of a flush stays on the free list.
CursorOnList == ~busyHit /\ cursor # Idle => cursor \in Free \cup {FL}

\* The single thread: no block is asked for while it is held, and a flush
\* runs alone.
CallerOrder ==
    /\ fresh \subseteq InUse
    /\ req # NoReq => held[req.blk] = Nil /\ cursor = Idle
    /\ cursor # Idle => InUse = {} /\ req = NoReq

Sound ==
    /\ FreeListLinked
    /\ FreeListOrdered
    /\ HeldIsMine
    /\ LeakIsClean
    /\ DoneIsDisk
    /\ FreeIsIdle
    /\ DelayedIsDone
    /\ CursorOnList
    /\ FlushedBehind

IInv == TypeOK /\ UniqueCopy /\ CallerOrder /\ Sound

-----------------------------------------------------------------------------
\* The content a reader of block k would get: that of the block's buffer when
\* it is B_DONE, or the zeros and bytes of a caller that just allocated it,
\* else that of the disk.
Current(k) ==
    IF \E b \in Buf : blk[b] = k /\ ("DONE" \in flags[b] \/ k \in fresh)
    THEN data[CHOOSE b \in Buf : blk[b] = k]
    ELSE disk[k]

Content == [k \in Block |-> Current(k)]

Store == INSTANCE BlockStore
            WITH content <- Content, durable <- disk, open <- InUse, intact <- ~busyHit

\* The cache implements the block store: no eviction, flush or re-read changes
\* what any reader gets, an allocated block reads as zeros, a delayed write is
\* never forgotten, and nothing reaches the disk but the current content.
ImplementsStore == Store!Spec

\* When a Bflush reaches the end of the list every delayed write is on the
\* disk: the walk goes on from the av_forw of a buffer it has just unlinked.
FlushComplete == (~busyHit /\ cursor = FL) => Content = disk

\* A GetBlk in progress ends with a buffer, unless it finds the free list
\* empty: neither the retry after an eviction nor the one after a busy hit
\* goes on for ever.
RequestEnds == (req # NoReq) ~> (req = NoReq \/ FreeEmpty)

\* What GetBlk's interface promises ("申请一块缓存", BufferManager.h:24): every
\* request is granted in the end.
RequestGranted == (req # NoReq) ~> (req = NoReq)

=============================================================================
