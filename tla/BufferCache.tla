---------------------------- MODULE BufferCache ----------------------------
(***************************************************************************)
(* The buffer cache of src/dev/BufferManager.cpp over the simulated disk   *)
(* of src/dev/DiskDriver.cpp: NBUF buffers, a free list threaded through   *)
(* av_forw / av_back with the header bFreeList, and the device queue in    *)
(* which GetBlk searches.  The pointers are kept as they are, the stale    *)
(* ones of a buffer off the list included, because GetBlk follows them.    *)
(*                                                                         *)
(* One thread runs, so a caller's operation is interleaved with nothing    *)
(* but the end of the process.  GetBlk is a loop (`goto loop`): each turn  *)
(* is a step, since each may write a block to the disk before the process  *)
(* dies.  The rest of Bread (ReadFromDisk, IODone) and of Alloc (ClrBuf)   *)
(* is part of the turn that finds a buffer.                                *)
(***************************************************************************)
EXTENDS Naturals, FiniteSets

CONSTANTS
    NBUF,       \* number of buffers (BufferManager::NBUF, 15 in the code)
    Block,      \* the disk blocks in play
    Data,       \* contents of a block
    Zero,       \* the content ClrBuf leaves
    NoBlk,      \* no block: b_dev = -1, the buffer is on the NODEV queue
    Depth,      \* bound: buffers a caller holds at once (2: Bmap, ITrunc)
    AfterHit    \* bound: whether the run goes on after a busy hit

ASSUME NBUFAssumption  == NBUF \in Nat \ {0}
ASSUME ZeroAssumption  == Zero \in Data
ASSUME NoBlkAssumption == NoBlk \notin Block
ASSUME DepthAssumption == Depth \in Nat
ASSUME AfterHitAssumption == AfterHit \in BOOLEAN

FL   == 0                       \* the header bFreeList
Buf  == 1 .. NBUF               \* m_Buf[0 .. NBUF-1]
Node == {FL} \cup Buf
Nil  == 0                       \* no pointer held (in `held`)
Idle == NBUF + 1                \* no Bflush in progress (in `cursor`)

Flag == {"BUSY", "DONE", "DELWRI", "ASYNC"}   \* the b_flags that decide

Request == [blk : Block, new : BOOLEAN]       \* new: GetBlk + ClrBuf of Alloc
NoReq   == [blk |-> NoBlk, new |-> FALSE]     \* no GetBlk in progress

VARIABLES
    flags,      \* [Buf -> SUBSET Flag]: b_flags
    blk,        \* [Buf -> Block or NoBlk]: b_blkno and device queue membership
    data,       \* [Buf -> Data]: the bytes at b_addr
    fwd, bck,   \* [Node -> Node]: av_forw, av_back
    disk,       \* [Block -> Data]: the image file
    req,        \* the GetBlk in progress
    held,       \* [Block -> Node]: the Buf* a caller keeps for a block
    fresh,      \* blocks held through Alloc, still to be written by the caller
    cursor,     \* bp of a Bflush in progress
    busyHit     \* history: a search has met its block in a B_BUSY buffer

vars == <<flags, blk, data, fwd, bck, disk, req, held, fresh, cursor, busyHit>>

-----------------------------------------------------------------------------
(* The free list.                                                          *)

\* Mutated form: the old tail does not point to `b`.
AppendFwdCut(b) == [fwd EXCEPT ![b] = FL]

\* `b` appended at the tail: the list part of Brelse.
AppendFwd(b) == [fwd EXCEPT ![bck[FL]] = b, ![b] = FL]
AppendBck(b) == [bck EXCEPT ![b] = bck[FL], ![FL] = b]

\* Mutated form: the second pointer is forgotten.
UnlinkBckForgotten(b) == bck

\* `b` unlinked between the neighbours its own pointers name: NotAvail.
UnlinkFwd(b) == [fwd EXCEPT ![bck[b]] = fwd[b]]
UnlinkBck(b) == [bck EXCEPT ![fwd[b]] = bck[b]]

\* Brelse of a buffer whose flags have become `fl`.
Brelse(b, fl) ==
    /\ flags' = [flags EXCEPT ![b] = fl \ {"BUSY", "ASYNC"}]
    /\ fwd' = AppendFwd(b)
    /\ bck' = AppendBck(b)

\* NotAvail of a buffer whose flags then become `fl`.
NotAvail(b, fl) ==
    /\ flags' = [flags EXCEPT ![b] = fl]
    /\ fwd' = UnlinkFwd(b)
    /\ bck' = UnlinkBck(b)

Head      == fwd[FL]
FreeEmpty == Head = FL

InUse == {k \in Block : held[k] # Nil}

-----------------------------------------------------------------------------
\* Mutated form: the ring is not closed.
InitFwdOpen == [x \in Node |-> x + 1]

(* Initialize: every buffer is released in turn, so the free list is       *)
(* 1, 2, .., NBUF; all of them are on the NODEV queue.                     *)
InitFlags == [b \in Buf |-> {}]
InitBlk   == [b \in Buf |-> NoBlk]
InitData  == [b \in Buf |-> Zero]
InitFwd   == [x \in Node |-> IF x = NBUF THEN FL ELSE x + 1]
InitBck   == [x \in Node |-> IF x = FL THEN NBUF ELSE x - 1]

Init ==
    /\ flags = InitFlags
    /\ blk = InitBlk
    /\ data = InitData
    /\ fwd = InitFwd
    /\ bck = InitBck
    /\ disk \in [Block -> Data]
    /\ req = NoReq
    /\ held = [k \in Block |-> Nil]
    /\ fresh = {}
    /\ cursor = Idle
    /\ busyHit = FALSE

-----------------------------------------------------------------------------
\* The bound AfterHit.
GoesOn == busyHit => AfterHit

\* The thread is in none of the cache's loops.
Ready == req = NoReq /\ cursor = Idle /\ GoesOn

(* A caller asks for block k, to read it (Bread) or as a new block it will *)
(* fill (Alloc).  No caller asks for a block it already holds.             *)
Ask(k, new) ==
    /\ Ready
    /\ held[k] = Nil
    /\ Cardinality(InUse) < Depth
    /\ req' = [blk |-> k, new |-> new]
    /\ UNCHANGED <<flags, blk, data, fwd, bck, disk, held, fresh, cursor, busyHit>>

\* Mutated form: the disk is read every time.
LoadedNever(fl) == FALSE

\* Bread trusts B_DONE.
Loaded(fl) == "DONE" \in fl

\* GetBlk returns buffer b with flags fl and list pointers f, g: the rest of
\* Alloc, or of Bread, which reads the disk unless the buffer is B_DONE, and
\* whose IODone releases the buffer at once when B_ASYNC is still set from an
\* eviction.
Return(b, fl, f, g) ==
    LET k      == req.blk
        loaded == Loaded(fl)
        async  == ~loaded /\ "ASYNC" \in fl
    IN  /\ held' = [held EXCEPT ![k] = b]
        /\ req' = NoReq
        /\ blk' = [blk EXCEPT ![b] = k]
        /\ \/ /\ req.new
              /\ data' = [data EXCEPT ![b] = Zero]
              /\ fresh' = fresh \cup {k}
              /\ flags' = [flags EXCEPT ![b] = fl]
              /\ fwd' = f
              /\ bck' = g
           \/ /\ ~req.new
              /\ data' = [data EXCEPT ![b] = IF loaded THEN @ ELSE disk[k]]
              /\ fresh' = fresh
              /\ IF async
                 THEN /\ flags' = [flags EXCEPT ![b] = (fl \cup {"DONE"}) \ {"BUSY", "ASYNC"}]
                      /\ fwd' = [f EXCEPT ![g[FL]] = b, ![b] = FL]
                      /\ bck' = [g EXCEPT ![b] = g[FL], ![FL] = b]
                 ELSE /\ flags' = [flags EXCEPT ![b] = fl \cup {"DONE"}]
                      /\ fwd' = f
                      /\ bck' = g
        /\ UNCHANGED <<disk, cursor, busyHit>>

\* The device queue is searched for the block asked for.
Searching == req # NoReq /\ GoesOn
Found(b)  == Searching /\ blk[b] = req.blk

\* Mutated form: a busy buffer is passed over.
MissSkipsBusy ==
    Searching /\ \A b \in Buf : blk[b] = req.blk => "BUSY" \in flags[b]

Miss == Searching /\ \A b \in Buf : blk[b] # req.blk

\* Mutated form: the flag is left for its holder to clear.
BusyHitWaits(b) ==
    /\ Found(b)
    /\ "BUSY" \in flags[b]
    /\ busyHit' = TRUE
    /\ UNCHANGED <<flags, blk, data, fwd, bck, disk, req, held, fresh, cursor>>

\* The search meets the block in a buffer that is B_BUSY: the flag is
\* cleared and the loop starts again.
BusyHit(b) ==
    /\ Found(b)
    /\ "BUSY" \in flags[b]
    /\ flags' = [flags EXCEPT ![b] = @ \ {"BUSY"}]
    /\ busyHit' = TRUE
    /\ UNCHANGED <<blk, data, fwd, bck, disk, req, held, fresh, cursor>>

\* The search finds the block in a buffer that is not B_BUSY.
Hit(b) ==
    /\ Found(b)
    /\ "BUSY" \notin flags[b]
    /\ Return(b, flags[b] \cup {"BUSY"}, UnlinkFwd(b), UnlinkBck(b))

\* Mutated form: the write is lost.
WrittenNowhere(b) == disk

\* WriteToDisk of a delayed write.
Written(b) == [disk EXCEPT ![blk[b]] = data[b]]

\* The flags of a buffer that GetBlk or Bflush sends to the disk: B_ASYNC
\* keeps Bwrite from releasing it.
SentFlags(fl) == (fl \cup {"BUSY", "ASYNC"}) \ {"DONE", "DELWRI"}

\* The head of the free list holds a delayed write: it is written out with
\* B_ASYNC and the loop starts again.  Bwrite releases no B_ASYNC buffer.
WriteBack ==
    /\ Miss
    /\ ~FreeEmpty
    /\ "DELWRI" \in flags[Head]
    /\ NotAvail(Head, SentFlags(flags[Head]))
    /\ disk' = Written(Head)
    /\ UNCHANGED <<blk, data, req, held, fresh, cursor, busyHit>>

\* Mutated form: B_BUSY is not set.
ClaimNotBusy ==
    /\ Miss
    /\ ~FreeEmpty
    /\ "DELWRI" \notin flags[Head]
    /\ Return(Head, {}, UnlinkFwd(Head), UnlinkBck(Head))

\* The head of the free list is clean: it becomes the buffer of the block.
Claim ==
    /\ Miss
    /\ ~FreeEmpty
    /\ "DELWRI" \notin flags[Head]
    /\ Return(Head, {"BUSY"}, UnlinkFwd(Head), UnlinkBck(Head))

-----------------------------------------------------------------------------
(* What a caller does with the buffer it holds for block k.                *)

CanFinish(k) == Ready /\ held[k] # Nil

Finish(k) ==
    /\ held' = [held EXCEPT ![k] = Nil]
    /\ fresh' = fresh \ {k}
    /\ UNCHANGED <<blk, req, cursor, busyHit>>

\* Done reading: Brelse.
Release(k) ==
    /\ CanFinish(k)
    /\ k \notin fresh
    /\ Brelse(held[k], flags[held[k]])
    /\ Finish(k)
    /\ UNCHANGED <<data, disk>>

\* Mutated form: the buffer is not marked as a delayed write.
DelayedFlagsDone(fl) == fl \cup {"DONE"}

DelayedFlags(fl) == fl \cup {"DELWRI", "DONE"}

\* Content d, written later: Bdwrite.
Bdwrite(k, d) ==
    /\ CanFinish(k)
    /\ data' = [data EXCEPT ![held[k]] = d]
    /\ Brelse(held[k], DelayedFlags(flags[held[k]]))
    /\ Finish(k)
    /\ UNCHANGED disk

\* Content d, written now: Bwrite.
Bwrite(k, d) ==
    LET b == held[k]
        clean == flags[b] \ {"DONE", "DELWRI"}
    IN  /\ CanFinish(k)
        /\ data' = [data EXCEPT ![b] = d]
        /\ disk' = [disk EXCEPT ![blk[b]] = d]
        /\ IF "ASYNC" \in flags[b]
           THEN /\ flags' = [flags EXCEPT ![b] = clean]
                /\ UNCHANGED <<fwd, bck>>
           ELSE Brelse(b, clean)
        /\ Finish(k)

-----------------------------------------------------------------------------
\* Mutated form: the walk starts one buffer late.
FlushFirstSkipped == fwd[Head]

FlushFirst == Head

(* Bflush: a walk over the free list that writes out every delayed write.  *)
(* It is called with no buffer held.                                       *)
FlushStart ==
    /\ Ready
    /\ InUse = {}
    /\ cursor' = FlushFirst
    /\ UNCHANGED <<flags, blk, data, fwd, bck, disk, req, held, fresh, busyHit>>

FlushWrite ==
    /\ cursor \in Buf /\ GoesOn
    /\ "DELWRI" \in flags[cursor]
    /\ NotAvail(cursor, SentFlags(flags[cursor]))
    /\ disk' = Written(cursor)
    /\ cursor' = fwd'[cursor]
    /\ UNCHANGED <<blk, data, req, held, fresh, busyHit>>

FlushSkip ==
    /\ cursor \in Buf /\ GoesOn
    /\ "DELWRI" \notin flags[cursor]
    /\ cursor' = fwd[cursor]
    /\ UNCHANGED <<flags, blk, data, fwd, bck, disk, req, held, fresh, busyHit>>

FlushEnd ==
    /\ cursor = FL /\ GoesOn
    /\ cursor' = Idle
    /\ UNCHANGED <<flags, blk, data, fwd, bck, disk, req, held, fresh, busyHit>>

\* The process ends (exit, kill) and a new one starts on the same image.
Restart ==
    /\ flags' = InitFlags
    /\ blk' = InitBlk
    /\ data' = InitData
    /\ fwd' = InitFwd
    /\ bck' = InitBck
    /\ req' = NoReq
    /\ held' = [k \in Block |-> Nil]
    /\ fresh' = {}
    /\ cursor' = Idle
    /\ busyHit' = FALSE
    /\ UNCHANGED disk

-----------------------------------------------------------------------------
Caller ==
    \/ \E k \in Block, new \in BOOLEAN : Ask(k, new)
    \/ \E k \in Block : Release(k)
    \/ \E k \in Block, d \in Data : Bdwrite(k, d)
    \/ \E k \in Block, d \in Data : Bwrite(k, d)
    \/ FlushStart

GetBlkTurn ==
    \/ \E b \in Buf : BusyHit(b)
    \/ \E b \in Buf : Hit(b)
    \/ WriteBack
    \/ Claim

FlushTurn == FlushWrite \/ FlushSkip \/ FlushEnd

Next == Caller \/ GetBlkTurn \/ FlushTurn \/ Restart

\* The thread keeps running: a loop that has a next turn takes it.
Fairness == WF_vars(GetBlkTurn) /\ WF_vars(FlushTurn)

Spec == Init /\ [][Next]_vars /\ Fairness

=============================================================================
