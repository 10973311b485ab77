----------------------------- MODULE BlockStore -----------------------------
(***************************************************************************)
(* What the code above the buffer cache relies on (src/dev/                *)
(* BufferManager.cpp as its callers in src/fs use it): a store of blocks   *)
(* with a current content and a durable one.  A caller opens a block,      *)
(* reads it or replaces its content, and closes it; content becomes        *)
(* durable at any later moment; a restart falls back to what is durable.   *)
(* While a caller has block k open nobody else changes k, and nobody       *)
(* changes a block that is not open.                                       *)
(*                                                                         *)
(* `intact` turns FALSE when the implementation has given up the promise   *)
(* (a search met a buffer that was still B_BUSY); nothing is promised from *)
(* there to the next restart.                                              *)
(***************************************************************************)
CONSTANTS Block, Data, Zero

VARIABLES
    content,    \* [Block -> Data]: what a reader of the block gets
    durable,    \* [Block -> Data]: what a restart finds
    open,       \* the blocks callers have open
    intact      \* the promise still stands

bsVars == <<content, durable, open, intact>>

Init ==
    /\ durable \in [Block -> Data]
    /\ content = durable
    /\ open = {}
    /\ intact = TRUE

\* Open a block that nobody has open, to read or modify it.
Open(k) ==
    /\ open' = open \cup {k}
    /\ UNCHANGED <<content, durable>>

\* Open a newly allocated block: it reads as zeros.
New(k) ==
    /\ open' = open \cup {k}
    /\ content' = [content EXCEPT ![k] = Zero]
    /\ UNCHANGED durable

Close(k) ==
    /\ open' = open \ {k}
    /\ UNCHANGED <<content, durable>>

\* Replace the content of an open block and close it, now or later durable.
Write(k, d) ==
    /\ open' = open \ {k}
    /\ content' = [content EXCEPT ![k] = d]
    /\ durable' \in {durable, [durable EXCEPT ![k] = d]}

\* The content of a block that is not open becomes durable.
Persist(k) ==
    /\ durable' = [durable EXCEPT ![k] = content[k]]
    /\ UNCHANGED <<content, open>>

Operate ==
    /\ intact
    /\ intact'
    /\ \/ \E k \in Block \ open : Open(k) \/ New(k) \/ Persist(k)
       \/ \E k \in open : Close(k) \/ \E d \in Data : Write(k, d)

Fault == ~intact'

Restart ==
    /\ intact' = TRUE
    /\ open' = {}
    /\ content' = durable
    /\ UNCHANGED durable

Next == Operate \/ Fault \/ Restart

Spec == Init /\ [][Next]_bsVars

=============================================================================
