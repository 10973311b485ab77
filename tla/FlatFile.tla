------------------------------ MODULE FlatFile ------------------------------
(***************************************************************************)
(* What a program relies on when it reads and writes: a file is a sequence *)
(* of words, an open file a position in it.  A write replaces words from   *)
(* the position on and fills a gap with zeros, a read delivers them up to  *)
(* the end, truncation leaves none.  A call does this piece by piece and   *)
(* leaves the position behind the last piece; a write stops at the         *)
(* largest size.                                                           *)
(***************************************************************************)
EXTENDS Integers, Sequences

CONSTANTS Inode, OpenFile, Data, MaxSize

VARIABLES
    text,   \* [Inode -> Seq(word)]
    file,   \* [OpenFile -> [inode, offset]]
    io,     \* the call in progress
    got     \* what a read has delivered so far

ffVars == <<text, file, io, got>>

Init ==
    /\ text = [f \in Inode |-> << >>]
    /\ file \in [OpenFile -> [inode: Inode, offset: {0}]]
    /\ io.op = "none"
    /\ got = << >>

Transfer ==
    [op: {"read"}, of: OpenFile, off: Nat, count: Nat]
        \cup [op: {"write"}, of: OpenFile, off: Nat, count: Nat, val: Data]
F == file[io.of].inode

\* The sequence s with n words v from position off on.
Overlaid(s, off, n, v) ==
    LET length == IF Len(s) < off + n THEN off + n ELSE Len(s)
    IN  [p \in 1 .. length |->
            IF p \in off + 1 .. off + n THEN v ELSE IF p <= Len(s) THEN s[p] ELSE 0]

Position ==
    /\ io.op = "none" /\ io'.op = "none"
    /\ \E d \in OpenFile :
        /\ file' = [file EXCEPT ![d] = file'[d]]
        /\ file'[d] \in [inode: Inode, offset: Nat]
    /\ UNCHANGED <<text, got>>

Truncate(f) ==
    /\ io.op = "none"
    /\ text' = [text EXCEPT ![f] = << >>]
    /\ UNCHANGED <<file, io, got>>

Begin ==
    /\ io.op = "none" /\ io' \in Transfer
    /\ io'.off = file[io'.of].offset
    /\ UNCHANGED <<text, file, got>>

Moved(n) == io' = [io EXCEPT !.off = @ + n, !.count = @ - n]

Read ==
    /\ io.op = "read"
    /\ \E n \in 1 .. io.count :
        /\ io.off + n <= Len(text[F])
        /\ got' = got \o SubSeq(text[F], io.off + 1, io.off + n)
        /\ Moved(n)
    /\ UNCHANGED <<text, file>>

Write ==
    /\ io.op = "write"
    /\ \E n \in 1 .. io.count :
        /\ io.off + n <= MaxSize
        /\ text' = [text EXCEPT ![F] = Overlaid(@, io.off, n, io.val)]
        /\ Moved(n)
    /\ UNCHANGED <<file, got>>

\* A call ends when it has done all, or has come to the end of what there can be.
End ==
    /\ io.op # "none" /\ io'.op = "none"
    /\ io.count = 0 \/ io.off >= IF io.op = "read" THEN Len(text[F]) ELSE MaxSize
    /\ file' = [file EXCEPT ![io.of].offset = io.off]
    /\ got' = << >>
    /\ UNCHANGED text

Next == Position \/ (\E f \in Inode : Truncate(f)) \/ Begin \/ Read \/ Write \/ End

Spec == Init /\ [][Next]_ffVars

=============================================================================
