---------------------------- MODULE MCFreeSpace ----------------------------
(***************************************************************************)
(* FreeSpace for TLC.  The bitmaps are small; the numbers of two bytes and *)
(* two words already differ from their positions.                          *)
(***************************************************************************)
EXTENDS FreeSpace

\* Blocks until no bit is left, with a few inodes; inodes until none is left, with no
\* block.
MCCalls == ((0 .. 10) \X (0 .. 2)) \cup ({0} \X (0 .. 9))

=============================================================================
