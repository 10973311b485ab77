---------------------------- MODULE MCFileBlocks ----------------------------
(***************************************************************************)
(* FileBlocks for TLC: one block number of each kind in an inode, two      *)
(* numbers in a table, so that a file has at most seven blocks of two      *)
(* words.                                                                  *)
(***************************************************************************)
EXTENDS FileBlocks

\* Seeks to the start and the end of a file, to both words of a block, and back and
\* forth over a gap, as far as the first positions under the tables and past them.
MCOffsets == {-5, 0, 5}

=============================================================================
