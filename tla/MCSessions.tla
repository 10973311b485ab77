----------------------------- MODULE MCSessions -----------------------------
(***************************************************************************)
(* Sessions for TLC.  What follows a session on an inconsistent volume is  *)
(* not explored: no property says anything of it.                          *)
(***************************************************************************)
EXTENDS Sessions

CONSTANTS a, m

\* Two entries of the formatted directory, the second of which needs a new block,
\* and one of the first directory that is made.
MCPaths ==
    {[dir |-> 2, name |-> a], [dir |-> 2, name |-> m], [dir |-> 3, name |-> a]}

Whole == ~ torn

=============================================================================
