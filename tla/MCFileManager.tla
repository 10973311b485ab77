--------------------------- MODULE MCFileManager ---------------------------
(***************************************************************************)
(* FileManagerProps for TLC.                                               *)
(***************************************************************************)
EXTENDS FileManagerProps, TLC

CONSTANTS a, b, i2, i3

\* Format makes one subdirectory, named a.
MCSub   == a :> i2
MCNoSub == << >>

\* The inodes but the root can be exchanged.
InoSymmetry == Permutations({i2, i3})

\* Files opened and made while their name comes and goes; names and directories
\* of all kinds, with a descriptor; those of the shell's calls that make or take names.
FileCalls  == {"open", "export", "creat", "unlink", "close", "dup", "fstat", "rdwr"}
NameCalls  == {"chdir", "link", "unlink", "chmod", "stat", "mkdir", "mknod", "update",
               "open", "export", "close"}
NamingCalls == ShellCalls \ {"export", "rdwr"}

=============================================================================
