---------------------------- MODULE OpenFileSpec ----------------------------
(***************************************************************************)
(* What a program that uses the file system relies on (src/fs/             *)
(* FileManager.cpp): a descriptor, once open, stands for the same inode    *)
(* until it is closed, and so does the current directory until it is       *)
(* changed; whatever other calls do to names, links and caches, no inode   *)
(* that is in use through either is freed or handed out again.  Nothing    *)
(* but the end of a session takes a descriptor away from the program.      *)
(***************************************************************************)
CONSTANTS Ino, FD, RootIno, None

VARIABLES
    handle,     \* [FD -> Ino or None]
    cwd,        \* the inode of the current directory
    live        \* the inodes that hold a file or a directory

ofVars == <<handle, cwd, live>>

InUse == {handle[fd] : fd \in FD} \cup {cwd}

Init ==
    /\ handle = [fd \in FD |-> None]
    /\ cwd = RootIno
    /\ RootIno \in live
    /\ live \subseteq Ino

\* What is in use stays.  (An inode that no name and no user is left for may go
\* with any call whose path leads through it.)
InUseStays == live \cap InUse \cap InUse' \subseteq live'

\* A file is opened, maybe just made.
OpenFile ==
    \E fd \in FD, i \in Ino :
        /\ handle[fd] = None
        /\ handle' = [handle EXCEPT ![fd] = i]
        /\ live' \subseteq live \cup {i}
        /\ i \in live => i \in live'
        /\ InUseStays
        /\ cwd' = cwd

\* A file or directory is made and not opened.
Make ==
    \E i \in Ino \ live :
        /\ i \in live' /\ live' \subseteq live \cup {i}
        /\ InUseStays
        /\ UNCHANGED <<handle, cwd>>

Duplicate ==
    \E fd, from \in FD :
        /\ handle[from] # None /\ handle[fd] = None
        /\ handle' = [handle EXCEPT ![fd] = handle[from]]
        /\ UNCHANGED <<cwd, live>>

\* With its last use an inode may go.
CloseFile ==
    \E fd \in FD :
        /\ handle[fd] # None
        /\ handle' = [handle EXCEPT ![fd] = None]
        /\ live' \in {live, live \ {handle[fd]}}
        /\ handle[fd] \in InUse' => live' = live
        /\ cwd' = cwd

ChangeDir ==
    \E i \in Ino :
        /\ cwd' = i
        /\ handle' = handle
        /\ live' \in {live, live \ {cwd}}
        /\ cwd \in InUse' => live' = live

\* A name goes, or a path is walked, and with it the last use of inodes
\* nobody has open.
Remove ==
    /\ live' \subseteq live
    /\ InUseStays
    /\ UNCHANGED <<handle, cwd>>

\* A new session; what the last one did not save of the inodes is gone.
Restart ==
    /\ handle' = [fd \in FD |-> None]
    /\ cwd' = RootIno
    /\ live' \subseteq live

Next == OpenFile \/ Make \/ Duplicate \/ CloseFile \/ ChangeDir \/ Remove \/ Restart

Spec == Init /\ [][Next]_ofVars

=============================================================================
