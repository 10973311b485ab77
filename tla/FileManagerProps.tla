-------------------------- MODULE FileManagerProps --------------------------
(***************************************************************************)
(* The properties of FileManager.tla.                                      *)
(***************************************************************************)
EXTENDS FileManager

\* The tables, the call in progress and the histories stay in their types.
TypeOK ==
    /\ tab \in [Slot -> InCore]
    /\ dinode \in [Ino -> Inode]
    /\ entry \in [Ino -> [Name -> Ino \cup {Stray, NoEntry}]]
    /\ ofile \in [FD -> File \cup {NoFile}]
    /\ file \in [File -> OpenFile]
    /\ cdir \in Slot
    /\ stage \in Stage
    /\ cur \in Slot \cup {NoSlot}
    /\ call \in Call
    /\ lost \in [Slot -> Nat]
    /\ stuck \subseteq Slot
    /\ skipped \subseteq Ino

Loaded == {s \in Slot : tab[s].count # 0}

-----------------------------------------------------------------------------
\* An inode is in core once.  Every call compares inodes by slot and every
\* IPut writes one copy: with two, the later write undoes the other (IGet and
\* IsLoaded, FileSystem.cpp:508-607, 677-688).
OneSlotPerInode ==
    \A s, u \in Loaded : tab[s].number = tab[u].number => s = u

\* The references the call in progress has: pInode (u_pdir, pDeleteInode) in
\* these stages, and the first file of a link.
Holds(s) ==
    (IF cur = s /\ stage \in {"search", "create", "erase"} THEN 1 ELSE 0)
        + (IF call.mate = s THEN 1 ELSE 0)

FilesOf(s) == {f \in File : file[f].count # 0 /\ file[f].inode = s}

\* i_count is the number of its users: open files, the current directory, the
\* root pointer, the call in progress, and the references that earlier calls
\* returned without.  One too few frees an inode in use; one too many keeps a
\* removed file's blocks for ever.
CountIsRefs ==
    stage # "dead" =>
        \A s \in Slot :
            tab[s].count = Cardinality(FilesOf(s)) + (IF s = cdir THEN 1 ELSE 0)
                             + (IF s = Root THEN 1 ELSE 0) + Holds(s) + lost[s]

\* The same for f_count and the descriptors (OpenFileTable::FAlloc and CloseF,
\* FileManager.cpp:1048-1104; Dup, 244-264).
FileCountIsFds ==
    \A f \in File : file[f].count = Cardinality({fd \in FD : ofile[fd] = f})

\* A locked inode is the one the call in progress holds, or one whose lock a
\* finished call has left: no other call can find an inode locked.
LocksAccounted ==
    stage # "dead" =>
        \A s \in Slot : tab[s].locked =>
            \/ cur = s /\ stage \in {"search", "create"}
            \/ s \in stuck

-----------------------------------------------------------------------------
\* What a descriptor stands for.
Handle == [fd \in FD |-> IF ofile[fd] = NoFile THEN NoEntry ELSE tab[file[ofile[fd]].inode].number]

Live == {i \in Ino : Effective(i).type # "free"}

Handles == INSTANCE OpenFileSpec
              WITH None <- NoEntry, handle <- Handle, cwd <- tab[cdir].number, live <- Live

\* Descriptors and the current directory keep their inodes through every
\* sequence of calls: the reference counts of the in-core table implement it.
ImplementsHandles == Handles!Spec

-----------------------------------------------------------------------------
\* The calls that the commands of src/test/test.cpp make (SecondFS.cpp).
ShellCalls == {"open", "export", "creat", "mkdir", "chdir", "rdwr", "close", "exit"}

NamesIn(e, i) == {dn \in Ino \X Name : e[dn[1]][dn[2]] = i /\ dn[2] \notin {Dot, DotDot}}
Names(i) == NamesIn(entry, i)

\* Through the shell's commands i_nlink is the number of names: too small and a
\* file goes while it has a name, too large and its blocks stay for ever.  A
\* directory that exit did not write is free in the next session, and the first
\* IPut of it empties it: what it led to has then lost its name.
NlinkIsNames ==
    \A i \in Live \ ({RootIno} \cup skipped) :
        /\ Cardinality(Names(i)) <= Effective(i).nlink
        /\ skipped = {} => Cardinality(Names(i)) = Effective(i).nlink

\* A directory entry the shell has made leads to a file or directory, in the
\* session and in the next: exit writes each inode whose entry it has written,
\* but those that were left locked.
EntriesLive ==
    \A d \in Ino, n \in Name \ {DotDot} :
        entry[d][n] = NoEntry \/ entry[d][n] \in Live \cup skipped

\* ".." of every directory is a directory.  (u_pdir, whose number MyMkdir
\* stores there, is "指向父目录的Inode指针", User.h:128.)
ParentNamed ==
    \A d \in Ino : Effective(d).type = "dir" => entry[d][DotDot] # Stray

-----------------------------------------------------------------------------
InCall == stage \notin {"idle", "dead"}

\* Every call comes to an end.  (IGet, FileSystem.cpp:528-531, waits for the
\* lock and searches again: it takes for granted that locks are released.)
CallEnds == InCall ~> ~InCall

\* A call comes to an end as long as no finished call has left a lock behind:
\* no call waits for a lock it holds itself.
CallEndsUnlessStuck == (InCall /\ stuck = {}) ~> (~InCall \/ stuck # {})

=============================================================================
