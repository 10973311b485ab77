---------------------------- MODULE FileManager ----------------------------
(***************************************************************************)
(* The system calls of src/fs/FileManager.cpp and the shell's mkdir, exit  *)
(* and start (src/fs/SecondFS.cpp) over the in-core inode table, the open  *)
(* file table and the descriptors (src/fs/File.cpp).                       *)
(*                                                                         *)
(* A call runs alone.  It is a sequence of steps because IGet can spin on  *)
(* a lock between them: enter (NameI takes its first directory), search    *)
(* (NameI looks at the inode it holds), get (it takes the inode of a       *)
(* matched entry), then one step for the rest of the call.  A path is not  *)
(* stored: each search step chooses the next component, and `left` counts  *)
(* those to come.  NameI does not know which call it serves, only the mode *)
(* of the search, so the call is chosen when the search has ended.  Access *)
(* fails only for a directory without x bits: the user is the superuser    *)
(* and the file system is never read-only.                                 *)
(***************************************************************************)
EXTENDS InodeTable

CONSTANTS
    NFILE,      \* open file table (OpenFileTable::NFILE, 100)
    NOFILES,    \* descriptors (OpenFiles::NOFILES, 15)
    Calls,      \* the calls made
    Sub,        \* the directories Format names in the root: a function
    Kept,       \* bound: the names unlink is not asked to remove
    MaxPath,    \* bound: components of a path
    MaxLost     \* bound: references lost on one slot before mkdir is called

ASSUME NFILEAssumption   == NFILE \in Nat /\ NOFILES \in Nat
ASSUME MaxPathAssumption == MaxPath \in Nat /\ MaxLost \in Nat
ASSUME SubAssumption ==
    DOMAIN Sub \subseteq Name \ {Dot, DotDot} /\ Sub \in [DOMAIN Sub -> Ino \ {RootIno}]

File   == 1 .. NFILE
FD     == 1 .. NOFILES
NoFile == 0
Root   == 1             \* rootDirInode: the first IGet takes the first slot

\* The calls that search a path, by NameI's mode, and those on a descriptor.
SearchMode == {"OPEN", "CREATE", "DELETE"}
CallOf == [m \in SearchMode |->
    CASE m = "OPEN"   -> {"open", "export", "chdir", "link", "chmod", "stat"}
      [] m = "CREATE" -> {"creat", "mkdir", "mknod"}
      [] m = "DELETE" -> {"unlink"}]
FdCall == {"close", "dup", "rdwr", "fstat"}
ASSUME CallsAssumption ==
    Calls \subseteq UNION {CallOf[m] : m \in SearchMode} \cup FdCall \cup {"update", "exit"}

NoName == "no name"
ASSUME NoNameAssumption == NoName \notin Name

\* A search in progress: the mode, the components left, the inode to get, the
\* last component (u_dbuf) of what is created or deleted, and the first file of
\* a link.
Call   == [mode : SearchMode \cup {"NONE"}, left : 0 .. MaxPath, target : Ino \cup {NoEntry},
           name : Name \cup {NoName}, mate : Slot \cup {NoSlot}]
NoCall == [mode |-> "NONE", left |-> 0, target |-> NoEntry, name |-> NoName, mate |-> NoSlot]

Stage == {"idle", "enter", "search", "get", "create", "erase", "lock", "exit", "dead"}

VARIABLES
    tab,        \* [Slot -> InCore]: m_Inode
    dinode,     \* [Ino -> Inode]
    entry,      \* [Ino -> [Name -> Ino, Stray or NoEntry]]
    ofile,      \* [FD -> File or NoFile]: ProcessOpenFileTable
    file,       \* [File -> [count, inode]]: m_File
    cdir,       \* u_cdir
    stage,      \* the step the call is at
    cur,        \* pInode: held in every stage but enter, get and lock
    call,
    lost,       \* history: references a call has returned without, by slot
    stuck,      \* history: slots whose lock a call has left behind
    skipped     \* history: inodes that exit did not write, being locked

table   == <<tab, dinode, entry>>
files   == <<ofile, file>>
history == <<lost, stuck, skipped>>
vars    == <<table, files, cdir, stage, cur, call, history>>

\* f_flag is left out: it only keeps writes off a descriptor opened to read.
OpenFile   == [count : Nat, inode : Slot]
ClosedFile == [count |-> 0, inode |-> Root]

-----------------------------------------------------------------------------
(* A volume as Format leaves it, and a process as SecondFS's constructor   *)
(* leaves it: the root is loaded, once as the root and once as u_cdir.     *)
SubDir == {Sub[n] : n \in DOMAIN Sub}

FormatDinode ==
    [i \in Ino |-> IF i \in {RootIno} \cup SubDir
                   THEN [type |-> "dir", perm |-> "some", nlink |-> 1]
                   ELSE NeverUsed]

FormatEntry ==
    [i \in Ino |->
        IF i = RootIno
        THEN [n \in Name |-> IF n \in {Dot, DotDot} THEN RootIno
                             ELSE IF n \in DOMAIN Sub THEN Sub[n] ELSE NoEntry]
        ELSE IF i \in SubDir
        THEN [Empty EXCEPT ![Dot] = i, ![DotDot] = RootIno]
        ELSE Empty]

StartTab(d) == [s \in Slot |->
    IF s # Root THEN FreeSlot
    ELSE [number |-> RootIno, count |-> 2, locked |-> FALSE, marked |-> FALSE, core |-> d[RootIno]]]

NoFiles   == [fd \in FD |-> NoFile]
AllClosed == [f \in File |-> ClosedFile]
NoneLost  == [s \in Slot |-> 0]

Init ==
    /\ dinode = FormatDinode
    /\ entry = FormatEntry
    /\ tab = StartTab(FormatDinode)
    /\ ofile = NoFiles
    /\ file = AllClosed
    /\ cdir = Root
    /\ stage = "idle"
    /\ cur = NoSlot
    /\ call = NoCall
    /\ lost = NoneLost
    /\ stuck = {}
    /\ skipped = {}

-----------------------------------------------------------------------------
(* How a call changes the tables and how it ends.                          *)
TableIs(t, d, e) == tab' = t /\ dinode' = d /\ entry' = e

\* IPut of s on tables t, d and e.
PutIs(t, d, e, s) == TableIs(IPut(t, s), IPutDisk(t, d, s), IPutEntry(t, e, s))

\* IPut of s, then of u.
PutBothIs(t, d, e, s, u) == PutIs(IPut(t, s), IPutDisk(t, d, s), IPutEntry(t, e, s), u)

\* No lock and no reference is left behind; a lock left earlier is gone when
\* an IPut has cleared it.
Balanced ==
    /\ stuck' = {s \in stuck : tab'[s].locked}
    /\ UNCHANGED <<lost, skipped>>

Done == stage' = "idle" /\ cur' = NoSlot /\ call' = NoCall

\* The call returns and leaves a reference to s behind, and its lock with it.
Leaves(s) ==
    /\ lost' = [lost EXCEPT ![s] = @ + 1]
    /\ stuck' = stuck \cup {s}
    /\ skipped' = skipped

\* The process dies (a null pointer, exit(-1)).
Dies == stage' = "dead" /\ UNCHANGED <<table, files, cdir, cur, call, history>>

-----------------------------------------------------------------------------
(* FAlloc and the end of Open1.                                            *)
FreeFD   == {fd \in FD : ofile[fd] = NoFile}
FreeFile == {f \in File : file[f].count = 0}

Lowest(S) == CHOOSE x \in S : \A y \in S : x <= y

\* Mutated form: no i_count is given back when there is no descriptor.
OpenedLeaky(t, d, e, s) ==
    /\ cdir' = cdir
    /\ IF FreeFD = {} \/ FreeFile = {}
       THEN TableIs(Prele(t, s), d, e) /\ UNCHANGED files
       ELSE LET fd == Lowest(FreeFD)
                f  == Lowest(FreeFile)
            IN  /\ TableIs(Prele(t, s), d, e)
                /\ ofile' = [ofile EXCEPT ![fd] = f]
                /\ file' = [file EXCEPT ![f] = [count |-> 1, inode |-> s]]

\* The inode in slot s, locked and referenced, is opened: unlocked, and kept
\* by a new open file, or given back when no descriptor or file is free.
Opened(t, d, e, s) ==
    /\ cdir' = cdir
    /\ IF FreeFD = {} \/ FreeFile = {}
       THEN PutIs(Prele(t, s), d, e, s) /\ UNCHANGED files
       ELSE LET fd == Lowest(FreeFD)
                f  == Lowest(FreeFile)
            IN  /\ TableIs(Prele(t, s), d, e)
                /\ ofile' = [ofile EXCEPT ![fd] = f]
                /\ file' = [file EXCEPT ![f] = [count |-> 1, inode |-> s]]

-----------------------------------------------------------------------------
(* NameI.                                                                  *)
\* The bound MaxLost.
MayLose == \A s \in Slot : lost[s] < MaxLost

Begin(m) ==
    /\ stage = "idle"
    /\ CallOf[m] \cap Calls # {}
    /\ m = "CREATE" => MayLose
    /\ stage' = "enter"
    /\ cur' \in {Root, cdir}
    /\ \E n \in 0 .. MaxPath : call' = [NoCall EXCEPT !.mode = m, !.left = n]
    /\ UNCHANGED <<table, files, cdir, history>>

Creating == call.mode = "CREATE"
Deleting == call.mode = "DELETE"

Here == tab[cur]
Dir  == entry[Here.number]

\* NameI's `out` on tables t: the inode is given back; so is the first file of
\* a link.
FailedWith(t) ==
    /\ IF call.mate = NoSlot
       THEN PutIs(t, dinode, entry, cur)
       ELSE PutBothIs(t, dinode, entry, cur, call.mate)
    /\ Done
    /\ Balanced
    /\ UNCHANGED <<files, cdir>>

\* The root or the current directory is taken first.  It is where u_cdir or
\* rootDirInode points.  Nothing can be created or deleted by an empty path.
Enter ==
    /\ stage = "enter"
    /\ Gets(tab, Here.number, cur)
    /\ LET t == Got(tab, dinode, Here.number, cur)
       IN  IF call.left = 0 /\ (Creating \/ Deleting)
           THEN FailedWith(t)
           ELSE /\ tab' = t
                /\ stage' = "search"
                /\ UNCHANGED <<dinode, entry, files, cdir, cur, call, history>>

Searching == stage = "search" /\ call.left > 0
Usable    == Here.core.type = "dir" /\ Here.core.perm # "none"
Failed    == FailedWith(tab)

\* No directory, or no search permission.
SearchRefused == Searching /\ ~Usable /\ Failed

SearchMissed ==
    /\ Searching /\ Usable
    /\ \E n \in Name : Dir[n] = NoEntry
    /\ ~(Creating /\ call.left = 1)
    /\ Failed

\* The name to create is free: the directory is kept, locked, as u_pdir.  It is
\* marked when the entry goes at its end rather than into an empty one.
SearchAbsent(n) ==
    /\ Searching /\ Usable
    /\ Dir[n] = NoEntry
    /\ Creating /\ call.left = 1
    /\ stage' = "create"
    /\ call' = [call EXCEPT !.left = 0, !.name = n]
    /\ tab' \in {tab, Changed(tab, cur, Here.core)}
    /\ UNCHANGED <<dinode, entry, files, cdir, cur, history>>

\* The name to delete is there: UnLink unlocks the directory at once.
SearchVictim(n) ==
    /\ Searching /\ Usable
    /\ Dir[n] \in Ino
    /\ Deleting /\ call.left = 1
    /\ n \notin Kept
    /\ stage' = "erase"
    /\ call' = [call EXCEPT !.left = 0, !.name = n, !.target = Dir[n]]
    /\ tab' = Prele(tab, cur)
    /\ UNCHANGED <<dinode, entry, files, cdir, cur, history>>

\* A component matches: the directory is given back before the next inode is
\* asked for.  (Bound: no path goes on through an entry with number -1, whose
\* disk inode the code would look for in front of the buffer.)
SearchMatches(n) ==
    /\ Searching /\ Usable
    /\ Dir[n] \in Ino
    /\ ~(Deleting /\ call.left = 1)
    /\ stage' = "get"
    /\ cur' = NoSlot
    /\ call' = [call EXCEPT !.left = @ - 1, !.target = Dir[n]]
    /\ PutIs(tab, dinode, entry, cur)
    /\ Balanced
    /\ UNCHANGED <<files, cdir>>

Get ==
    /\ stage = "get"
    /\ \E s \in Slot :
        /\ Gets(tab, call.target, s)
        /\ tab' = Got(tab, dinode, call.target, s)
        /\ cur' = s
    /\ stage' = "search"
    /\ call' = [call EXCEPT !.target = NoEntry]
    /\ UNCHANGED <<dinode, entry, files, cdir, history>>

\* The table is full: NameI calls IInfo() on the null pointer.
GetFails == stage = "get" /\ Overflow(tab, call.target) /\ Dies

-----------------------------------------------------------------------------
(* The rest of the calls that search with OPEN, and of those that search   *)
(* with CREATE and find the name.                                          *)
Found(c) ==
    /\ stage = "search" /\ call.left = 0 /\ call.mate = NoSlot
    /\ c \in Calls \cap CallOf[call.mode]

\* Open1 with trf = 0: a directory is not opened to be written.
Open ==
    /\ Found("open")
    /\ IF Here.core.type = "dir"
       THEN PutIs(tab, dinode, entry, cur) /\ UNCHANGED <<files, cdir>>
       ELSE Opened(tab, dinode, entry, cur)
    /\ Done
    /\ Balanced

\* A directory may be opened to be read.
OpenToRead ==
    /\ Found("export")
    /\ Opened(tab, dinode, entry, cur)
    /\ Done
    /\ Balanced

\* `pInode->i_mode |= newACCMode`, when the slot is still in use.
WithPerm(t, s) == IF t[s].count = 0 THEN t ELSE [t EXCEPT ![s].core.perm = "all"]

\* Open1 with trf = 1: the file is truncated and opened, and in every case
\* the slot's permissions are changed last.
CreatFound ==
    LET truncated == Changed(tab, cur, [Here.core EXCEPT !.nlink = 1])
        unlocked  == Prele(truncated, cur)
    IN  /\ Found("creat")
        /\ IF Here.core.type = "dir"
           THEN /\ TableIs(WithPerm(IPut(tab, cur), cur), IPutDisk(tab, dinode, cur),
                           IPutEntry(tab, entry, cur))
                /\ UNCHANGED <<files, cdir>>
           ELSE IF FreeFD = {} \/ FreeFile = {}
           THEN /\ TableIs(WithPerm(IPut(unlocked, cur), cur), IPutDisk(unlocked, dinode, cur),
                           IPutEntry(unlocked, entry, cur))
                /\ UNCHANGED <<files, cdir>>
           ELSE Opened(WithPerm(truncated, cur), dinode, entry, cur)
        /\ Done
        /\ Balanced

\* "File exists": MyMkdir keeps what NameI returned, locked and referenced.
MkdirFound ==
    /\ Found("mkdir")
    /\ Leaves(cur)
    /\ Done
    /\ UNCHANGED <<table, files, cdir>>

\* Mutated form: the old directory is not given back.
ChDirKeeps ==
    /\ Found("chdir")
    /\ TableIs(Prele(tab, cur), dinode, entry)
    /\ cdir' = cur
    /\ Done
    /\ Balanced
    /\ UNCHANGED files

ChDir ==
    /\ Found("chdir")
    /\ IF Usable
       THEN /\ TableIs(Prele(IPut(tab, cdir), cur), IPutDisk(tab, dinode, cdir),
                       IPutEntry(tab, entry, cdir))
            /\ cdir' = cur
       ELSE PutIs(tab, dinode, entry, cur) /\ cdir' = cdir
    /\ Done
    /\ Balanced
    /\ UNCHANGED files

\* The file to link is unlocked but kept while the new name is searched for.
LinkFirst ==
    /\ Found("link")
    /\ IF Here.core.nlink >= NLINK
       THEN PutIs(tab, dinode, entry, cur) /\ Done
       ELSE /\ TableIs(Prele(tab, cur), dinode, entry)
            /\ stage' = "enter"
            /\ cur' \in {Root, cdir}
            /\ \E n \in 0 .. MaxPath :
                call' = [NoCall EXCEPT !.mode = "CREATE", !.left = n, !.mate = cur]
    /\ Balanced
    /\ UNCHANGED <<files, cdir>>

LinkExists ==
    /\ stage = "search" /\ call.left = 0 /\ call.mate # NoSlot
    /\ PutBothIs(tab, dinode, entry, cur, call.mate)
    /\ Done
    /\ Balanced
    /\ UNCHANGED <<files, cdir>>

MkNodFound ==
    /\ Found("mknod")
    /\ PutIs(tab, dinode, entry, cur)
    /\ Done
    /\ Balanced
    /\ UNCHANGED <<files, cdir>>

\* With or without search permission: nothing looks at another bit.
ChMod ==
    /\ Found("chmod")
    /\ \E p \in {"none", "some"} :
        PutIs(Changed(tab, cur, [Here.core EXCEPT !.perm = p]), dinode, entry, cur)
    /\ Done
    /\ Balanced
    /\ UNCHANGED <<files, cdir>>

Stat ==
    /\ Found("stat")
    /\ PutIs(tab, IUpdate(tab, dinode, cur), entry, cur)
    /\ Done
    /\ Balanced
    /\ UNCHANGED <<files, cdir>>

-----------------------------------------------------------------------------
(* The rest of the calls that search with CREATE and find the name free.   *)
Fresh(c) == stage = "create" /\ call.mate = NoSlot /\ c \in Calls

\* The inode as the loaded copy has it, else as the disk has it.
Effective(i) ==
    IF IsLoaded(tab, i) = {} THEN dinode[i]
    ELSE tab[CHOOSE s \in IsLoaded(tab, i) : TRUE].core

\* IAlloc's test is i_mode = 0.  (The bitmap that proposes the numbers is left
\* to chance: any free inode may come next.)
FreeInode == {i \in Ino : Effective(i).type = "free"}

\* WriteI sets IACC and IUPD.
ChangedByWrite(t, s) == Changed(t, s, t[s].core)

\* WriteDir: the name in u_dbuf gets number i in the directory u_pdir.
WriteDir(i) == [entry EXCEPT ![Here.number][call.name] = i]

\* MakNode: free inode i comes into slot s as c, its name is written, and
\* u_pdir is given back.  The tables afterwards:
Allocated(i, s, c) == ChangedByWrite(Changed(Got(tab, dinode, i, s), s, c), cur)
MakNodeTab(i, s, c)   == IPut(Allocated(i, s, c), cur)
MakNodeDisk(i, s, c)  == IPutDisk(Allocated(i, s, c), dinode, cur)
MakNodeEntry(i, s, c) == IPutEntry(Allocated(i, s, c), WriteDir(i), cur)

NewFile == [type |-> "file", perm |-> "all", nlink |-> 1]

\* Mutated form: "." counts as a link, as it does in later systems.
NewDirTwice == [type |-> "dir", perm |-> "some", nlink |-> 2]

NewDir == [type |-> "dir", perm |-> "some", nlink |-> 1]

\* Open1 with trf = 2.
CreatNew(i, s) ==
    /\ Fresh("creat")
    /\ Gets(tab, i, s)
    /\ Opened(MakNodeTab(i, s, NewFile), MakNodeDisk(i, s, NewFile),
              MakNodeEntry(i, s, NewFile), s)
    /\ Done
    /\ Balanced

MkNodNew(i, s) ==
    /\ Fresh("mknod")
    /\ Gets(tab, i, s)
    /\ PutIs(MakNodeTab(i, s, NewFile), MakNodeDisk(i, s, NewFile),
             MakNodeEntry(i, s, NewFile), s)
    /\ Done
    /\ Balanced
    /\ UNCHANGED <<files, cdir>>

\* MyMkdir unlocks the new inode, then writes "." and "..": the number of ".."
\* is read from u_pdir after MakNode has given it back.  The new inode is not
\* given back.
MkdirNew(i, s) ==
    LET t == MakNodeTab(i, s, NewDir)
        e == MakNodeEntry(i, s, NewDir)
    IN  /\ Fresh("mkdir")
        /\ Gets(tab, i, s)
        /\ TableIs(Prele(t, s), MakNodeDisk(i, s, NewDir),
                   [e EXCEPT ![i][Dot] = i, ![i][DotDot] = t[cur].number])
        /\ lost' = [lost EXCEPT ![s] = @ + 1]
        /\ stuck' = {u \in stuck : tab'[u].locked}
        /\ skipped' = skipped
        /\ Done
        /\ UNCHANGED <<files, cdir>>

\* The in-core table is full.  Creat and MkNod return and keep u_pdir; MyMkdir
\* unlocks a null pointer.
MakNodeOverflows(i) ==
    /\ Overflow(tab, i)
    /\ \/ /\ Fresh("creat") \/ Fresh("mknod")
          /\ Leaves(cur)
          /\ Done
          /\ UNCHANGED <<table, files, cdir>>
       \/ Fresh("mkdir") /\ Dies

\* No free inode: IAlloc ends the process.
MakNodeExhausted ==
    /\ \E c \in CallOf["CREATE"] : Fresh(c)
    /\ FreeInode = {}
    /\ Dies

LinkedTab(t, s) == Changed(t, s, [t[s].core EXCEPT !.nlink = @ + 1])

\* WriteDir gives u_pdir back, then the first file gets its link.
LinkNew ==
    LET m == call.mate
        t == ChangedByWrite(tab, cur)
        e == WriteDir(tab[m].number)
    IN  /\ stage = "create" /\ m # NoSlot
        /\ PutIs(LinkedTab(IPut(t, cur), m), IPutDisk(t, dinode, cur), IPutEntry(t, e, cur), m)
        /\ Done
        /\ Balanced
        /\ UNCHANGED <<files, cdir>>

-----------------------------------------------------------------------------
(* The rest of UnLink: the directory is held, unlocked.                    *)

UnlinkedTab(t, s) == Changed(t, s, [t[s].core EXCEPT !.nlink = @ - 1])

Unlink(s) ==
    LET g == ChangedByWrite(Got(tab, dinode, call.target, s), cur)
    IN  /\ stage = "erase"
        /\ Gets(tab, call.target, s)
        /\ g[s].core.nlink >= 0         \* bound
        /\ PutBothIs(UnlinkedTab(g, s), dinode, WriteDir(NoEntry), cur, s)
        /\ Done
        /\ Balanced
        /\ UNCHANGED <<files, cdir>>

\* "unlink -- iget": Panic ends the process.
UnlinkFails == stage = "erase" /\ Overflow(tab, call.target) /\ Dies

-----------------------------------------------------------------------------
(* Calls on a descriptor.                                                  *)
FdCalled(c, fd) == stage = "idle" /\ c \in Calls /\ ofile[fd] # NoFile

\* Mutated form: the inode is given back by every close of a shared file.
ClosesEach(f) == TRUE

Closes(f) == file[f].count <= 1

\* SetF and CloseF.
Closed(fd) ==
    LET f == ofile[fd]
        s == file[f].inode
    IN  /\ ofile' = [ofile EXCEPT ![fd] = NoFile]
        /\ file' = [file EXCEPT ![f] =
                        IF file[f].count = 1 THEN ClosedFile
                        ELSE [count |-> file[f].count - 1, inode |-> s]]
        /\ IF Closes(f) THEN PutIs(tab, dinode, entry, s) ELSE UNCHANGED table
        /\ Balanced
        /\ UNCHANGED <<cdir, cur>>

Close(fd) ==
    /\ FdCalled("close", fd)
    /\ Closed(fd)
    /\ UNCHANGED <<stage, call>>

\* Mutated form: f_count is not counted up.
DupUncounted(fd) ==
    /\ FdCalled("dup", fd)
    /\ FreeFD # {}
    /\ ofile' = [ofile EXCEPT ![Lowest(FreeFD)] = ofile[fd]]
    /\ UNCHANGED <<file, table, cdir, stage, cur, call, history>>

Dup(fd) ==
    /\ FdCalled("dup", fd)
    /\ FreeFD # {}
    /\ ofile' = [ofile EXCEPT ![Lowest(FreeFD)] = ofile[fd]]
    /\ file' = [file EXCEPT ![ofile[fd]].count = @ + 1]
    /\ UNCHANGED <<table, cdir, stage, cur, call, history>>

FStat(fd) ==
    /\ FdCalled("fstat", fd)
    /\ dinode' = IUpdate(tab, dinode, file[ofile[fd]].inode)
    /\ UNCHANGED <<tab, entry, files, cdir, stage, cur, call, history>>

\* Rdwr waits in NFlock for the inode, reads or writes, and unlocks it.
Rdwr(fd) ==
    /\ FdCalled("rdwr", fd)
    /\ stage' = "lock"
    /\ cur' = file[ofile[fd]].inode
    /\ UNCHANGED <<table, files, cdir, call, history>>

RdwrLocked ==
    /\ stage = "lock"
    /\ ~tab[cur].locked
    /\ tab' \in {tab, ChangedByWrite(tab, cur)}
    /\ Done
    /\ UNCHANGED <<dinode, entry, files, cdir, history>>

-----------------------------------------------------------------------------
(* FileSystem::Update, the shell's exit, and the next session.             *)
Update ==
    /\ stage = "idle" /\ "update" \in Calls
    /\ dinode' = UpdateInodeTable(tab, dinode)
    /\ UNCHANGED <<tab, entry, files, cdir, stage, cur, call, history>>

\* ~SecondFS: the inodes are written, then every descriptor is closed.
Exit ==
    /\ stage = "idle" /\ "exit" \in Calls
    /\ dinode' = UpdateInodeTable(tab, dinode)
    /\ stage' = "exit"
    /\ skipped' = skipped \cup
            {tab[s].number : s \in {u \in stuck : tab[u].locked /\ tab[u].core # dinode'[tab[u].number]}}
    /\ UNCHANGED <<tab, entry, files, cdir, cur, call, lost, stuck>>

ExitClose ==
    /\ stage = "exit"
    /\ \E fd \in FD : ofile[fd] # NoFile
    /\ Closed(Lowest({fd \in FD : ofile[fd] # NoFile}))
    /\ UNCHANGED <<stage, call>>

\* The process ends; SecondFS's constructor loads the root again.
Restart ==
    /\ stage = "exit"
    /\ \A fd \in FD : ofile[fd] = NoFile
    /\ tab' = StartTab(dinode)
    /\ cdir' = Root
    /\ lost' = NoneLost
    /\ stuck' = {}
    /\ Done
    /\ UNCHANGED <<dinode, entry, files, skipped>>

-----------------------------------------------------------------------------
NameI ==
    \/ Enter
    \/ SearchRefused
    \/ SearchMissed
    \/ \E n \in Name : SearchAbsent(n) \/ SearchVictim(n) \/ SearchMatches(n)
    \/ Get
    \/ GetFails

Rest ==
    \/ Open \/ OpenToRead \/ CreatFound \/ MkdirFound \/ ChDir \/ LinkFirst \/ LinkExists
    \/ MkNodFound \/ ChMod \/ Stat \/ LinkNew
    \/ \E i \in FreeInode :
        \/ \E s \in Slot : CreatNew(i, s) \/ MkNodNew(i, s) \/ MkdirNew(i, s)
        \/ MakNodeOverflows(i)
    \/ MakNodeExhausted
    \/ \E s \in Slot : Unlink(s)
    \/ UnlinkFails
    \/ RdwrLocked

\* The steps of a call that has begun.
Proceed == NameI \/ Rest \/ ExitClose \/ Restart

Next ==
    \/ Proceed
    \/ \E m \in SearchMode : Begin(m)
    \/ \E fd \in FD : Close(fd) \/ Dup(fd) \/ FStat(fd) \/ Rdwr(fd)
    \/ Update
    \/ Exit

\* The process runs on: a call in progress takes its next step when it can.
Spec == Init /\ [][Next]_vars /\ WF_vars(Proceed)

=============================================================================
