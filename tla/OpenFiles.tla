----------------------------- MODULE OpenFiles -----------------------------
(***************************************************************************)
(* Dentries, file objects and descriptors: sys_open, sys_close, sys_read,  *)
(* sys_write and sys_lseek of fs/fs.c, over the slots filp[] that do_fork  *)
(* copies with the task.  A call is one step (interrupts are off).         *)
(*                                                                         *)
(* File objects and dentries are slab objects: freed memory keeps its      *)
(* contents and may be handed out again, and the code keeps pointers to    *)
(* it.  An inode is identified with the file's name, since no call gives a *)
(* file a second one; what open and put_inode do to the disk is module     *)
(* FileSystem.  Sizes and positions are in units of a page or less, so a   *)
(* read or write is one round of the loop in sys_read and sys_write.       *)
(*                                                                         *)
(* Page 0 is mapped and holds the page directory: a call that follows a    *)
(* null pointer changes or reads page directory entries and goes on.  The  *)
(* model stops there, "undefined", and says nothing of what follows.       *)
(***************************************************************************)
EXTENDS Integers, FiniteSets

CONSTANTS
    Task, init,         \* tasks; the one that runs at boot
    Name,               \* names of files in the root directory
    NR_MAX_OPEN,        \* slots of a task: 10
    FileObj, DentryObj, \* slab objects (bound)
    Root,               \* root_dentry; also stands for root_inode
    Null,
    MaxSize,            \* bound: size of a file
    Usage               \* what callers do: "path" opens paths of two parts,
                        \* "shared" closes a file that others have open,
                        \* "beyond" seeks before the start or behind the end

Fd == 0 .. NR_MAX_OPEN - 1
Dentry == DentryObj \cup {Root}

ASSUME OpenAssumption ==
    /\ init \in Task /\ NR_MAX_OPEN \in Nat /\ MaxSize \in Nat
    /\ IsFiniteSet(FileObj)
    /\ Root \notin DentryObj \cup Name /\ Null \notin FileObj \cup Dentry \cup Name

VARIABLES
    tasks,      \* live tasks
    filp,       \* slots of each task
    file,       \* file objects
    freeFiles,  \* file objects that the slab may hand out
    dentry,     \* dentry objects and root_dentry
    cached,     \* dentry_list
    i_refcnt,   \* reference counts of inodes in memory, 0 if not there
    nullLink,   \* a dentry was linked to an i_dentry that nothing had set
    i_size,     \* sizes of the files, -1 for names that do not exist
    held,       \* history: the file a descriptor was opened for and not closed
    halted      \* "no", or what stopped the kernel

vars == <<tasks, filp, file, freeFiles, dentry, cached, i_refcnt, nullLink, i_size, held,
          halted>>
cache == <<dentry, cached, i_refcnt, nullLink>>
slots == <<tasks, filp, held>>

Init ==
    /\ tasks = {init}
    /\ filp = [t \in Task |-> [fd \in Fd |-> Null]]
    /\ file = [a \in FileObj |-> [dentry |-> Null, pos |-> 0]]
    /\ freeFiles = FileObj
    /\ dentry = [d \in Dentry |->
          IF d = Root THEN [name |-> Root, parent |-> Root, inode |-> Root, refcnt |-> 1]
          ELSE [name |-> Null, parent |-> Null, inode |-> Null, refcnt |-> 0]]
    /\ cached = {Root}
    /\ i_refcnt = [n \in Name \cup {Root} |-> IF n = Root THEN 1 ELSE 0]
    /\ nullLink = FALSE
    /\ i_size = [n \in Name |-> -1]
    /\ held = [t \in Task |-> [fd \in Fd |-> Null]]
    /\ halted = "no"

\* A dentry when it has got parent and inode, and when it has lost them
Linked(n) == [name |-> n, parent |-> Root, inode |-> n, refcnt |-> 2]
Unlinked(e) == [name |-> e.name, parent |-> Null, inode |-> Null, refcnt |-> e.refcnt - 2]

Halt(why) ==
    /\ halted' = why
    /\ UNCHANGED <<slots, file, freeFiles, cache, i_size>>

-----------------------------------------------------------------------------
FreeSlots(t) == {fd \in Fd : filp[t][fd] = Null}
Slot(t) == CHOOSE fd \in FreeSlots(t) : \A g \in FreeSlots(t) : fd <= g

\* mutant: names of the same length are taken for equal
Hits_length(n) == {d \in cached \ {Root} : dentry[d].refcnt # 0 /\ dentry[d].parent = Root}

\* get_dentry's search of dentry_list
Hits(n) == {d \in cached : dentry[d].name = n /\ dentry[d].refcnt # 0
                              /\ dentry[d].parent = Root}

\* mutant: the position of a recycled file object is not reset
Enter_keeps_pos(t, n, a, d) ==
    /\ filp' = [filp EXCEPT ![t][Slot(t)] = a]
    /\ file' = [file EXCEPT ![a].dentry = d]
    /\ freeFiles' = freeFiles \ {a}
    /\ held' = [held EXCEPT ![t][Slot(t)] = n]
    /\ UNCHANGED <<tasks, halted>>

\* open took file object a for slot Slot(t): the call returns descriptor of n
Enter(t, n, a, d) ==
    /\ filp' = [filp EXCEPT ![t][Slot(t)] = a]
    /\ file' = [file EXCEPT ![a] = [dentry |-> d, pos |-> 0]]
    /\ freeFiles' = freeFiles \ {a}
    /\ held' = [held EXCEPT ![t][Slot(t)] = n]
    /\ UNCHANGED <<tasks, halted>>

\* with all slots taken, open returns -1 and changes nothing
Calling(t) == halted = "no" /\ t \in tasks /\ FreeSlots(t) # {}

\* _opendir takes a reference of the root that nobody gives back
OpenHit(t, n) ==
    /\ Calling(t) /\ dentry[Root].inode = Root
    /\ \E d \in Hits(n), a \in freeFiles :
        /\ dentry' = [dentry EXCEPT ![Root].refcnt = @ + 1, ![d].refcnt = @ + 1]
        /\ Enter(t, n, a, d)
    /\ UNCHANGED <<cached, i_refcnt, nullLink, i_size>>

\* A new dentry for an inode that is read or, with O_CREAT, made.  Only create_inode
\* sets i_dentry: in the object that get_inode takes for an inode it reads,
\* list_add finds what the object held before, null if it is new (FileSystem
\* follows the objects).
OpenMiss(t, n) ==
    /\ Calling(t) /\ dentry[Root].inode = Root
    /\ Hits(n) = {}
    /\ \E d \in DentryObj \ cached, a \in freeFiles :
        /\ dentry' = [dentry EXCEPT ![Root].refcnt = @ + 2, ![d] = Linked(n)]
        /\ cached' = cached \cup {d}
        /\ Enter(t, n, a, d)
    /\ i_size' = [i_size EXCEPT ![n] = IF @ = -1 THEN 0 ELSE @]
    /\ i_refcnt' = [i_refcnt EXCEPT ![n] = @ + 2]
    /\ \E null \in BOOLEAN : nullLink' =
        (nullLink \/ (null /\ i_size[n] # -1 /\ i_refcnt[n] = 0))

\* mutant: a failed open does not free the file object
Failed_no_free(t, a) ==
    /\ filp' = [filp EXCEPT ![t][Slot(t)] = a]
    /\ file' = [file EXCEPT ![a].pos = 0]
    /\ freeFiles' = freeFiles \ {a}
    /\ UNCHANGED <<tasks, held, i_size>>

\* No such file: the file object is freed, the slot keeps the pointer
Failed(t, a) ==
    /\ filp' = [filp EXCEPT ![t][Slot(t)] = a]
    /\ file' = [file EXCEPT ![a].pos = 0]
    /\ UNCHANGED <<tasks, freeFiles, held, i_size>>

OpenFails(t, n) ==
    /\ Calling(t) /\ dentry[Root].inode = Root
    /\ Hits(n) = {} /\ i_size[n] = -1
    /\ \E a \in freeFiles : Failed(t, a)
    /\ dentry' = [dentry EXCEPT ![Root].refcnt = @ + 1]
    /\ UNCHANGED <<cached, i_refcnt, nullLink, halted>>

\* A path of two parts: strncmp looks at one character too many, so the first
\* part is never found, and _opendir closes the root dentry
OpenPath(t) ==
    /\ "path" \in Usage
    /\ Calling(t) /\ dentry[Root].inode = Root
    /\ IF dentry[Root].refcnt = 2 THEN Halt("assert i_refcnt")
       ELSE /\ \E a \in freeFiles : Failed(t, a)
            /\ dentry' = [dentry EXCEPT ![Root] = Unlinked(@)]
            /\ i_refcnt' = [i_refcnt EXCEPT ![Root] = @ - 1]
            /\ UNCHANGED <<cached, nullLink, halted>>

\* ... after which the next open fails an assert
OpenStops(t) ==
    /\ Calling(t) /\ dentry[Root].inode # Root
    /\ Halt("assert root inode")

-----------------------------------------------------------------------------
\* Calls use the descriptors that open gave the task or its parent and that it
\* has not closed.
Using(t, fd) == halted = "no" /\ t \in tasks /\ held[t][fd] # Null
Descriptor == {s \in tasks \X Fd : held[s[1]][s[2]] # Null}
FileObject(s) == filp[s[1]][s[2]]
Used(s) == file[FileObject(s)].dentry
FileOf(t, fd) == file[filp[t][fd]]
DentryOf(t, fd) == dentry[FileOf(t, fd).dentry]

\* sys_close: _close, put_dentry, put_inode.  The slot is not cleared, and
\* f_refcnt is not looked at.
Close(t, fd) ==
    LET a == filp[t][fd]
        d == FileOf(t, fd).dentry
        e == DentryOf(t, fd)
        last == e.refcnt = 2 IN
    /\ Using(t, fd)
    /\ "shared" \in Usage \/ \A s \in Descriptor : Used(s) = d => s = <<t, fd>>
    /\ IF e.refcnt = 0 THEN Halt("assert d_refcnt")
       ELSE IF e.parent = Null THEN Halt("undefined")
       ELSE IF a \in freeFiles THEN Halt("double free")
       ELSE /\ dentry' = [dentry EXCEPT ![Root].refcnt = @ - 1, ![d] = Unlinked(e)]
            /\ i_refcnt' = [i_refcnt EXCEPT ![e.inode] = @ - IF last THEN 2 ELSE 1]
            /\ cached' = IF last THEN cached \ {d} ELSE cached
            /\ freeFiles' = freeFiles \cup {a}
            /\ held' = [held EXCEPT ![t][fd] = Null]
            /\ UNCHANGED <<tasks, filp, file, nullLink, i_size, halted>>

\* sys_lseek looks at nothing: whence SEEK_SET and SEEK_CUR lead to any position,
\* SEEK_END too, from the size of the inode.  It is callers who stay in the file.
Lseek(t, fd, whence, pos) ==
    /\ Using(t, fd)
    /\ "beyond" \in Usage \/ pos \in 0 .. i_size[held[t][fd]]
    /\ IF whence = "end" /\ DentryOf(t, fd).inode = Null THEN Halt("undefined")
       ELSE /\ file' = [file EXCEPT ![filp[t][fd]].pos = pos]
            /\ UNCHANGED <<freeFiles, cache, i_size, slots, halted>>

\* sys_read of one cell or more: to the end of the file; from behind it, the
\* count wraps below zero and the loop goes round for ever
Read(t, fd, count) ==
    LET f == FileOf(t, fd)
        n == DentryOf(t, fd).inode IN
    /\ Using(t, fd) /\ count > 0
    /\ IF f.pos < 0 THEN Halt("assert pos")
       ELSE IF n = Null THEN Halt("undefined")
       ELSE IF f.pos > i_size[n] THEN Halt("endless read")
       ELSE /\ file' = [file EXCEPT ![filp[t][fd]].pos =
                  IF f.pos + count > i_size[n] THEN i_size[n] ELSE f.pos + count]
            /\ UNCHANGED <<freeFiles, cache, i_size, slots, halted>>

\* sys_write of one cell or more.  Behind the end of the file, _get_zone_blk may
\* find the block to be too far (FileSystem); else a hole is left.
Write(t, fd, count) ==
    LET f == FileOf(t, fd)
        n == DentryOf(t, fd).inode IN
    /\ Using(t, fd) /\ count > 0
    /\ \E far \in BOOLEAN :
       IF f.pos < 0 THEN Halt("assert pos")
       ELSE IF n = Null THEN Halt("assert inode")
       ELSE IF far /\ f.pos > i_size[n] THEN Halt("zone too big")
       ELSE /\ f.pos + count <= MaxSize
            /\ file' = [file EXCEPT ![filp[t][fd]].pos = f.pos + count]
            /\ i_size' = [i_size EXCEPT ![n] = IF f.pos + count > @ THEN f.pos + count ELSE @]
            /\ UNCHANGED <<freeFiles, cache, slots, halted>>

\* do_fork copies the task struct with filp[] and counts nothing
Fork(t, c) ==
    /\ halted = "no" /\ t \in tasks /\ c \notin tasks
    /\ tasks' = tasks \cup {c}
    /\ filp' = [filp EXCEPT ![c] = filp[t]]
    /\ held' = [held EXCEPT ![c] = held[t]]
    /\ UNCHANGED <<file, freeFiles, cache, i_size, halted>>

Next ==
    \E t \in Task :
        \/ \E n \in Name : OpenHit(t, n) \/ OpenMiss(t, n) \/ OpenFails(t, n)
        \/ OpenPath(t) \/ OpenStops(t)
        \/ \E fd \in Fd :
            \/ Close(t, fd)
            \/ \E whence \in {"set", "end"}, pos \in -1 .. MaxSize : Lseek(t, fd, whence, pos)
            \/ \E count \in 1 .. MaxSize : Read(t, fd, count) \/ Write(t, fd, count)
        \/ \E c \in Task : Fork(t, c)

Spec == Init /\ [][Next]_vars

-----------------------------------------------------------------------------
\* A descriptor that its task opened and did not close leads to the file it was
\* opened for, whatever objects were freed and handed out again in between: file
\* object and dentry are allocated, the dentry has the name and the inode, and
\* the inode is in memory.  file-system.txt section 4 gives the file object a
\* count of those who share it for this.
DescriptorsKeepTheirFile ==
    \A s \in Descriptor : LET e == dentry[Used(s)] n == held[s[1]][s[2]] IN
        /\ FileObject(s) \notin freeFiles /\ Used(s) \in cached
        /\ e.inode = n /\ e.name = n /\ i_refcnt[n] > 0

\* Over any sequence of opens, failing opens, closes and forks nothing is lost:
\* the file objects and dentries in use are those of open descriptors, and a
\* dentry counts its file objects (one more for the link to its parent).
CachesHoldOpenFiles ==
    /\ freeFiles = FileObj \ {FileObject(s) : s \in Descriptor}
    /\ cached \ {Root} = {Used(s) : s \in Descriptor}
    /\ \A d \in cached \ {Root} :
        dentry[d].refcnt = 1 + Cardinality({a \in FileObj \ freeFiles : file[a].dentry = d})

\* If no caller seeks out of its file, no position is behind the end of the file,
\* where the loop of sys_read does not end, although positions are kept per file
\* object, and objects are shared with children and recycled with other files.
PositionsInFile ==
    \A s \in Descriptor : file[FileObject(s)].pos \in 0 .. i_size[held[s[1]][s[2]]]

\* "read can't exceed file end" (fs.c:251), and sys_read says that it truncates what
\* exceeds it (fs.c:760): then every read returns.  It does not when "beyond" is in
\* Usage, since nothing in sys_lseek keeps the position in the file.
ReadsEnd == halted # "endless read"
=============================================================================
