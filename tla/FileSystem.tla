---------------------------- MODULE FileSystem ----------------------------
(***************************************************************************)
(* fs/fs.c and fs/bitmap.h below the dentries: super block, bitmaps, inode *)
(* table and data zones on the disk, the inodes in memory, and the calls   *)
(* that open, create, write and close files of the one directory there is. *)
(*                                                                         *)
(* Every change of a disk block is a bread, a store, a bwrite and a        *)
(* brelease of the only holder, so it is on the disk when the statement    *)
(* ends (BlockStore): each action changes at most one block, in the order  *)
(* of the code, and the machine may lose power between any two.  Calls do  *)
(* not overlap: the kernel runs with interrupts off.                       *)
(*                                                                         *)
(* Sizes and positions are counted in cells; BS cells make a block.  A     *)
(* directory record is one cell.                                           *)
(***************************************************************************)
EXTENDS Integers, Sequences, FiniteSets

CONSTANTS
    Name, Value,    \* file names; what a cell of a file may hold
    Zero,           \* a cleared cell
    BS,             \* BLOCK_SIZE
    NR_DIRECT,      \* zones of an inode: 7
    NR_INODES,      \* inode numbers 1 .. NR_INODES; 1 is the root directory
    NR_ZONES,       \* data blocks behind s_data_start
    MaxCount,       \* bound: cells of one write
    MaxCrash        \* bound: power cycles

Inum == 1 .. NR_INODES
Zone == 1 .. NR_ZONES
Index == 0 .. NR_DIRECT - 1
Buffer == UNION {[1 .. k -> Value] : k \in 1 .. MaxCount}
Entry == [name : Name, inode : Inum]
Cell == Value \cup Entry \cup {Zero}
Block == [0 .. BS - 1 -> Cell]

ASSUME FileAssumption ==
    /\ BS \in Nat \ {0} /\ NR_DIRECT \in Nat \ {0}
    /\ NR_INODES \in Nat \ {0} /\ NR_ZONES \in Nat
    /\ MaxCount \in Nat /\ MaxCrash \in Nat
    /\ Zero \notin Value \cup Entry

VARIABLES
    magic,      \* s_magic on the disk is SUPER_MAGIC
    imap, zmap, \* bits set in the inode bitmap and, of the data blocks, the zone bitmap
    itable,     \* inode table on the disk
    data,       \* data blocks on the disk
    inode,      \* inode_list: the inodes in memory
    listed,     \* those of them whose i_dentry is a list, not null
    freed,      \* inode objects the slab has got back, the last one first:
                \* TRUE for one whose i_dentry is a list
    nullLink,   \* a dentry was linked to a null i_dentry
    dentry,     \* name -> inode of its dentry, 0 if it has none
    pc, job,    \* where the running call is, and its arguments and locals
    halted,     \* "no", or the panic or assert the kernel spins in
    crashes,    \* power cycles so far
    leaky, torn \* history: a call, or the making of a name, was cut in two

disk == <<magic, imap, zmap, itable, data>>
objects == <<listed, freed, nullLink>>
memory == <<inode, objects, dentry, pc, job, halted>>
history == <<crashes, leaky, torn>>
vars == <<disk, memory, history>>

NoZones == [z \in Index |-> 0]
Zones == [Index -> Zone \cup {0}]
NoInode == [size |-> 0, nlink |-> 0, zone |-> << >>]
NoJob == [op |-> "none", name |-> {}, inum |-> 1, target |-> 1, pos |-> 0,
          buf |-> << >>, left |-> 0, zone |-> 0, cur |-> 0, blk |-> 0]

Init ==
    /\ magic = FALSE /\ imap = {} /\ zmap = {}
    /\ itable = [i \in Inum |-> NoInode]
    /\ data = [z \in Zone |-> [c \in 0 .. BS - 1 |-> Zero]]
    /\ inode = [i \in Inum |-> NoInode]
    /\ listed = {} /\ freed = << >> /\ nullLink = FALSE
    /\ dentry = [n \in Name |-> 0]
    /\ pc = "off" /\ job = NoJob /\ halted = "no"
    /\ crashes = 0 /\ leaky = FALSE /\ torn = FALSE

-----------------------------------------------------------------------------
Least(S) == CHOOSE x \in S : \A y \in S : x <= y
Ceil(size) == (size + BS - 1) \div BS

\* mutant: mkfs marks one block less than it uses
FreeZones_low == (0 .. NR_ZONES) \ zmap

\* _bitmap_alloc takes the first zero bit
FreeInum == (1 .. NR_INODES) \ imap
FreeZones == Zone \ zmap

Halt(message) ==
    halted' = message /\ UNCHANGED <<disk, inode, dentry, pc, job, objects, history>>

Cut(d) == [size |-> d.size, nlink |-> d.nlink, zone |-> d.zone]
Loaded(d, count) ==
    [size |-> d.size, nlink |-> d.nlink, zone |-> d.zone, refcnt |-> count]

\* inode m in memory becomes v and is written
WriteInode(i, v) ==
    /\ inode' = [inode EXCEPT ![i] = v]
    /\ itable' = [itable EXCEPT ![i] = Cut(v)]

\* Cell k of the file of inode d
At(d, k) == data[d.zone[k \div BS]][k % BS]
Records(d) == {k \in 0 .. d.size - 1 : At(d, k) # Zero}
Positions(d, n) == {k \in Records(d) : At(d, k).name = n}
Lookup(n) == At(inode[1], Least(Positions(inode[1], n))).inode
Found(n) == Positions(inode[1], n) # {}
FreeRecord(d) == Least({k \in 0 .. d.size : k \notin Records(d)})

\* kmem_cache_alloc hands out the inode object that was freed last, as it was,
\* or a new one from zeroed memory (a slab holds some fifty of them).
HasList == freed # << >> /\ Head(freed)
Rest == IF freed = << >> THEN << >> ELSE Tail(freed)

-----------------------------------------------------------------------------
\* fs_init: an unformatted disk is formatted first, beginning with the
\* super block
Boot ==
    /\ pc = "off" /\ halted = "no"
    /\ magic' = TRUE
    /\ pc' = IF magic THEN "mount" ELSE "mkfs imap"
    /\ UNCHANGED <<imap, zmap, itable, data, inode, dentry, job, halted, objects, history>>

MkfsImap ==
    /\ pc = "mkfs imap" /\ pc' = "mkfs zmap"
    /\ imap' = {1}
    /\ UNCHANGED <<magic, zmap, itable, data, inode, dentry, job, halted, objects, history>>

MkfsZmap ==
    /\ pc = "mkfs zmap" /\ pc' = "mkfs root"
    /\ zmap' = {}
    /\ UNCHANGED <<magic, imap, itable, data, inode, dentry, job, halted, objects, history>>

MkfsRoot ==
    /\ pc = "mkfs root" /\ pc' = "mount"
    /\ itable' = [itable EXCEPT ![1] = [size |-> 0, nlink |-> 2, zone |-> NoZones]]
    /\ UNCHANGED <<magic, imap, zmap, data, inode, dentry, job, halted, objects, history>>

\* read_inode of the root, the rest of fs_init
Mount ==
    /\ pc = "mount" /\ halted = "no"
    /\ IF 1 \notin imap THEN Halt("read non-exist inode")
       ELSE IF itable[1] = NoInode THEN Halt("assert")
       ELSE /\ inode' = [inode EXCEPT ![1] = Loaded(itable[1], 1)]
            /\ pc' = "idle"
            /\ UNCHANGED <<disk, dentry, job, halted, objects, history>>

-----------------------------------------------------------------------------
\* sys_open of a name that does not exist, with O_CREAT: create_inode takes a
\* bit of the inode bitmap ...
Create(n) ==
    /\ pc = "idle" /\ halted = "no"
    /\ ~Found(n)
    /\ IF FreeInum = {} THEN Halt("map is full")
       ELSE /\ imap' = imap \cup {Least(FreeInum)}
            /\ job' = [NoJob EXCEPT !.op = "create", !.name = n, !.inum = Least(FreeInum)]
            /\ pc' = "inode"
            /\ UNCHANGED <<magic, zmap, itable, data, inode, dentry, halted, objects, history>>

\* a write of count cells at pos begins: _write's and _reserve_zone's locals
Transfer(j, target, size, pos, buf) ==
    /\ job' = [j EXCEPT !.target = target, !.pos = pos, !.buf = buf,
                        !.left = Len(buf), !.zone = pos \div BS, !.cur = Ceil(size)]
    /\ pc' = "write"

\* ... writes the inode, whose i_dentry it initialises, and create_dentry adds
\* the record
CreateInode ==
    /\ pc = "inode"
    /\ WriteInode(job.inum, [size |-> 0, nlink |-> 0, zone |-> NoZones, refcnt |-> 1])
    /\ Transfer(job, 1, inode[1].size, FreeRecord(inode[1]),
                << [name |-> job.name, inode |-> job.inum] >>)
    /\ listed' = listed \cup {job.inum} /\ freed' = Rest
    /\ UNCHANGED <<magic, imap, zmap, data, dentry, halted, nullLink, history>>

\* sys_write.  Callers leave no hole (_reserve_zone's "we need to assume").
Write(n, pos, buf) ==
    /\ pc = "idle" /\ halted = "no"
    /\ dentry[n] # 0
    /\ pos <= inode[dentry[n]].size
    /\ Transfer([NoJob EXCEPT !.op = "write", !.name = n, !.inum = dentry[n]],
                dentry[n], inode[dentry[n]].size, pos, buf)
    /\ UNCHANGED <<disk, inode, dentry, halted, objects, history>>

-----------------------------------------------------------------------------
\* _write of job.buf into the inode job.target
target == inode[job.target]
\* mutant: a zone more than needed if the write ends with a block
Need_round == (job.pos + Len(job.buf)) \div BS + 1
Need == Ceil(job.pos + Len(job.buf))

\* mutant: the bitmap block is changed and not written
Reserve_no_bwrite ==
    /\ pc = "write" /\ halted = "no" /\ job.cur < Need
    /\ IF FreeZones = {} THEN Halt("map is full")
       ELSE /\ job' = [job EXCEPT !.blk = Least(FreeZones)]
            /\ pc' = "clear"
            /\ UNCHANGED <<disk, inode, dentry, halted, objects, history>>

\* _reserve_zone: one more zone; _get_blk sets its bit ...
Reserve ==
    /\ pc = "write" /\ halted = "no" /\ job.cur < Need
    /\ IF FreeZones = {} THEN Halt("map is full")
       ELSE /\ zmap' = zmap \cup {Least(FreeZones)}
            /\ job' = [job EXCEPT !.blk = Least(FreeZones)]
            /\ pc' = "clear"
            /\ UNCHANGED <<magic, imap, itable, data, inode, dentry, halted, objects, history>>

\* ... and clears it, and _set_zone_blk enters it
ClearZone ==
    /\ pc = "clear" /\ halted = "no"
    /\ data' = [data EXCEPT ![job.blk] = [c \in 0 .. BS - 1 |-> Zero]]
    /\ IF job.cur >= NR_DIRECT
       THEN halted' = "indirect zone" /\ UNCHANGED <<inode, pc, job>>
       ELSE /\ inode' = [inode EXCEPT ![job.target].zone[job.cur] = job.blk]
            /\ job' = [job EXCEPT !.cur = @ + 1]
            /\ pc' = "write"
            /\ UNCHANGED halted
    /\ UNCHANGED <<magic, imap, zmap, itable, dentry, objects, history>>

\* The first chunk ends at the end of its block.  The size of the others is
\* the rest modulo the block size as soon as the rest is longer than a block.
First == job.left = Len(job.buf)
\* mutant: the first chunk goes to the start of its block
Start_zero == 0
Start == IF First THEN job.pos % BS ELSE 0
Chunk ==
    IF First THEN (IF job.left < BS - Start THEN job.left ELSE BS - Start)
    ELSE IF job.left > BS THEN job.left % BS ELSE job.left

StoreChunk ==
    /\ pc = "write" /\ halted = "no" /\ job.cur >= Need /\ job.left > 0
    /\ IF job.zone > Ceil(target.size) THEN Halt("zone too big")
       ELSE /\ data' = [data EXCEPT ![target.zone[job.zone]] =
                   [c \in 0 .. BS - 1 |->
                       IF c \in Start .. Start + Chunk - 1
                       THEN job.buf[Len(job.buf) - job.left + 1 + c - Start]
                       ELSE @[c]]]
            /\ job' = [job EXCEPT !.left = @ - Chunk, !.zone = @ + 1]
            /\ UNCHANGED <<magic, imap, zmap, itable, inode, dentry, pc, halted, objects, history>>

\* mutant: the size is set in memory only
FinishWrite_no_inode ==
    /\ pc = "write" /\ halted = "no" /\ job.cur >= Need /\ job.left = 0
    /\ inode' = [inode EXCEPT ![job.target].size =
                    IF @ < job.pos + Len(job.buf) THEN job.pos + Len(job.buf) ELSE @]
    /\ IF job.op = "create" THEN pc' = "link directory" /\ UNCHANGED job
       ELSE pc' = "idle" /\ job' = NoJob
    /\ UNCHANGED <<disk, dentry, halted, objects, history>>

\* the size, and write_inode
FinishWrite ==
    /\ pc = "write" /\ halted = "no" /\ job.cur >= Need /\ job.left = 0
    /\ WriteInode(job.target,
         [target EXCEPT !.size = IF @ < job.pos + Len(job.buf)
                                 THEN job.pos + Len(job.buf) ELSE @])
    /\ IF job.op = "create" THEN pc' = "link directory" /\ UNCHANGED job
       ELSE pc' = "idle" /\ job' = NoJob
    /\ UNCHANGED <<magic, imap, zmap, data, dentry, halted, objects, history>>

\* the end of _add_dir_entry
LinkDirectory ==
    /\ pc = "link directory" /\ pc' = "link"
    /\ WriteInode(1, [inode[1] EXCEPT !.nlink = @ + 1])
    /\ UNCHANGED <<magic, imap, zmap, data, dentry, job, halted, objects, history>>

\* mutant: the inode is written before its link is counted
Link_late ==
    /\ pc = "link" /\ pc' = "idle"
    /\ itable' = [itable EXCEPT ![job.inum] = Cut(inode[job.inum])]
    /\ inode' = [inode EXCEPT ![job.inum].nlink = @ + 1, ![job.inum].refcnt = @ + 1]
    /\ dentry' = [dentry EXCEPT ![job.name] = job.inum]
    /\ job' = NoJob
    /\ UNCHANGED <<magic, imap, zmap, data, halted, objects, history>>

\* the end of create_dentry
Link ==
    /\ pc = "link" /\ pc' = "idle"
    /\ WriteInode(job.inum, [inode[job.inum] EXCEPT !.nlink = @ + 1, !.refcnt = @ + 1])
    /\ dentry' = [dentry EXCEPT ![job.name] = job.inum]
    /\ job' = NoJob
    /\ UNCHANGED <<magic, imap, zmap, data, halted, objects, history>>

-----------------------------------------------------------------------------
\* sys_open of a name without dentry: get_inode, and __dlink_inode's reference.
\* Nothing on this way sets i_dentry.  If it is null, list_add stores into the
\* page at address 0, where the page directory is: the entry of 4 to 8 MB is lost,
\* which is seen only when so much memory is in use.
Open(n) ==
    /\ pc = "idle" /\ halted = "no"
    /\ dentry[n] = 0 /\ Found(n)
    /\ LET i == Lookup(n) IN
       IF inode[i] # NoInode
       THEN /\ inode' = [inode EXCEPT ![i].refcnt = @ + 2]
            /\ dentry' = [dentry EXCEPT ![n] = i]
            /\ UNCHANGED <<disk, pc, job, halted, objects, history>>
       ELSE IF i \notin imap THEN Halt("read non-exist inode")
       ELSE /\ inode' = [inode EXCEPT ![i] = Loaded(itable[i], 2)]
            /\ listed' = IF HasList THEN listed \cup {i} ELSE listed
            /\ freed' = Rest
            /\ nullLink' = (nullLink \/ ~HasList)
            /\ dentry' = [dentry EXCEPT ![n] = i]
            /\ UNCHANGED <<disk, pc, job, halted, history>>

\* put_inode of inode i, which is m when the reference is gone: the asserts, and
\* what the last reference does.  An inode without links is deleted.
PutInode(i, m) ==
    IF \/ m.refcnt < 0
       \/ m.refcnt = 0 /\ m.nlink = 0 /\ (i \notin listed \/ i = 1)
    THEN halted' = "assert put_inode" /\ UNCHANGED <<disk, inode, pc, job, objects>>
    ELSE IF m.refcnt > 0
    THEN /\ inode' = [inode EXCEPT ![i] = m]
         /\ UNCHANGED <<disk, pc, job, halted, objects>>
    ELSE IF m.nlink > 0
    THEN /\ itable' = [itable EXCEPT ![i] = Cut(m)]
         /\ inode' = [inode EXCEPT ![i] = NoInode]
         /\ freed' = << i \in listed >> \o freed /\ listed' = listed \ {i}
         /\ UNCHANGED <<magic, imap, zmap, data, pc, job, halted, nullLink>>
    ELSE /\ inode' = [inode EXCEPT ![i] = m]
         /\ job' = [NoJob EXCEPT !.op = "delete", !.inum = i, !.cur = Ceil(m.size)]
         /\ pc' = "delete"
         /\ UNCHANGED <<disk, halted, objects>>

\* sys_close of the last user of a name: put_dentry takes the dentry's reference
\* of the inode away, and put_inode the one of get_inode or create_inode
Close(n) ==
    /\ pc = "idle" /\ halted = "no"
    /\ dentry[n] # 0
    /\ dentry' = [dentry EXCEPT ![n] = 0]
    /\ PutInode(dentry[n], [inode[dentry[n]] EXCEPT !.refcnt = @ - 2])
    /\ UNCHANGED history

\* _reserve_zone(inode, 0, 1) gives the zones back from the last one
FreeZone ==
    /\ pc = "delete" /\ job.cur > 0
    /\ zmap' = zmap \ {inode[job.inum].zone[job.cur - 1]}
    /\ inode' = [inode EXCEPT ![job.inum].zone[job.cur - 1] = 0]
    /\ job' = [job EXCEPT !.cur = @ - 1]
    /\ UNCHANGED <<magic, imap, itable, data, dentry, pc, halted, objects, history>>

FreeInode ==
    /\ pc = "delete" /\ job.cur = 0 /\ pc' = "idle"
    /\ imap' = imap \ {job.inum}
    /\ inode' = [inode EXCEPT ![job.inum] = NoInode]
    /\ freed' = << TRUE >> \o freed /\ listed' = listed \ {job.inum}
    /\ job' = NoJob
    /\ UNCHANGED <<magic, zmap, itable, data, dentry, halted, nullLink, history>>

-----------------------------------------------------------------------------
\* Steps between which a name and its inode, or the parts of an empty file
\* system, do not belong together
Tearing == {"mkfs imap", "mkfs zmap", "mkfs root", "link directory", "link"}

\* power is lost, also in a stopped kernel
Crash ==
    /\ pc # "off" /\ crashes < MaxCrash
    /\ pc' = "off" /\ halted' = "no" /\ job' = NoJob
    /\ inode' = [i \in Inum |-> NoInode]
    /\ listed' = {} /\ freed' = << >> /\ nullLink' = FALSE
    /\ dentry' = [n \in Name |-> 0]
    /\ crashes' = crashes + 1
    /\ torn' = (torn \/ pc \in Tearing)
    /\ leaky' = (leaky \/ pc \notin {"mount", "idle"})
    /\ UNCHANGED disk

Call ==
    \E n \in Name :
        \/ Create(n) \/ Open(n) \/ Close(n)
        \/ \E pos \in 0 .. NR_DIRECT * BS, buf \in Buffer : Write(n, pos, buf)
Step ==
    \/ Boot \/ MkfsImap \/ MkfsZmap \/ MkfsRoot \/ Mount
    \/ CreateInode \/ Reserve \/ ClearZone \/ StoreChunk \/ FinishWrite
    \/ LinkDirectory \/ Link \/ FreeZone \/ FreeInode

Next == Call \/ Step \/ Crash
Spec == Init /\ [][Next]_vars

-----------------------------------------------------------------------------
\* Sizes, link and reference counts never go below zero (short and int in the
\* code), zones are data blocks or 0 and bits of the bitmaps stand for them.
TypeOK ==
    /\ magic \in BOOLEAN /\ imap \subseteq Inum /\ zmap \subseteq Zone
    /\ \A i \in Inum : itable[i] = NoInode \/ itable[i] \in
          [size : Nat, nlink : Nat, zone : Zones]
    /\ data \in [Zone -> Block]
    /\ \A i \in Inum : inode[i] = NoInode \/ inode[i] \in
          [size : Nat, nlink : Nat, zone : Zones, refcnt : Nat]
    /\ listed \subseteq Inum /\ freed \in Seq(BOOLEAN) /\ nullLink \in BOOLEAN
    /\ dentry \in [Name -> Inum \cup {0}]
    /\ crashes \in 0 .. MaxCrash /\ leaky \in BOOLEAN /\ torn \in BOOLEAN

-----------------------------------------------------------------------------
\* What a reboot finds: the records of the directory on the disk, the zones
\* and the contents of the files they name
Names == IF itable[1] = NoInode THEN {} ELSE
    {n \in Name : Positions(itable[1], n) # {}}
InodeOf(n) == At(itable[1], Least(Positions(itable[1], n))).inode
Owned(i) == {itable[i].zone[z] : z \in 0 .. Ceil(itable[i].size) - 1}
Files == [n \in Names |->
    [k \in 1 .. itable[InodeOf(n)].size |-> At(itable[InodeOf(n)], k - 1)]]

\* However many files are created, written and closed, and wherever the power
\* fails except in the steps Tearing: on the disk every name has an inode of its
\* own that is in use, with a link unless the call that makes it still runs.  So
\* no close deletes a file and no open fails on one (put_inode, read_inode).
NamesHaveInodes ==
    ~torn => \A n \in Names :
        /\ InodeOf(n) \in imap \ {1}
        /\ itable[InodeOf(n)].nlink = 0 => pc \in {"link directory", "link"} /\ job.name = n
        /\ \A m \in Names : InodeOf(m) = InodeOf(n) => m = n

\* What a call has returned survives a power failure: between calls each inode
\* in memory equals its slot of the inode table, and it is in use, so that the
\* panic of write_inode (fs.c:181) cannot happen, also after a torn create.
ReturnedCallsAreDurable ==
    \A i \in Inum : inode[i] # NoInode =>
        i \in imap /\ (pc = "idle" => Cut(inode[i]) = itable[i])

\* The data zones of the directory and of all files are marked in the zone
\* bitmap and belong to one file, at one index, at every step and after every
\* crash: no file is written over by another (_reserve_zone, _get_blk).
ZonesHaveOneOwner ==
    ~torn /\ itable[1] # NoInode =>
    LET live == {InodeOf(n) : n \in Names} \cup {1} IN
    /\ \A i \in live : Owned(i) \subseteq zmap /\ Cardinality(Owned(i)) = Ceil(itable[i].size)
    /\ \A i, j \in live : i # j => Owned(i) \cap Owned(j) = {}

\* As long as no call was cut in two, the bitmaps mark exactly what the directory
\* and the files use: bits are taken once and never lost.
NothingLeaks ==
    ~torn /\ ~leaky /\ pc = "idle" /\ halted = "no" =>
    LET live == {InodeOf(n) : n \in Names} \cup {1} IN
    imap = live /\ zmap = UNION {Owned(i) : i \in live}

Abs == INSTANCE FileStore WITH
    files <- Files,
    call <- IF job.op = "write" /\ halted = "no"
            THEN [name |-> job.name, pos |-> job.pos, buf |-> job.buf]
            ELSE [name |-> {}, pos |-> 0, buf |-> << >>]

\* What is on the disk at every moment is what the abstract store allows: a file
\* appears in one step, a write touches the cells asked for and no others, the
\* file grows when the call is done, and panics and power failures change no
\* file, unless they tear a create or the formatting of the disk.
ImplementsFileStore == [][~torn' => Abs!Next \/ UNCHANGED Abs!vars]_vars

\* put_inode deletes an inode only if no dentry is left on its list:
\* assert(list_empty(&inode->i_dentry) ...) (fs.c:123), and it is not called more
\* often than there are references (fs.c:114).  Each close has unlinked its
\* dentry before, so neither can fail.
DeletedInodeHasNoDentry == halted # "assert put_inode"
=============================================================================
