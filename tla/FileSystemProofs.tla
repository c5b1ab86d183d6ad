-------------------------- MODULE FileSystemProofs --------------------------
(* The directory, the zones and the bitmaps on the disk fit together for   *)
(* every number of names, inodes and blocks and every block size, after    *)
(* every crash that tears no create, as long as a write touches at most    *)
(* two blocks (the size _write computes for a third one is wrong).         *)
EXTENDS FileSystem, FiniteSetTheorems, TLAPS

Pcs == {"off", "mkfs imap", "mkfs zmap", "mkfs root", "mount", "idle", "inode", "write",
        "clear", "link directory", "link"}
Making == pc \in {"mkfs imap", "mkfs zmap", "mkfs root"}
Mounted == pc \notin {"off", "mount"} /\ ~Making
Moving == pc \in {"write", "clear"}
Linking == pc \in {"link directory", "link"}
Calling == pc = "inode" \/ Moving \/ Linking

Job == [op : {"none", "create", "write"}, name : Name \cup {{}}, inum : Inum,
        target : Inum, pos : Nat, buf : Seq(Value \cup Entry), left : Nat, zone : Nat,
        cur : Nat, blk : Zone \cup {0}]
DiskRec == [size : Nat, nlink : Nat, zone : Zones]
MemRec == [size : Nat, nlink : Nat, zone : Zones, refcnt : Nat]

Types ==
    /\ magic \in BOOLEAN /\ imap \subseteq Inum /\ zmap \subseteq Zone
    /\ itable \in [Inum -> DiskRec \cup {NoInode}]
    /\ data \in [Zone -> Block]
    /\ inode \in [Inum -> MemRec \cup {NoInode}]
    /\ dentry \in [Name -> Inum \cup {0}]
    /\ job \in Job /\ pc \in Pcs
    /\ crashes \in 0 .. MaxCrash /\ leaky \in BOOLEAN /\ torn \in BOOLEAN

\* What has been done where the machine is; a disk without root is empty.
Phases ==
    /\ ~Mounted => dentry = [n \in Name |-> 0] /\ inode = [i \in Inum |-> NoInode]
    /\ Mounted => inode[1] # NoInode
    /\ ~Calling => job = NoJob
    /\ Calling => job.op \in {"create", "write"} /\ (~Moving => job.op = "create")
    /\ itable[1] = NoInode =>
        /\ (pc = "off" /\ ~magic) \/ Making
        /\ zmap = {} /\ \A i \in Inum : itable[i] = NoInode
        /\ imap \subseteq {1} /\ (pc \in {"mkfs zmap", "mkfs root"} => 1 \in imap)
    /\ itable[1] # NoInode => magic /\ ~Making
    /\ Making => magic

\* An inode in memory is as on the disk, but for the zones being reserved.
Memory ==
    /\ \A i \in Inum : itable[i] # NoInode => i \in imap
    /\ \A i \in Inum : inode[i] # NoInode =>
        /\ itable[i] # NoInode
        /\ inode[i].size = itable[i].size /\ inode[i].nlink = itable[i].nlink
        /\ ~(Moving /\ i = job.target) => inode[i].zone = itable[i].zone

Sized(i) == Ceil(itable[i].size)
Have(i) == IF Moving /\ i = job.target THEN job.cur ELSE Sized(i)
ZoneOf(i, z) == IF Moving /\ i = job.target THEN inode[i].zone[z] ELSE itable[i].zone[z]

\* Every zone has one place, also while more are being reserved.
ZonesApart ==
    /\ \A i \in Inum : Sized(i) <= Have(i) /\ Have(i) <= NR_DIRECT
    /\ \A i \in Inum : \A z \in 0 .. Have(i) - 1 :
        ZoneOf(i, z) \in zmap /\ (z < Sized(i) => ZoneOf(i, z) = itable[i].zone[z])
    /\ \A i, j \in Inum : \A y \in 0 .. Have(i) - 1, z \in 0 .. Have(j) - 1 :
        ZoneOf(i, y) = ZoneOf(j, z) => i = j /\ y = z
    /\ pc = "clear" => job.blk \in zmap /\
        \A i \in Inum : \A z \in 0 .. Have(i) - 1 : ZoneOf(i, z) # job.blk

\* The cells of the directory are records of different names and inodes.
Cells == 0 .. itable[1].size - 1
Rec(k) == At(itable[1], k)
Directory ==
    /\ \A k \in Cells :
        /\ Rec(k) \in Entry /\ Rec(k).inode # 1
        /\ itable[Rec(k).inode] # NoInode
        /\ itable[Rec(k).inode].nlink = 0 =>
            Linking /\ job.inum = Rec(k).inode /\ job.name = Rec(k).name
    /\ \A k, l \in Cells :
        Rec(k).name = Rec(l).name \/ Rec(k).inode = Rec(l).inode => k = l

NewRecord == [name |-> job.name, inode |-> job.inum]
Creating ==
    job.op = "create" =>
        /\ job.name \in Name /\ dentry[job.name] = 0
        /\ job.inum \in imap \ {1}
        /\ IF pc = "inode" THEN inode[job.inum] = NoInode /\ itable[job.inum] = NoInode
           ELSE inode[job.inum] # NoInode /\ itable[job.inum].size = 0
                /\ inode[job.inum].refcnt = 1
        /\ IF Linking THEN \E k \in Cells : Rec(k) = NewRecord
           ELSE \A k \in Cells : Rec(k).name # job.name /\ Rec(k).inode # job.inum
        /\ Moving => job.target = 1 /\ job.pos = itable[1].size /\ job.buf = << NewRecord >>

\* How far a write is: zones are reserved up to job.cur, then Done cells are stored.
Done == Len(job.buf) - job.left
Transferring ==
    Moving =>
        /\ inode[job.target] # NoInode
        /\ job.op = "write" => /\ job.name \in Name /\ job.target = dentry[job.name]
                               /\ job.target = job.inum /\ job.buf \in Buffer
        /\ job.pos <= itable[job.target].size
        /\ Len(job.buf) >= 1 /\ Len(job.buf) <= BS + 1 /\ job.left <= Len(job.buf)
        /\ job.cur > Sized(job.target) => job.cur <= Need
        /\ pc = "clear" => job.cur < Need
        /\ job.cur < Need => Done = 0
        /\ job.left > 0 => job.zone = (job.pos + Done) \div BS
        /\ Done > 0 /\ job.left > 0 => (job.pos + Done) % BS = 0
        /\ \A k \in 0 .. Done - 1 : At(inode[job.target], job.pos + k) = job.buf[k + 1]

\* A dentry has its record in the directory and its inode in memory.
Dentries ==
    \A n \in Name : dentry[n] # 0 =>
        /\ inode[dentry[n]] # NoInode /\ inode[dentry[n]].refcnt >= 2
        /\ \E k \in Cells : Rec(k) = [name |-> n, inode |-> dentry[n]]

\* Without a crash in a call, nothing is marked that is not in use.
Exact ==
    ~leaky /\ itable[1] # NoInode =>
        /\ \A i \in imap : itable[i] # NoInode \/ (pc = "inode" /\ i = job.inum)
        /\ \A i \in Inum \ {1} : itable[i] # NoInode =>
            \/ \E k \in Cells : Rec(k).inode = i
            \/ job.op = "create" /\ i = job.inum
        /\ \A b \in zmap :
            \/ \E i \in Inum : \E z \in 0 .. Have(i) - 1 : ZoneOf(i, z) = b
            \/ pc = "clear" /\ b = job.blk

IInv ==
    /\ Types /\ Phases /\ Memory /\ ZonesApart /\ Directory /\ Creating
    /\ Transferring /\ Dentries /\ Exact

\* The slab's objects; no close stops in put_inode.
Objects ==
    /\ listed \subseteq Inum /\ freed \in Seq(BOOLEAN) /\ nullLink \in BOOLEAN
    /\ halted # "assert put_inode"

\* Everything said of the disk is said of one where no name was torn.
Whole == torn \/ IInv

-----------------------------------------------------------------------------
(* Blocks and cells                                                        *)

LEMMA Divide ==
    \A k \in Nat : /\ k \div BS \in Nat /\ k % BS \in 0 .. BS - 1
                   /\ k = (BS * (k \div BS)) + (k % BS)
  BY FileAssumption

LEMMA Quotient ==
    ASSUME NEW k \in Nat, NEW q \in Nat, NEW r \in 0 .. BS - 1, k = BS * q + r
    PROVE  k \div BS = q /\ k % BS = r
  BY FileAssumption

LEMMA CellOrder ==
    \A k, l \in Nat : k <= l => k \div BS <= l \div BS
  BY FileAssumption

LEMMA CellsDiffer ==
    \A k, l \in Nat : k \div BS = l \div BS /\ k % BS = l % BS => k = l
  BY Divide, FileAssumption

LEMMA CeilBounds ==
    /\ \A n \in Nat : Ceil(n) \in Nat
    /\ Ceil(0) = 0
  BY FileAssumption DEF Ceil

LEMMA CeilOrder ==
    \A m, n \in Nat : m <= n => Ceil(m) <= Ceil(n)
  BY CellOrder, FileAssumption DEF Ceil

LEMMA InFile ==
    \A n \in Nat, k \in Nat : k < n => k \div BS < Ceil(n)
  <1> SUFFICES ASSUME NEW n \in Nat, NEW k \in Nat, k < n
               PROVE  k \div BS < Ceil(n)
    OBVIOUS
  <1>1. (k + BS) \div BS = k \div BS + 1
    BY FileAssumption
  <1>2. (k + BS) \div BS <= (n + BS - 1) \div BS
    BY CellOrder, FileAssumption
  <1>3. QED
    BY <1>1, <1>2, Divide, CeilBounds DEF Ceil

-----------------------------------------------------------------------------
(* Records, and what the types give                                        *)

LEMMA Constants ==
    /\ 1 \in Inum /\ 0 \notin Inum /\ Inum \subseteq Nat
    /\ Zone \subseteq Nat /\ 0 \notin Zone
    /\ 0 \in Index /\ Index \subseteq Nat /\ \A z : z \in Index <=> z \in 0 .. NR_DIRECT - 1
    /\ BS \in Nat /\ BS > 0 /\ NR_DIRECT \in Nat /\ NR_DIRECT > 0
    /\ \A b \in Zone \cup {0} : b \in Zone <=> b # 0
  BY FileAssumption DEF Inum, Zone, Index

LEMMA NoInodeIsNone ==
    /\ NoInode.size = 0 /\ NoInode.nlink = 0
    /\ NoInode \notin DiskRec /\ NoInode \notin MemRec
  <1>1. NoInode.zone \notin Zones
    <2>1. DOMAIN NoInode.zone = {}
      BY DEF NoInode
    <2>2. \A f \in Zones : DOMAIN f = Index
      BY DEF Zones
    <2>3. QED
      BY <2>1, <2>2, Constants
  <1>2. QED
    BY <1>1 DEF NoInode, DiskRec, MemRec

LEMMA CutLoaded ==
    /\ \A m \in MemRec : /\ Cut(m) \in DiskRec /\ Cut(m).size = m.size
                         /\ Cut(m).nlink = m.nlink /\ Cut(m).zone = m.zone
    /\ \A d \in DiskRec, c \in Nat :
        /\ Loaded(d, c) \in MemRec /\ Loaded(d, c).size = d.size
        /\ Loaded(d, c).nlink = d.nlink /\ Loaded(d, c).zone = d.zone
        /\ Loaded(d, c).refcnt = c
  BY DEF Cut, Loaded, MemRec, DiskRec

LEMMA SameRecord ==
    \A c, d \in DiskRec : c.size = d.size /\ c.nlink = d.nlink /\ c.zone = d.zone => c = d
  BY DEF DiskRec

LEMMA FieldTypes ==
    /\ \A d \in DiskRec : d.size \in Nat /\ d.nlink \in Nat /\ d.zone \in Zones
    /\ \A m \in MemRec : /\ m.size \in Nat /\ m.nlink \in Nat /\ m.zone \in Zones
                         /\ m.refcnt \in Nat
  BY DEF DiskRec, MemRec

LEMMA JobTypes ==
    \A j \in Job : /\ j.op \in {"none", "create", "write"} /\ j.name \in Name \cup {{}}
                   /\ j.inum \in Inum /\ j.target \in Inum /\ j.pos \in Nat
                   /\ j.buf \in Seq(Value \cup Entry) /\ j.left \in Nat /\ j.zone \in Nat
                   /\ j.cur \in Nat /\ j.blk \in Zone \cup {0} /\ Len(j.buf) \in Nat
  BY DEF Job

LEMMA ZoneRange ==
    \A f \in Zones, z \in Index : f[z] \in Zone \cup {0}
  BY DEF Zones

LEMMA NoJobFields ==
    /\ NoJob.op = "none" /\ NoJob.target = 1 /\ NoJob.inum = 1 /\ NoJob.cur = 0
    /\ NoJob.blk = 0 /\ NoJob \in Job
  BY Constants DEF NoJob, Job

\* A call begins.
LEMMA JobStarts ==
    ASSUME NEW op \in {"create", "write"}, NEW n \in Name, NEW i \in Inum,
           job' = [NoJob EXCEPT !.op = op, !.name = n, !.inum = i]
    PROVE  /\ job' \in Job /\ job'.op = op /\ job'.name = n
           /\ job'.inum = i /\ job'.target = 1
  <1>1. NoJob \in Job /\ NoJob.target = 1
    BY NoJobFields
  <1>2. QED
    BY <1>1 DEF Job

\* A write begins: the locals of _write and _reserve_zone.
LEMMA TransferStarts ==
    ASSUME NEW j \in Job, NEW t \in Inum, NEW size \in Nat, NEW p \in Nat,
           NEW buf \in Seq(Value \cup Entry), Transfer(j, t, size, p, buf)
    PROVE  /\ job' \in Job /\ job'.target = t /\ job'.pos = p /\ job'.buf = buf
           /\ job'.left = Len(buf) /\ job'.zone = p \div BS /\ job'.cur = Ceil(size)
           /\ job'.op = j.op /\ job'.name = j.name /\ job'.inum = j.inum
           /\ pc' = "write"
  <1>1. Len(buf) \in Nat /\ p \div BS \in Nat /\ Ceil(size) \in Nat
    BY Divide, CeilBounds
  <1>2. job' = [j EXCEPT !.target = t, !.pos = p, !.buf = buf, !.left = Len(buf),
                         !.zone = p \div BS, !.cur = Ceil(size)] /\ pc' = "write"
    BY DEF Transfer
  <1>3. QED
    BY <1>1, <1>2 DEF Job

\* What the types say of one inode
LEMMA Slots ==
    ASSUME Types, NEW i \in Inum
    PROVE  /\ itable[i] # NoInode => itable[i] \in DiskRec
           /\ inode[i] # NoInode => inode[i] \in MemRec
           /\ itable[i].size \in Nat /\ itable[i].nlink \in Nat
           /\ inode[i].size \in Nat /\ inode[i].nlink \in Nat
           /\ itable[i] = NoInode => itable[i].size = 0
           /\ Sized(i) \in Nat /\ Have(i) \in Nat
           /\ itable[i] = NoInode => Sized(i) = 0
  <1>1. /\ itable[i] # NoInode => itable[i] \in DiskRec
        /\ inode[i] # NoInode => inode[i] \in MemRec
    BY DEF Types
  <1>2. /\ itable[i].size \in Nat /\ itable[i].nlink \in Nat
        /\ inode[i].size \in Nat /\ inode[i].nlink \in Nat
        /\ itable[i] = NoInode => itable[i].size = 0
    BY <1>1, NoInodeIsNone, FieldTypes
  <1>3. job \in Job
    BY DEF Types
  <1>4. Sized(i) \in Nat
    BY <1>2, CeilBounds DEF Sized
  <1>5. Have(i) \in Nat
    BY <1>3, <1>4, JobTypes DEF Have
  <1>6. QED
    BY <1>1, <1>2, <1>4, <1>5, CeilBounds DEF Sized

LEMMA Sizes == Types => \A i \in Inum : Sized(i) \in Nat /\ Have(i) \in Nat
  BY Slots

-----------------------------------------------------------------------------
(* The directory                                                           *)

LEMMA CellInside ==
    ASSUME Types, NEW i \in Inum, NEW k \in 0 .. itable[i].size - 1
    PROVE  /\ k \in Nat /\ k \div BS \in 0 .. Sized(i) - 1
           /\ k % BS \in 0 .. BS - 1
  <1>1. itable[i].size \in Nat /\ Sized(i) \in Nat /\ k \in Nat
    BY Slots
  <1>2. k \div BS < Sized(i)
    BY <1>1, InFile DEF Sized
  <1>3. QED
    BY <1>1, <1>2, Divide

LEMMA LeastOne ==
    ASSUME NEW k \in Int
    PROVE  Least({k}) = k
  BY DEF Least

LEMMA DirectoryRead ==
    ASSUME Types, Directory, NEW d, d.size = itable[1].size, d.zone = itable[1].zone
    PROVE  /\ \A k : At(d, k) = Rec(k)
           /\ Records(d) = Cells /\ FreeRecord(d) = d.size
           /\ \A n : Positions(d, n) = {k \in Cells : Rec(k).name = n}
           /\ \A k \in Cells : Positions(d, Rec(k).name) = {k}
                               /\ Least(Positions(d, Rec(k).name)) = k
  <1>1. \A k : At(d, k) = Rec(k)
    BY DEF At, Rec
  <1>2. Records(d) = Cells
    <2>1. \A k \in Cells : At(d, k) # Zero
      BY <1>1, FileAssumption DEF Directory
    <2>2. QED
      BY <2>1 DEF Records, Cells
  <1>3. d.size \in Nat
    BY Constants, Slots
  <1>4. FreeRecord(d) = d.size
    <2>1. {k \in 0 .. d.size : k \notin Records(d)} = {d.size}
      BY <1>2, <1>3 DEF Cells
    <2>2. QED
      BY <1>3, <2>1, LeastOne DEF FreeRecord
  <1>5. \A n : Positions(d, n) = {k \in Cells : Rec(k).name = n}
    BY <1>1, <1>2 DEF Positions
  <1>6. ASSUME NEW k \in Cells
        PROVE  Positions(d, Rec(k).name) = {k} /\ Least(Positions(d, Rec(k).name)) = k
    <2>1. Positions(d, Rec(k).name) = {k}
      BY <1>5 DEF Directory
    <2>2. k \in Int
      BY DEF Cells
    <2>3. QED
      BY <2>1, <2>2, LeastOne
  <1>7. QED
    BY <1>1, <1>2, <1>4, <1>5, <1>6

LEMMA EntryTypes ==
    ASSUME Types, Directory, NEW k \in Cells
    PROVE  /\ Rec(k).name \in Name /\ Rec(k).inode \in Inum \ {1}
           /\ Rec(k) = [name |-> Rec(k).name, inode |-> Rec(k).inode]
  BY DEF Directory, Entry

LEMMA NamesAre ==
    ASSUME Types, Directory, itable[1] # NoInode
    PROVE  /\ \A k \in Cells : Rec(k).name \in Names /\ InodeOf(Rec(k).name) = Rec(k).inode
           /\ \A n \in Names : n \in Name /\ \E k \in Cells : Rec(k).name = n
  <1>1. /\ \A k \in Cells : Positions(itable[1], Rec(k).name) = {k}
                            /\ Least(Positions(itable[1], Rec(k).name)) = k
        /\ \A n : Positions(itable[1], n) = {k \in Cells : Rec(k).name = n}
    BY DirectoryRead
  <1>2. ASSUME NEW k \in Cells
        PROVE  Rec(k).name \in Names /\ InodeOf(Rec(k).name) = Rec(k).inode
    BY <1>1, EntryTypes DEF Names, InodeOf, Rec
  <1>3. ASSUME NEW n \in Names
        PROVE  n \in Name /\ \E k \in Cells : Rec(k).name = n
    BY <1>1 DEF Names
  <1>4. QED
    BY <1>2, <1>3

-----------------------------------------------------------------------------
(* What the invariant says of the disk                                     *)

LEMMA DiskZones ==
    ASSUME Types, ZonesApart, NEW i \in Inum, NEW z \in 0 .. Sized(i) - 1
    PROVE  /\ z \in Index /\ itable[i].zone[z] \in zmap /\ itable[i].zone[z] \in Zone
           /\ z \in 0 .. Have(i) - 1 /\ ZoneOf(i, z) = itable[i].zone[z]
  <1>1. z \in 0 .. Have(i) - 1 /\ z \in 0 .. NR_DIRECT - 1
    BY Constants, Slots DEF ZonesApart
  <1>2. ZoneOf(i, z) = itable[i].zone[z] /\ itable[i].zone[z] \in zmap
    <2>1. z < Sized(i)
      BY Slots
    <2>2. QED
      BY <1>1, <2>1 DEF ZonesApart
  <1>3. QED
    BY <1>1, <1>2, Constants DEF Types

LEMMA OwnedZones ==
    ASSUME Types, ZonesApart, NEW i \in Inum
    PROVE  /\ Owned(i) \subseteq zmap /\ Cardinality(Owned(i)) = Ceil(itable[i].size)
           /\ \A j \in Inum : i # j => Owned(i) \cap Owned(j) = {}
  <1> DEFINE D == 0 .. Sized(i) - 1
             f == [z \in D |-> itable[i].zone[z]]
  <1>1. Owned(i) = {itable[i].zone[z] : z \in D}
    BY DEF Owned, Sized
  <1>2. Owned(i) \subseteq zmap
    BY <1>1, DiskZones
  <1>3. \A j \in Inum : i # j => Owned(i) \cap Owned(j) = {}
    <2> SUFFICES ASSUME NEW j \in Inum, i # j, NEW y \in D, NEW z \in 0 .. Sized(j) - 1
                 PROVE  itable[i].zone[y] # itable[j].zone[z]
      BY <1>1 DEF Owned, Sized
    <2>1. /\ y \in 0 .. Have(i) - 1 /\ ZoneOf(i, y) = itable[i].zone[y]
          /\ z \in 0 .. Have(j) - 1 /\ ZoneOf(j, z) = itable[j].zone[z]
      BY DiskZones
    <2>2. QED
      BY <2>1 DEF ZonesApart
  <1>4. Cardinality(Owned(i)) = Sized(i)
    <2>1. f \in Surjection(D, Owned(i))
      BY <1>1 DEF Surjection
    <2>2. f \in Injection(D, Owned(i))
      <3>0. f \in [D -> Owned(i)]
        BY <1>1
      <3> SUFFICES ASSUME NEW y \in D, NEW z \in D, f[y] = f[z]
                   PROVE  y = z
        BY <3>0 DEF Injection, IsInjective
      <3>1. /\ y \in 0 .. Have(i) - 1 /\ ZoneOf(i, y) = itable[i].zone[y]
            /\ z \in 0 .. Have(i) - 1 /\ ZoneOf(i, z) = itable[i].zone[z]
        BY DiskZones
      <3>2. QED
        BY <3>1 DEF ZonesApart
    <2>3. Sized(i) \in Nat
      BY Slots
    <2>4. IsFiniteSet(D) /\ Cardinality(D) = Sized(i)
      <3>1. IsFiniteSet(D) /\ Cardinality(D) = IF 0 > Sized(i) - 1 THEN 0 ELSE Sized(i) - 1 - 0 + 1
        BY <2>3, FS_Interval
      <3>2. QED
        BY <2>3, <3>1
    <2> HIDE DEF f, D
    <2>5. Cardinality(Owned(i)) = Cardinality(D)
      BY <2>1, <2>2, <2>4, FS_Surjection
    <2>6. QED
      BY <2>4, <2>5
  <1>5. QED
    BY <1>2, <1>3, <1>4 DEF Sized

LEMMA LiveInodes ==
    ASSUME Types, Directory, itable[1] # NoInode
    PROVE  /\ \A n \in Names : InodeOf(n) \in Inum \ {1}
           /\ {InodeOf(n) : n \in Names} \cup {1} = {Rec(k).inode : k \in Cells} \cup {1}
           /\ {InodeOf(n) : n \in Names} \cup {1} \subseteq Inum
  <1>1. /\ \A k \in Cells : Rec(k).name \in Names /\ InodeOf(Rec(k).name) = Rec(k).inode
        /\ \A n \in Names : \E k \in Cells : Rec(k).name = n
    BY NamesAre
  <1>2. \A k \in Cells : Rec(k).inode \in Inum \ {1}
    BY EntryTypes
  <1>3. QED
    BY <1>1, <1>2, Constants

LEMMA TypesGiveTypeOK == Types /\ Objects => TypeOK
  BY DEF Types, Objects, TypeOK, DiskRec, MemRec

LEMMA GivesNames == IInv => NamesHaveInodes
  <1> SUFFICES ASSUME IInv, NEW n \in Names
               PROVE  /\ InodeOf(n) \in imap \ {1}
                      /\ itable[InodeOf(n)].nlink = 0 =>
                            pc \in {"link directory", "link"} /\ job.name = n
                      /\ \A m \in Names : InodeOf(m) = InodeOf(n) => m = n
    BY DEF NamesHaveInodes
  <1> USE DEF IInv
  <1>1. CASE itable[1] = NoInode
    BY <1>1 DEF Names
  <1>2. CASE itable[1] # NoInode
    <2>1. /\ \A k \in Cells : Rec(k).name \in Names /\ InodeOf(Rec(k).name) = Rec(k).inode
          /\ \A m \in Names : \E k \in Cells : Rec(k).name = m
      BY <1>2, NamesAre
    <2>2. PICK k \in Cells : Rec(k).name = n
      BY <2>1
    <2>3. InodeOf(n) = Rec(k).inode /\ Rec(k).inode \in Inum \ {1}
      BY <2>1, <2>2, EntryTypes
    <2>4. InodeOf(n) \in imap \ {1}
      BY <2>3 DEF Directory, Memory
    <2>5. itable[InodeOf(n)].nlink = 0 => pc \in {"link directory", "link"} /\ job.name = n
      BY <2>2, <2>3 DEF Directory, Linking
    <2>6. ASSUME NEW m \in Names, InodeOf(m) = InodeOf(n) PROVE m = n
      <3>1. PICK l \in Cells : Rec(l).name = m
        BY <2>1
      <3>2. InodeOf(m) = Rec(l).inode
        BY <2>1, <3>1
      <3>3. QED
        BY <2>2, <2>3, <2>6, <3>1, <3>2 DEF Directory
    <2>7. QED
      BY <2>4, <2>5, <2>6
  <1>3. QED
    BY <1>1, <1>2

LEMMA GivesDurable == IInv => ReturnedCallsAreDurable
  <1> SUFFICES ASSUME IInv, NEW i \in Inum, inode[i] # NoInode
               PROVE  i \in imap /\ (pc = "idle" => Cut(inode[i]) = itable[i])
    BY DEF ReturnedCallsAreDurable
  <1> USE DEF IInv
  <1>1. itable[i] # NoInode /\ inode[i] \in MemRec /\ itable[i] \in DiskRec
    BY Slots DEF Memory
  <1>2. i \in imap
    BY <1>1 DEF Memory
  <1>3. ASSUME pc = "idle" PROVE Cut(inode[i]) = itable[i]
    <2>1. /\ inode[i].size = itable[i].size /\ inode[i].nlink = itable[i].nlink
          /\ inode[i].zone = itable[i].zone
      BY <1>3 DEF Memory, Moving
    <2>2. QED
      BY <1>1, <2>1, CutLoaded, SameRecord
  <1>4. QED
    BY <1>2, <1>3

LEMMA GivesOwners == IInv => ZonesHaveOneOwner
  <1> DEFINE live == {InodeOf(n) : n \in Names} \cup {1}
  <1> SUFFICES ASSUME IInv, itable[1] # NoInode
               PROVE  /\ \A i \in live : /\ Owned(i) \subseteq zmap
                                         /\ Cardinality(Owned(i)) = Ceil(itable[i].size)
                      /\ \A i, j \in live : i # j => Owned(i) \cap Owned(j) = {}
    BY DEF ZonesHaveOneOwner
  <1>1. live \subseteq Inum
    BY LiveInodes DEF IInv
  <1>2. \A i \in Inum : /\ Owned(i) \subseteq zmap
                        /\ Cardinality(Owned(i)) = Ceil(itable[i].size)
                        /\ \A j \in Inum : i # j => Owned(i) \cap Owned(j) = {}
    BY OwnedZones DEF IInv
  <1>3. QED
    BY <1>1, <1>2

LEMMA GivesExact == IInv => NothingLeaks
  <1> DEFINE live == {InodeOf(n) : n \in Names} \cup {1}
  <1> SUFFICES ASSUME IInv, ~leaky, pc = "idle"
               PROVE  imap = live /\ zmap = UNION {Owned(i) : i \in live}
    BY DEF NothingLeaks
  <1> USE DEF IInv
  <1>1. /\ itable[1] # NoInode /\ job = NoJob
    BY Constants DEF Phases, Memory, Mounted, Making, Calling, Moving, Linking
  <1>2. job.op = "none"
    BY <1>1 DEF NoJob
  <1>3. live = {Rec(k).inode : k \in Cells} \cup {1} /\ live \subseteq Inum
    BY <1>1, LiveInodes
  <1>4. imap = live
    <2>1. ASSUME NEW i \in imap PROVE i \in live
      BY <1>1, <1>2, <1>3 DEF Exact, Types
    <2>2. ASSUME NEW i \in live PROVE i \in imap
      <3>1. itable[i] # NoInode
        BY <1>1, <1>3 DEF Directory
      <3>2. QED
        BY <1>3, <3>1 DEF Memory
    <2>3. QED
      BY <2>1, <2>2
  <1>5. zmap = UNION {Owned(i) : i \in live}
    <2>1. ASSUME NEW i \in live PROVE Owned(i) \subseteq zmap
      BY <1>3, OwnedZones
    <2>2. ASSUME NEW b \in zmap PROVE \E i \in live : b \in Owned(i)
      <3>1. PICK i \in Inum : \E z \in 0 .. Have(i) - 1 : ZoneOf(i, z) = b
        BY <1>1 DEF Exact
      <3>2. PICK z \in 0 .. Sized(i) - 1 : itable[i].zone[z] = b
        BY <3>1 DEF Have, ZoneOf, Moving
      <3>3. b \in Owned(i)
        BY <3>2 DEF Owned, Sized
      <3>4. Sized(i) # 0 /\ Sized(i) \in Nat
        BY <3>2, Slots
      <3>5. i \in imap
        BY <3>4, Slots DEF Memory
      <3>6. QED
        BY <1>4, <3>3, <3>5
    <2>3. QED
      BY <2>1, <2>2
  <1>6. QED
    BY <1>4, <1>5

-----------------------------------------------------------------------------
(* The first steps: an empty disk                                          *)

\* A disk with nothing on it
LEMMA EmptyDisk ==
    Types /\ ~Moving /\ (\A i \in Inum : itable[i].size = 0)
        => ZonesApart /\ Directory /\ Cells = {}
  <1> SUFFICES ASSUME Types, ~Moving, \A i \in Inum : itable[i].size = 0
               PROVE  ZonesApart /\ Directory /\ Cells = {}
    OBVIOUS
  <1>1. \A i \in Inum : itable[i].size = 0 /\ Sized(i) = 0 /\ Have(i) = 0
    BY CeilBounds DEF Have, Sized
  <1>2. Cells = {}
    BY <1>1, Constants DEF Cells
  <1>3. \A i \in Inum : 0 .. Have(i) - 1 = {}
    BY <1>1
  <1>4. ZonesApart
    BY <1>1, <1>3, Constants DEF ZonesApart, Moving
  <1>5. QED
    BY <1>2, <1>4 DEF Directory

LEMMA InitIInv == Init => IInv
  <1> SUFFICES ASSUME Init PROVE IInv
    OBVIOUS
  <1> USE DEF Init
  <1>1. Types
    <2>1. [c \in 0 .. BS - 1 |-> Zero] \in Block
      BY DEF Block, Cell
    <2>2. data \in [Zone -> Block]
      BY <2>1
    <2>3. /\ itable \in [Inum -> DiskRec \cup {NoInode}]
          /\ inode \in [Inum -> MemRec \cup {NoInode}]
      OBVIOUS
    <2>4. crashes \in 0 .. MaxCrash
      BY FileAssumption
    <2>5. QED
      BY <2>2, <2>3, <2>4, NoJobFields DEF Types, Pcs
  <1>2. \A i \in Inum : itable[i] = NoInode /\ inode[i] = NoInode
    OBVIOUS
  <1>3. ~Moving /\ ~Making /\ ~Mounted /\ ~Calling
    BY DEF Moving, Making, Mounted, Calling, Linking
  <1>4. ZonesApart /\ Directory
    BY <1>1, <1>2, <1>3, Slots, EmptyDisk
  <1>5. Phases
    BY <1>2, <1>3, Constants DEF Phases
  <1>6. Memory /\ Exact
    BY <1>2, Constants DEF Memory, Exact
  <1>7. Creating /\ Transferring /\ Dentries
    BY <1>3, NoJobFields DEF Creating, Transferring, Dentries
  <1>8. QED
    BY <1>1, <1>4, <1>5, <1>6, <1>7 DEF IInv

\* The zones stay apart when every inode keeps those it has or some of them.
LEMMA ZonesKept ==
    ASSUME Types, Types', ZonesApart, pc' # "clear", zmap \subseteq zmap',
           \A i \in Inum : /\ Sized(i)' = Sized(i) /\ Sized(i)' <= Have(i)'
                           /\ Have(i)' <= Have(i),
           \A i \in Inum : \A z \in 0 .. Have(i)' - 1 : ZoneOf(i, z)' = ZoneOf(i, z),
           \A i \in Inum : \A z \in 0 .. Sized(i) - 1 : itable'[i].zone[z] = itable[i].zone[z]
    PROVE  ZonesApart'
  <1>0. (\A i \in Inum : Sized(i) \in Nat /\ Have(i) \in Nat)'
    BY Sizes, PTL
  <1>1. \A i \in Inum : Sized(i) \in Nat /\ Have(i) \in Nat /\ Have(i)' \in Nat
    BY <1>0, Sizes
  <1>2. \A i \in Inum : \A z \in 0 .. Have(i)' - 1 : z \in 0 .. Have(i) - 1
    BY <1>1
  <1>3. \A i \in Inum : Sized(i)' <= Have(i)' /\ Have(i)' <= NR_DIRECT
    BY <1>1, Constants DEF ZonesApart
  <1>4. \A i \in Inum : \A z \in 0 .. Have(i)' - 1 :
            ZoneOf(i, z)' \in zmap' /\ (z < Sized(i)' => ZoneOf(i, z)' = itable'[i].zone[z])
    BY <1>1, <1>2 DEF ZonesApart
  <1>5. \A i, j \in Inum : \A y \in 0 .. Have(i)' - 1, z \in 0 .. Have(j)' - 1 :
            ZoneOf(i, y)' = ZoneOf(j, z)' => i = j /\ y = z
    BY <1>2 DEF ZonesApart
  <1>6. QED
    BY <1>3, <1>4, <1>5 DEF ZonesApart

\* A step that writes nothing to the disk leaves zones and directory as they are.
LEMMA DiskKept ==
    ASSUME IInv, Types', UNCHANGED <<zmap, itable, data>>, pc' # "clear", ~Linking,
           \A i \in Inum : Have(i)' = Have(i) \/ Have(i)' = Sized(i),
           \A i \in Inum : \A z \in 0 .. Have(i)' - 1 : ZoneOf(i, z)' = ZoneOf(i, z)
    PROVE  /\ ZonesApart' /\ Directory' /\ Cells' = Cells
           /\ \A k : Rec(k)' = Rec(k)
  <1> USE DEF IInv
  <1>1. \A i \in Inum : Sized(i)' = Sized(i)
    BY DEF Sized
  <1>2. \A i \in Inum : Sized(i) \in Nat /\ Have(i) \in Nat /\ Sized(i) <= Have(i)
    BY Sizes DEF ZonesApart
  <1>3. \A i \in Inum : /\ Sized(i)' = Sized(i) /\ Sized(i)' <= Have(i)'
                        /\ Have(i)' <= Have(i)
    BY <1>1, <1>2
  <1>4. \A i \in Inum : \A z \in 0 .. Sized(i) - 1 : itable'[i].zone[z] = itable[i].zone[z]
    OBVIOUS
  <1>5. ZonesApart'
    BY <1>3, <1>4, ZonesKept
  <1>6. Cells' = Cells /\ \A k : Rec(k)' = Rec(k)
    BY DEF Cells, Rec, At
  <1>7. Directory'
    BY <1>6 DEF Directory
  <1>8. QED
    BY <1>5, <1>6, <1>7

LEMMA BootKeepsIInv == ASSUME IInv, Boot PROVE IInv'
  <1> USE DEF IInv
  <1>1. Types'
    BY DEF Types, Pcs, Boot, history
  <1>2. ~Moving /\ ~Moving' /\ ~Linking /\ ~Linking' /\ job = NoJob
    BY DEF Phases, Calling, Moving, Linking, Boot
  <1>3. /\ \A i \in Inum : Have(i)' = Have(i)
        /\ \A i \in Inum : \A z : ZoneOf(i, z)' = ZoneOf(i, z)
    BY <1>2 DEF Sized, Have, ZoneOf, Boot
  <1>4. UNCHANGED <<zmap, itable, data>> /\ pc' # "clear"
    BY DEF Boot
  <1>5. /\ ZonesApart' /\ Directory' /\ Cells' = Cells
        /\ \A k : Rec(k)' = Rec(k)
    BY <1>1, <1>2, <1>3, <1>4, DiskKept
  <1>6. Phases'
    BY <1>1, Constants DEF Phases, Mounted, Making, Calling, Moving, Linking, Types, Boot
  <1>7. Memory'
    BY <1>2 DEF Memory, Boot
  <1>8. Creating' /\ Transferring'
    BY <1>2, NoJobFields DEF Creating, Transferring, Boot
  <1>9. Dentries'
    BY <1>5 DEF Dentries, Boot
  <1>10. Exact'
    <2>1. pc \notin {"inode", "clear"} /\ pc' \notin {"inode", "clear"} /\ leaky' = leaky
      BY DEF Boot, history
    <2>2. QED
      BY <1>3, <1>4, <1>5, <2>1 DEF Exact, Boot
  <1>11. QED
    BY <1>1, <1>5, <1>6, <1>7, <1>8, <1>9, <1>10

\* The bitmaps are cleared while there is no inode on the disk.
LEMMA MkfsMapsKeepIInv == ASSUME IInv, MkfsImap \/ MkfsZmap PROVE IInv'
  <1> USE DEF IInv
  <1>1. /\ Making /\ Making' /\ ~Moving /\ ~Moving' /\ ~Mounted /\ ~Mounted'
        /\ ~Calling /\ ~Calling' /\ ~Linking' /\ job = NoJob /\ job' = NoJob
        /\ \A i \in Inum : itable[i] = NoInode
    BY DEF MkfsImap, MkfsZmap, Phases, Making, Mounted, Calling, Moving, Linking
  <1>2. /\ itable' = itable /\ inode' = inode /\ dentry' = dentry /\ zmap' = {}
        /\ magic' /\ imap' \subseteq {1} /\ (pc' \in {"mkfs zmap", "mkfs root"} => 1 \in imap')
    BY <1>1, Constants DEF MkfsImap, MkfsZmap, Phases
  <1>3. Types'
    BY Constants DEF Types, Pcs, MkfsImap, MkfsZmap, history
  <1>4. Phases'
    BY <1>1, <1>2, Constants DEF Phases
  <1>5. Memory'
    <2>1. \A i \in Inum : inode'[i] = NoInode
      BY <1>1, <1>2 DEF Phases
    <2>2. QED
      BY <1>1, <1>2, <2>1 DEF Memory
  <1>6. (\A i \in Inum : itable[i].size = 0)'
    BY <1>1, <1>2, NoInodeIsNone
  <1>7. ZonesApart' /\ Directory' /\ Cells' = {}
    <2>1. (ZonesApart /\ Directory /\ Cells = {})'
      BY <1>1, <1>3, <1>6, EmptyDisk, PTL
    <2>2. QED
      BY <2>1
  <1>8. Creating' /\ Transferring' /\ Dentries'
    BY <1>1, <1>2, NoJobFields DEF Creating, Transferring, Dentries, Phases
  <1>9. Exact'
    BY <1>1, <1>2, Constants DEF Exact
  <1>10. QED
    BY <1>3, <1>4, <1>5, <1>7, <1>8, <1>9

\* The root inode is the first, and empty.
LEMMA MkfsRootKeepsIInv == ASSUME IInv, MkfsRoot PROVE IInv'
  <1> DEFINE root == [size |-> 0, nlink |-> 2, zone |-> NoZones]
  <1> USE DEF IInv
  <1>1. /\ Making /\ ~Making' /\ ~Moving /\ ~Moving' /\ ~Mounted /\ ~Mounted'
        /\ ~Calling /\ ~Calling' /\ ~Linking' /\ job = NoJob /\ job' = NoJob
        /\ \A i \in Inum : itable[i] = NoInode
    BY DEF MkfsRoot, Phases, Making, Mounted, Calling, Moving, Linking
  <1>2. root \in DiskRec /\ root # NoInode /\ root.size = 0
    <2>1. NoZones \in Zones
      BY DEF NoZones, Zones
    <2>2. root \in DiskRec
      BY <2>1 DEF DiskRec
    <2>3. QED
      BY <2>2, NoInodeIsNone
  <1>3. /\ itable' \in [Inum -> DiskRec \cup {NoInode}]
        /\ itable'[1] = root /\ \A i \in Inum \ {1} : itable'[i] = NoInode
    <2>1. itable' = [itable EXCEPT ![1] = root]
      BY DEF MkfsRoot
    <2> HIDE DEF root
    <2>2. QED
      BY <1>1, <1>2, <2>1, Constants DEF Types
  <1> HIDE DEF root
  <1>4. /\ inode' = inode /\ dentry' = dentry /\ zmap' = {} /\ magic'
        /\ imap' = {1} /\ \A i \in Inum : inode'[i] = NoInode
    BY <1>1, Constants DEF MkfsRoot, Phases, Making
  <1>5. Types'
    BY <1>3 DEF Types, Pcs, MkfsRoot, history
  <1>6. Phases'
    BY <1>1, <1>2, <1>3, <1>4, Constants DEF Phases
  <1>7. Memory'
    BY <1>3, <1>4 DEF Memory
  <1>8. (\A i \in Inum : itable[i].size = 0)'
    BY <1>2, <1>3, NoInodeIsNone
  <1>9. ZonesApart' /\ Directory' /\ Cells' = {}
    <2>1. (ZonesApart /\ Directory /\ Cells = {})'
      BY <1>1, <1>5, <1>8, EmptyDisk, PTL
    <2>2. QED
      BY <2>1
  <1>10. Creating' /\ Transferring' /\ Dentries'
    BY <1>1, <1>4, NoJobFields DEF Creating, Transferring, Dentries, Phases
  <1>11. Exact'
    BY <1>2, <1>3, <1>4 DEF Exact
  <1>12. QED
    BY <1>5, <1>6, <1>7, <1>9, <1>10, <1>11

-----------------------------------------------------------------------------
(* Steps that write nothing but bitmaps                                    *)

LEMMA LeastExists ==
    ASSUME NEW S \in SUBSET Nat, S # {}
    PROVE  \E m \in S : \A k \in S : m <= k
  <1> DEFINE T == {0 .. k : k \in S}
             R == StrictSubsetOrdering(Nat)
  <1>1. T \subseteq FiniteSubsetsOf(Nat) /\ T # {}
    <2>1. \A k \in S : IsFiniteSet(0 .. k) /\ 0 .. k \in SUBSET Nat
      BY FS_Interval
    <2>2. QED
      BY <2>1 DEF FiniteSubsetsOf
  <1>2. IsWellFoundedOn(R, FiniteSubsetsOf(Nat))
    BY FS_StrictSubsetOrderingWellFounded
  <1> HIDE DEF T, R
  <1>3. PICK x \in T : \A y \in T : ~(<<y, x>> \in R)
    BY <1>1, <1>2, WFMin
  <1>4. PICK m \in S : x = 0 .. m
    BY DEF T
  <1>5. ASSUME NEW k \in S PROVE m <= k
    <2> SUFFICES ASSUME k < m PROVE FALSE
      OBVIOUS
    <2>1. 0 .. k \in T /\ 0 .. k \subseteq 0 .. m /\ 0 .. k # 0 .. m
      <3>1. m \in 0 .. m /\ m \notin 0 .. k
        OBVIOUS
      <3>2. QED
        BY <3>1 DEF T
    <2>2. 0 .. k \in SUBSET Nat /\ 0 .. m \in SUBSET Nat
      OBVIOUS
    <2>3. <<0 .. k, x>> \in R
      BY <1>4, <2>1, <2>2 DEF R, StrictSubsetOrdering
    <2>4. QED
      BY <1>3, <2>1, <2>3
  <1>6. QED
    BY <1>5

\* _bitmap_alloc returns a bit that was clear.
LEMMA BitIsFree ==
    /\ FreeInum # {} => Least(FreeInum) \in Inum \ imap
    /\ FreeZones # {} => Least(FreeZones) \in Zone \ zmap
  <1>1. \A S \in SUBSET Nat : S # {} => Least(S) \in S
    <2> SUFFICES ASSUME NEW S \in SUBSET Nat, S # {} PROVE Least(S) \in S
      OBVIOUS
    <2>1. \E m \in S : \A k \in S : m <= k
      BY LeastExists
    <2>2. QED
      BY <2>1 DEF Least
  <1>2. FreeInum \in SUBSET Nat /\ FreeZones \in SUBSET Nat
    BY DEF FreeInum, FreeZones, Zone
  <1>3. QED
    BY <1>1, <1>2 DEF FreeInum, FreeZones, Inum

\* A kernel that has stopped does nothing more.
LEMMA HaltKeepsIInv ==
    ASSUME IInv, NEW m, Halt(m)
    PROVE  IInv'
  <1> USE DEF Halt, disk, history
  <1>1. Types' /\ Phases' /\ Memory'
    BY DEF IInv, Types, Phases, Memory, Mounted, Making, Calling, Moving, Linking
  <1>2. ZonesApart'
    BY DEF IInv, ZonesApart, Have, Sized, ZoneOf, Moving
  <1>3. Directory'
    BY DEF IInv, Directory, Cells, Rec, At, Linking
  <1>4. Creating'
    BY DEF IInv, Creating, Cells, Rec, At, Linking, Moving, NewRecord
  <1>5. Transferring'
    BY DEF IInv, Transferring, At, Moving, Done, Need, Sized
  <1>6. Dentries'
    BY DEF IInv, Dentries, Cells, Rec, At
  <1>7. Exact'
    BY DEF IInv, Exact, Cells, Rec, At, Have, Sized, ZoneOf, Moving
  <1>8. QED
    BY <1>1, <1>2, <1>3, <1>4, <1>5, <1>6, <1>7 DEF IInv

LEMMA MountKeepsIInv == ASSUME IInv, Mount PROVE IInv'
  <1> USE DEF IInv
  <1>1. CASE 1 \notin imap
    BY <1>1, HaltKeepsIInv DEF Mount
  <1>2. CASE 1 \in imap /\ itable[1] = NoInode
    BY <1>2, HaltKeepsIInv DEF Mount
  <1>3. CASE 1 \in imap /\ itable[1] # NoInode
    <2> DEFINE m == Loaded(itable[1], 1)
    <2>1. /\ inode' = [inode EXCEPT ![1] = m] /\ pc' = "idle" /\ pc = "mount"
          /\ UNCHANGED <<magic, imap, zmap, itable, data, dentry, job, crashes, leaky, torn>>
      BY <1>3 DEF Mount, disk, history
    <2>2. /\ ~Making /\ ~Making' /\ ~Moving /\ ~Moving' /\ ~Mounted /\ Mounted'
          /\ ~Calling /\ ~Calling' /\ ~Linking /\ ~Linking' /\ job = NoJob
      BY <2>1 DEF Phases, Making, Mounted, Calling, Moving, Linking
    <2>3. /\ m \in MemRec /\ m # NoInode
          /\ m.size = itable[1].size /\ m.nlink = itable[1].nlink /\ m.zone = itable[1].zone
      <3>1. itable[1] \in DiskRec
        BY <1>3, Constants, Slots
      <3>2. QED
        BY <3>1, CutLoaded, NoInodeIsNone
    <2> HIDE DEF m
    <2>4. /\ inode' \in [Inum -> MemRec \cup {NoInode}]
          /\ inode'[1] = m /\ \A i \in Inum \ {1} : inode'[i] = NoInode
      BY <2>1, <2>2, <2>3, Constants DEF Types, Phases
    <2>5. Types'
      BY <2>1, <2>4 DEF Types, Pcs
    <2>6. Phases'
      BY <1>3, <2>1, <2>2, <2>3, <2>4 DEF Phases
    <2>7. Memory'
      BY <1>3, <2>1, <2>2, <2>3, <2>4 DEF Memory
    <2>8. /\ \A i \in Inum : Have(i)' = Have(i)
          /\ \A i \in Inum : \A z : ZoneOf(i, z)' = ZoneOf(i, z)
      BY <2>1, <2>2 DEF Sized, Have, ZoneOf
    <2>9. /\ ZonesApart' /\ Directory' /\ Cells' = Cells
          /\ \A k : Rec(k)' = Rec(k)
      <3>1. UNCHANGED <<zmap, itable, data>> /\ pc' # "clear"
        BY <2>1
      <3>2. QED
        BY <2>2, <2>5, <2>8, <3>1, DiskKept
    <2>10. Creating' /\ Transferring'
      BY <2>1, <2>2, NoJobFields DEF Creating, Transferring
    <2>11. Dentries'
      BY <2>1, <2>2 DEF Dentries, Phases
    <2>12. Exact'
      BY <2>1, <2>8, <2>9 DEF Exact
    <2>13. QED
      BY <2>5, <2>6, <2>7, <2>9, <2>10, <2>11, <2>12
  <1>4. QED
    BY <1>1, <1>2, <1>3

\* While no write runs, a record of the directory in memory is one on the disk.
LEMMA DirectoryInMemory ==
    ASSUME IInv, Mounted, ~Moving
    PROVE  /\ 1 \in imap /\ inode[1] \in MemRec /\ itable[1] # NoInode
           /\ inode[1].size = itable[1].size /\ inode[1].zone = itable[1].zone
           /\ Records(inode[1]) = Cells /\ FreeRecord(inode[1]) = itable[1].size
           /\ \A n \in Name : Found(n) <=> \E k \in Cells : Rec(k).name = n
           /\ \A k \in Cells : Lookup(Rec(k).name) = Rec(k).inode
  <1> USE DEF IInv
  <1>1. /\ 1 \in imap /\ inode[1] \in MemRec /\ itable[1] # NoInode
        /\ inode[1].size = itable[1].size /\ inode[1].zone = itable[1].zone
    BY Constants, Slots DEF Phases, Memory
  <1>2. /\ \A k : At(inode[1], k) = Rec(k)
        /\ Records(inode[1]) = Cells /\ FreeRecord(inode[1]) = inode[1].size
        /\ \A n : Positions(inode[1], n) = {k \in Cells : Rec(k).name = n}
        /\ \A k \in Cells : Least(Positions(inode[1], Rec(k).name)) = k
    <2>1. inode[1].size = itable[1].size /\ inode[1].zone = itable[1].zone
      BY <1>1
    <2>2. QED
      BY <2>1, DirectoryRead
  <1>3. \A n \in Name : Found(n) <=> \E k \in Cells : Rec(k).name = n
    BY <1>2 DEF Found
  <1>4. \A k \in Cells : Lookup(Rec(k).name) = Rec(k).inode
    BY <1>2 DEF Lookup
  <1>5. QED
    BY <1>1, <1>2, <1>3, <1>4

LEMMA CreateKeepsIInv == ASSUME IInv, NEW n \in Name, Create(n) PROVE IInv'
  <1> USE DEF IInv
  <1>1. CASE FreeInum = {}
    BY <1>1, HaltKeepsIInv DEF Create
  <1>2. CASE FreeInum # {}
    <2> DEFINE l == Least(FreeInum)
    <2>1. /\ pc = "idle" /\ pc' = "inode" /\ ~Found(n) /\ imap' = imap \cup {l}
          /\ job' = [NoJob EXCEPT !.op = "create", !.name = n, !.inum = l]
          /\ UNCHANGED <<magic, zmap, itable, data, inode, dentry, crashes, leaky, torn>>
      BY <1>2 DEF Create, history
    <2>2. /\ ~Making /\ ~Making' /\ ~Moving /\ ~Moving' /\ Mounted /\ Mounted'
          /\ ~Calling /\ Calling' /\ ~Linking /\ ~Linking' /\ job = NoJob
      BY <2>1 DEF Phases, Making, Mounted, Calling, Moving, Linking
    <2>3. l \in Inum \ imap
      BY <1>2, BitIsFree
    <2> HIDE DEF l
    <2>4. /\ job' \in Job /\ job'.op = "create" /\ job'.name = n /\ job'.inum = l
          /\ job'.target = 1
      <3>1. l \in Inum /\ "create" \in {"create", "write"}
        BY <2>3
      <3>2. job' = [NoJob EXCEPT !.op = "create", !.name = n, !.inum = l]
        BY <2>1
      <3>3. QED
        BY <3>1, <3>2, JobStarts
    <2>5. Types'
      BY <2>1, <2>3, <2>4 DEF Types, Pcs
    <2>6. /\ 1 \in imap /\ itable[1] # NoInode
          /\ Found(n) <=> \E k \in Cells : Rec(k).name = n
      BY <2>2, DirectoryInMemory
    <2>7. l # 1 /\ itable[l] = NoInode /\ inode[l] = NoInode
      BY <2>3, <2>6 DEF Memory
    <2>8. /\ \A i \in Inum : Have(i)' = Have(i)
          /\ \A i \in Inum : \A z : ZoneOf(i, z)' = ZoneOf(i, z)
      BY <2>1, <2>2 DEF Sized, Have, ZoneOf
    <2>9. /\ ZonesApart' /\ Directory' /\ Cells' = Cells
          /\ \A k : Rec(k)' = Rec(k)
      <3>1. UNCHANGED <<zmap, itable, data>> /\ pc' # "clear"
        BY <2>1
      <3>2. QED
        BY <2>2, <2>5, <2>8, <3>1, DiskKept
    <2>10. Phases'
      BY <2>1, <2>2, <2>4, <2>6 DEF Phases
    <2>11. Memory'
      BY <2>1, <2>2 DEF Memory
    <2>12. dentry[n] = 0
      BY <2>1, <2>6 DEF Dentries
    <2>13. \A k \in Cells : Rec(k).name # n /\ Rec(k).inode # l
      BY <2>1, <2>6, <2>7 DEF Directory
    <2>14. Creating'
      BY <2>1, <2>2, <2>3, <2>4, <2>7, <2>9, <2>12, <2>13 DEF Creating
    <2>15. Transferring'
      BY <2>2 DEF Transferring
    <2>16. Dentries'
      BY <2>1, <2>9 DEF Dentries
    <2>17. Exact'
      <3>1. /\ \A i \in imap' : ~leaky => itable[i] # NoInode \/ i = l
            /\ \A b \in zmap : ~leaky =>
                  \E i \in Inum : \E z \in 0 .. Have(i) - 1 : ZoneOf(i, z) = b
            /\ \A i \in Inum \ {1} : ~leaky /\ itable[i] # NoInode => \E k \in Cells : Rec(k).inode = i
        BY <2>1, <2>2, <2>6, NoJobFields DEF Exact
      <3>2. QED
        BY <2>1, <2>4, <2>8, <2>9, <3>1 DEF Exact
    <2>18. QED
      BY <2>5, <2>9, <2>10, <2>11, <2>14, <2>15, <2>16, <2>17
  <1>3. QED
    BY <1>1, <1>2

\* A write touches at most two blocks.
SmallWrites == MaxCount <= BS + 1

LEMMA Buffers ==
    \A buf \in Buffer : /\ buf \in Seq(Value \cup Entry) /\ Len(buf) \in Nat
                        /\ Len(buf) >= 1 /\ Len(buf) <= MaxCount
  <1> SUFFICES ASSUME NEW k \in 1 .. MaxCount, NEW buf \in [1 .. k -> Value]
               PROVE  /\ buf \in Seq(Value \cup Entry) /\ Len(buf) \in Nat
                      /\ Len(buf) >= 1 /\ Len(buf) <= MaxCount
    BY DEF Buffer
  <1>1. k \in Nat /\ k >= 1 /\ k <= MaxCount
    BY FileAssumption
  <1>2. buf \in Seq(Value \cup Entry) /\ Len(buf) = k
    BY <1>1
  <1>3. QED
    BY <1>1, <1>2

LEMMA WriteKeepsIInv ==
    ASSUME IInv, SmallWrites, NEW n \in Name, NEW p \in 0 .. NR_DIRECT * BS,
           NEW buf \in Buffer, Write(n, p, buf)
    PROVE  IInv'
  <1>0. PICK t : t = dentry[n]
    OBVIOUS
  <1> DEFINE j == [NoJob EXCEPT !.op = "write", !.name = n, !.inum = t]
  <1> USE DEF IInv
  <1>1. /\ pc = "idle" /\ t # 0 /\ p <= inode[t].size
        /\ Transfer(j, t, inode[t].size, p, buf)
        /\ UNCHANGED <<magic, imap, zmap, itable, data, inode, dentry, crashes, leaky, torn>>
    BY <1>0 DEF Write, disk, history
  <1>2. t \in Inum /\ inode[t] # NoInode /\ itable[t] # NoInode
    BY <1>0, <1>1 DEF Types, Dentries, Memory
  <1>3. /\ ~Making /\ ~Moving /\ Mounted /\ ~Calling /\ ~Linking /\ job = NoJob
    BY <1>1 DEF Phases, Making, Mounted, Calling, Moving, Linking
  <1>4. /\ inode[t].size = itable[t].size /\ inode[t].zone = itable[t].zone
        /\ itable[t].size \in Nat /\ p \in Nat
    BY <1>1, <1>2, <1>3, Slots DEF Memory
  <1>5. j \in Job /\ j.op = "write" /\ j.name = n /\ j.inum = t
    <2>1. NoJob \in Job
      BY NoJobFields
    <2>2. QED
      BY <1>2, <2>1 DEF Job
  <1>6. /\ buf \in Seq(Value \cup Entry) /\ Len(buf) \in Nat /\ Len(buf) >= 1
        /\ Len(buf) <= BS + 1
    BY Buffers, FileAssumption DEF SmallWrites
  <1> HIDE DEF j
  <1>7. /\ job' \in Job /\ job'.target = t /\ job'.pos = p /\ job'.buf = buf
        /\ job'.left = Len(buf) /\ job'.zone = p \div BS /\ job'.cur = Ceil(inode[t].size)
        /\ job'.op = j.op /\ job'.name = j.name /\ job'.inum = j.inum /\ pc' = "write"
    <2>1. inode[t].size \in Nat /\ p \in Nat /\ Transfer(j, t, inode[t].size, p, buf)
      BY <1>1, <1>4
    <2>2. QED
      BY <1>2, <1>5, <1>6, <2>1, TransferStarts
  <1>8. ~Making' /\ Mounted' /\ Moving' /\ Calling' /\ ~Linking'
    BY <1>7 DEF Making, Mounted, Calling, Moving, Linking
  <1>9. Types'
    BY <1>1, <1>7 DEF Types, Pcs
  <1>10. Phases'
    BY <1>1, <1>3, <1>5, <1>7, <1>8 DEF Phases
  <1>11. Memory'
    BY <1>1, <1>3 DEF Memory
  <1>12. /\ \A i \in Inum : Have(i)' = Have(i)
         /\ \A i \in Inum : \A z : ZoneOf(i, z)' = ZoneOf(i, z)
    BY <1>1, <1>3, <1>4, <1>7 DEF Sized, Have, ZoneOf
  <1>13. /\ ZonesApart' /\ Directory' /\ Cells' = Cells
         /\ \A k : Rec(k)' = Rec(k)
    <2>1. UNCHANGED <<zmap, itable, data>> /\ pc' # "clear"
      BY <1>1, <1>7
    <2>2. QED
      BY <1>3, <1>9, <1>12, <2>1, DiskKept
  <1>14. Creating'
    BY <1>5, <1>7 DEF Creating
  <1>15. Transferring'
    <2>1. Done' = 0
      BY <1>6, <1>7 DEF Done
    <2>2. inode'[t] # NoInode /\ itable'[t].size = itable[t].size
      BY <1>1, <1>2
    <2>3. ~(job'.cur > Sized(t)')
      <3>1. Sized(t)' = job'.cur /\ job'.cur \in Nat
        BY <1>1, <1>4, <1>7, CeilBounds DEF Sized
      <3>2. QED
        BY <3>1
    <2>4. job'.zone = (job'.pos + Done') \div BS
      BY <1>4, <1>7, <2>1
    <2>5. job'.target = dentry'[n] /\ job'.name \in Name
      BY <1>0, <1>1, <1>5, <1>7
    <2>6. 0 .. Done' - 1 = {}
      BY <2>1
    <2>7. job'.pos <= itable'[job'.target].size
      BY <1>1, <1>4, <1>7
    <2>8. /\ Len(job'.buf) >= 1 /\ Len(job'.buf) <= BS + 1 /\ job'.left <= Len(job'.buf)
          /\ job'.buf \in Buffer
      BY <1>6, <1>7
    <2>9. QED
      BY <1>5, <1>7, <2>1, <2>2, <2>3, <2>4, <2>5, <2>6, <2>7, <2>8 DEF Transferring
  <1>16. Dentries'
    BY <1>1, <1>13 DEF Dentries
  <1>17. Exact'
    BY <1>1, <1>3, <1>5, <1>7, <1>12, <1>13, NoJobFields DEF Exact
  <1>18. QED
    BY <1>9, <1>10, <1>11, <1>13, <1>14, <1>15, <1>16, <1>17

LEMMA CountChanges ==
    \A m \in MemRec, c \in Nat :
        /\ [m EXCEPT !.refcnt = c] \in MemRec /\ [m EXCEPT !.refcnt = c].refcnt = c
        /\ [m EXCEPT !.refcnt = c].size = m.size /\ [m EXCEPT !.refcnt = c].nlink = m.nlink
        /\ [m EXCEPT !.refcnt = c].zone = m.zone
  BY DEF MemRec

\* Between calls, an inode is loaded, referenced or put and a dentry changes.
LEMMA ReferencesKeepIInv ==
    ASSUME IInv, NEW i \in Inum \ {1}, NEW v \in MemRec \cup {NoInode}, NEW n \in Name,
           pc = "idle", UNCHANGED <<magic, imap, zmap, itable, data, pc, job, history>>,
           itable[i] # NoInode,
           v # NoInode => /\ v.size = itable[i].size /\ v.nlink = itable[i].nlink
                          /\ v.zone = itable[i].zone,
           inode' = [inode EXCEPT ![i] = v],
           dentry' \in [Name -> Inum \cup {0}],
           \A m \in Name \ {n} : dentry'[m] = dentry[m],
           \A m \in Name : dentry'[m] # 0 /\ dentry'[m] = i => v # NoInode /\ v.refcnt >= 2,
           dentry'[n] # 0 => /\ dentry'[n] = i
                             /\ \E k \in Cells : Rec(k) = [name |-> n, inode |-> i]
    PROVE  IInv'
  <1> USE DEF IInv
  <1>1. /\ ~Making /\ ~Making' /\ ~Moving /\ ~Moving' /\ Mounted /\ Mounted'
        /\ ~Calling /\ ~Calling' /\ ~Linking /\ ~Linking' /\ job = NoJob /\ job' = NoJob
    BY DEF Phases, Making, Mounted, Calling, Moving, Linking
  <1>2. /\ inode' \in [Inum -> MemRec \cup {NoInode}] /\ inode'[i] = v
        /\ \A h \in Inum \ {i} : inode'[h] = inode[h]
    BY DEF Types
  <1>3. Types'
    BY <1>2 DEF Types, history
  <1>4. Phases'
    BY <1>1, <1>2, Constants DEF Phases
  <1>5. Memory'
    BY <1>1, <1>2 DEF Memory
  <1>6. /\ \A h \in Inum : Have(h)' = Have(h)
        /\ \A h \in Inum : \A z : ZoneOf(h, z)' = ZoneOf(h, z)
    BY <1>1 DEF Sized, Have, ZoneOf
  <1>7. /\ ZonesApart' /\ Directory' /\ Cells' = Cells
        /\ \A k : Rec(k)' = Rec(k)
    <2>1. UNCHANGED <<zmap, itable, data>> /\ pc' # "clear"
      OBVIOUS
    <2>2. QED
      BY <1>1, <1>3, <1>6, <2>1, DiskKept
  <1>8. Creating' /\ Transferring'
    BY <1>1, NoJobFields DEF Creating, Transferring
  <1>9. Dentries'
    <2> SUFFICES ASSUME NEW m \in Name, dentry'[m] # 0
                 PROVE  /\ inode'[dentry'[m]] # NoInode /\ inode'[dentry'[m]].refcnt >= 2
                        /\ \E k \in Cells : Rec(k) = [name |-> m, inode |-> dentry'[m]]
      BY <1>7 DEF Dentries
    <2>1. CASE m = n
      BY <1>2, <2>1
    <2>2. CASE m # n
      <3>1. /\ dentry'[m] = dentry[m] /\ inode[dentry[m]] # NoInode
            /\ inode[dentry[m]].refcnt >= 2 /\ dentry[m] \in Inum
            /\ \E k \in Cells : Rec(k) = [name |-> m, inode |-> dentry[m]]
        BY <2>2 DEF Dentries, Types
      <3>2. CASE dentry[m] = i
        BY <1>2, <3>1, <3>2
      <3>3. CASE dentry[m] # i
        BY <1>2, <3>1, <3>3
      <3>4. QED
        BY <3>2, <3>3
    <2>3. QED
      BY <2>1, <2>2
  <1>10. Exact'
    BY <1>1, <1>6, <1>7, NoJobFields DEF Exact, history
  <1>11. QED
    BY <1>3, <1>4, <1>5, <1>7, <1>8, <1>9, <1>10

LEMMA OpenKeepsIInv == ASSUME IInv, NEW n \in Name, Open(n) PROVE IInv'
  <1>1. PICK i : i = Lookup(n)
    OBVIOUS
  <1>2. Mounted /\ ~Moving /\ ~Linking /\ pc = "idle" /\ dentry[n] = 0 /\ Found(n)
    BY DEF Open, Mounted, Making, Moving, Linking
  <1>3. PICK k \in Cells : Rec(k).name = n /\ Rec(k).inode = i
    BY <1>1, <1>2, DirectoryInMemory
  <1>4. /\ i \in Inum \ {1} /\ itable[i] # NoInode /\ itable[i] \in DiskRec
        /\ Rec(k) = [name |-> n, inode |-> i]
    <2>1. i \in Inum \ {1} /\ Rec(k) = [name |-> n, inode |-> i]
      BY <1>3, EntryTypes DEF IInv
    <2>2. QED
      BY <1>3, <2>1, Slots DEF IInv, Directory
  <1>5. \A m \in Name : dentry[m] # 0 /\ dentry[m] = i => inode[i] # NoInode /\ inode[i].refcnt >= 2
    BY DEF IInv, Dentries
  <1>6. dentry \in [Name -> Inum \cup {0}]
    BY DEF IInv, Types
  <1>7. CASE inode[i] # NoInode
    <2> DEFINE v == [inode[i] EXCEPT !.refcnt = @ + 2]
    <2>1. inode[i] \in MemRec
      BY <1>4, <1>7, Slots DEF IInv
    <2>2. inode[i].refcnt \in Nat /\ inode[i].refcnt + 2 \in Nat
      BY <2>1, FieldTypes
    <2>3. /\ v \in MemRec /\ v.size = inode[i].size /\ v.nlink = inode[i].nlink
          /\ v.zone = inode[i].zone /\ v.refcnt = inode[i].refcnt + 2
      BY <2>1, <2>2, CountChanges
    <2>4. /\ UNCHANGED <<magic, imap, zmap, itable, data, pc, job, history>>
          /\ dentry' = [dentry EXCEPT ![n] = i] /\ inode' = [inode EXCEPT ![i] = v]
      BY <1>1, <1>7 DEF Open, disk
    <2> HIDE DEF v
    <2>5. /\ v.size = itable[i].size /\ v.nlink = itable[i].nlink /\ v.zone = itable[i].zone
          /\ v.refcnt >= 2 /\ v # NoInode
      BY <1>2, <1>4, <1>7, <2>2, <2>3, NoInodeIsNone DEF IInv, Memory
    <2>6. /\ dentry' \in [Name -> Inum \cup {0}]
          /\ \A m \in Name \ {n} : dentry'[m] = dentry[m]
          /\ dentry'[n] = i
      BY <1>4, <1>6, <2>4
    <2>7. /\ \A m \in Name : dentry'[m] # 0 /\ dentry'[m] = i => v # NoInode /\ v.refcnt >= 2
          /\ dentry'[n] # 0 => /\ dentry'[n] = i
                               /\ \E h \in Cells : Rec(h) = [name |-> n, inode |-> i]
          /\ v \in MemRec \cup {NoInode}
      BY <1>4, <2>3, <2>5, <2>6
    <2>8. QED
      BY <1>2, <1>4, <2>4, <2>5, <2>6, <2>7, ReferencesKeepIInv
  <1>8. CASE inode[i] = NoInode /\ i \notin imap
    BY <1>1, <1>8, HaltKeepsIInv DEF Open
  <1>9. CASE inode[i] = NoInode /\ i \in imap
    <2>1. inode' = [inode EXCEPT ![i] = Loaded(itable[i], 2)]
      BY <1>1, <1>9 DEF Open
    <2>2. /\ UNCHANGED <<magic, imap, zmap, itable, data, pc, job, history>>
          /\ dentry' = [dentry EXCEPT ![n] = i]
      BY <1>1, <1>9 DEF Open, disk
    <2> DEFINE v == Loaded(itable[i], 2)
    <2>4. /\ v \in MemRec /\ v.size = itable[i].size /\ v.nlink = itable[i].nlink
          /\ v.zone = itable[i].zone /\ v.refcnt = 2
      BY <1>4, CutLoaded
    <2>5. inode' = [inode EXCEPT ![i] = v]
      BY <2>1
    <2> HIDE DEF v
    <2>6. v # NoInode /\ v.refcnt >= 2
      BY <2>4, NoInodeIsNone
    <2>7. /\ dentry' \in [Name -> Inum \cup {0}]
          /\ \A m \in Name \ {n} : dentry'[m] = dentry[m]
          /\ dentry'[n] = i
      BY <1>4, <1>6, <2>2
    <2>8. /\ \A m \in Name : dentry'[m] # 0 /\ dentry'[m] = i => v # NoInode /\ v.refcnt >= 2
          /\ dentry'[n] # 0 => /\ dentry'[n] = i
                               /\ \E h \in Cells : Rec(h) = [name |-> n, inode |-> i]
          /\ v \in MemRec \cup {NoInode}
      BY <1>4, <2>4, <2>6, <2>7
    <2>9. QED
      BY <1>2, <1>4, <2>2, <2>4, <2>5, <2>7, <2>8, ReferencesKeepIInv
  <1>10. QED
    BY <1>7, <1>8, <1>9

LEMMA CloseKeepsIInv ==
    ASSUME IInv, NEW n \in Name, Close(n)
    PROVE  IInv' /\ UNCHANGED <<itable, data, pc, job, halted>>
  <1>1. PICK i : i = dentry[n]
    OBVIOUS
  <1> DEFINE m == [inode[i] EXCEPT !.refcnt = @ - 2]
  <1>2. /\ Mounted /\ ~Moving /\ ~Linking /\ pc = "idle" /\ i # 0
        /\ dentry' = [dentry EXCEPT ![n] = 0] /\ UNCHANGED history
    BY <1>1 DEF Close, Mounted, Making, Moving, Linking
  <1>3. /\ i \in Inum /\ inode[i] # NoInode /\ inode[i].refcnt >= 2
        /\ \E k \in Cells : Rec(k) = [name |-> n, inode |-> i]
        /\ itable[i] # NoInode
    BY <1>1, <1>2 DEF IInv, Dentries, Types, Memory
  <1>4. PICK k \in Cells : Rec(k).name = n /\ Rec(k).inode = i
    BY <1>3
  <1>5. i # 1 /\ itable[i].nlink # 0
    BY <1>2, <1>4 DEF IInv, Directory
  <1>6. inode[i] \in MemRec /\ itable[i] \in DiskRec
    BY <1>3, Slots DEF IInv
  <1>7. /\ inode[i].size = itable[i].size /\ inode[i].nlink = itable[i].nlink
        /\ inode[i].zone = itable[i].zone
    BY <1>2, <1>3 DEF IInv, Memory
  <1>8. /\ m \in MemRec /\ m.size = itable[i].size /\ m.nlink = itable[i].nlink
        /\ m.zone = itable[i].zone /\ m # NoInode
    <2>1. inode[i].refcnt - 2 \in Nat
      BY <1>3, <1>6, FieldTypes
    <2>2. /\ m \in MemRec /\ m.size = inode[i].size /\ m.nlink = inode[i].nlink
          /\ m.zone = inode[i].zone
      BY <1>6, <2>1, CountChanges
    <2> HIDE DEF m
    <2>3. QED
      BY <1>7, <2>2, NoInodeIsNone
  <1>9. Cut(m) = itable[i]
    <2> HIDE DEF m
    <2>1. QED
      BY <1>6, <1>8, CutLoaded, SameRecord
  <1>10. dentry' \in [Name -> Inum \cup {0}] /\ dentry'[n] = 0
         /\ \A o \in Name \ {n} : dentry'[o] = dentry[o]
    BY <1>2 DEF IInv, Types
  <1>11. \A o \in Name : dentry'[o] # 0 => dentry'[o] # i
    <2> SUFFICES ASSUME NEW o \in Name, o # n, dentry[o] = i PROVE FALSE
      BY <1>10
    <2>1. PICK h \in Cells : Rec(h) = [name |-> o, inode |-> i]
      BY <1>2 DEF IInv, Dentries
    <2>2. h = k
      BY <1>4, <2>1 DEF IInv, Directory
    <2>3. QED
      BY <1>4, <2>1, <2>2
  <1>12. /\ UNCHANGED <<magic, imap, zmap, itable, data, pc, job, halted, history>>
         /\ \E v \in {m, NoInode} : inode' = [inode EXCEPT ![i] = v]
    <2>1. CASE /\ m.refcnt > 0 /\ inode' = [inode EXCEPT ![i] = m]
               /\ UNCHANGED <<disk, pc, job, halted>>
      BY <1>2, <2>1 DEF disk
    <2>2. CASE /\ itable' = [itable EXCEPT ![i] = Cut(m)]
               /\ inode' = [inode EXCEPT ![i] = NoInode]
               /\ UNCHANGED <<magic, imap, zmap, data, pc, job, halted>>
      <3>1. itable \in [Inum -> DiskRec \cup {NoInode}]
        BY DEF IInv, Types
      <3>2. itable' = [itable EXCEPT ![i] = itable[i]]
        BY <1>9, <2>2
      <3>3. itable' = itable
        BY <1>3, <3>1, <3>2
      <3>4. QED
        BY <1>2, <2>2, <3>3
    <2> HIDE DEF m
    <2>3. m.nlink > 0 /\ ~(m.refcnt < 0) /\ m.nlink # 0
      BY <1>5, <1>8, FieldTypes
    <2>4. PutInode(i, m)
      BY <1>1 DEF Close, m
    <2>5. \/ /\ m.refcnt > 0 /\ inode' = [inode EXCEPT ![i] = m]
             /\ UNCHANGED <<disk, pc, job, halted>>
          \/ /\ itable' = [itable EXCEPT ![i] = Cut(m)]
             /\ inode' = [inode EXCEPT ![i] = NoInode]
             /\ UNCHANGED <<magic, imap, zmap, data, pc, job, halted>>
      BY <2>3, <2>4, Zenon DEF PutInode
    <2>6. QED
      BY <2>1, <2>2, <2>5
  <1>13. PICK v \in {m, NoInode} : inode' = [inode EXCEPT ![i] = v]
    BY <1>12
  <1> HIDE DEF m
  <1>14. /\ v # NoInode => /\ v.size = itable[i].size /\ v.nlink = itable[i].nlink
                           /\ v.zone = itable[i].zone
         /\ v \in MemRec \cup {NoInode} /\ i \in Inum \ {1}
    BY <1>3, <1>5, <1>8, <1>13
  <1>15. /\ \A o \in Name : dentry'[o] # 0 /\ dentry'[o] = i => v # NoInode /\ v.refcnt >= 2
         /\ dentry'[n] # 0 => /\ dentry'[n] = i
                              /\ \E h \in Cells : Rec(h) = [name |-> n, inode |-> i]
    BY <1>10, <1>11
  <1>16. QED
    BY <1>2, <1>3, <1>10, <1>12, <1>13, <1>14, <1>15, ReferencesKeepIInv

\* What is lost with the power was not needed, unless a name was being made.
LEMMA CrashKeepsIInv == ASSUME IInv, Crash, ~torn' PROVE IInv'
  <1> USE DEF IInv
  <1>1. /\ pc # "off" /\ ~Making /\ ~Linking /\ ~torn
    BY DEF Crash, Tearing, Making, Linking
  <1>2. /\ pc' = "off" /\ job' = NoJob /\ UNCHANGED <<magic, imap, zmap, itable, data>>
        /\ \A i \in Inum : inode'[i] = NoInode
        /\ \A n \in Name : dentry'[n] = 0
        /\ inode' = [i \in Inum |-> NoInode] /\ dentry' = [n \in Name |-> 0]
    BY DEF Crash, disk
  <1>3. /\ ~Making' /\ ~Moving' /\ ~Mounted' /\ ~Calling' /\ ~Linking'
    BY <1>2 DEF Making, Mounted, Calling, Moving, Linking
  <1>4. Types'
    <2>1. inode' \in [Inum -> MemRec \cup {NoInode}] /\ dentry' \in [Name -> Inum \cup {0}]
      BY <1>2
    <2>2. crashes' \in 0 .. MaxCrash /\ leaky' \in BOOLEAN /\ torn' \in BOOLEAN
      BY FileAssumption DEF Crash, Types
    <2>3. QED
      BY <1>2, <2>1, <2>2, NoJobFields DEF Types, Pcs
  <1>5. itable[1] # NoInode /\ magic
    BY <1>1 DEF Phases
  <1>6. Phases'
    BY <1>2, <1>3, <1>5 DEF Phases
  <1>7. Memory'
    BY <1>2 DEF Memory
  <1>8. \A i \in Inum : Have(i)' = Sized(i)
    BY <1>2, <1>3 DEF Have, Sized
  <1>9. \A i \in Inum : \A z \in 0 .. Have(i)' - 1 : ZoneOf(i, z)' = ZoneOf(i, z)
    <2> SUFFICES ASSUME NEW i \in Inum, NEW z \in 0 .. Sized(i) - 1
                 PROVE  ZoneOf(i, z)' = ZoneOf(i, z)
      BY <1>8
    <2>1. ZoneOf(i, z) = itable[i].zone[z]
      BY DiskZones
    <2>2. QED
      BY <1>2, <1>3, <2>1 DEF ZoneOf
  <1>10. /\ ZonesApart' /\ Directory' /\ Cells' = Cells
         /\ \A k : Rec(k)' = Rec(k)
    <2>1. UNCHANGED <<zmap, itable, data>> /\ pc' # "clear"
      BY <1>2
    <2>2. \A i \in Inum : Have(i)' = Have(i) \/ Have(i)' = Sized(i)
      BY <1>8, <1>2 DEF Sized
    <2>3. QED
      BY <1>1, <1>4, <1>9, <2>1, <2>2, DiskKept
  <1>11. Creating' /\ Transferring' /\ Dentries'
    BY <1>2, <1>3, NoJobFields DEF Creating, Transferring, Dentries
  <1>12. Exact'
    <2> SUFFICES ASSUME ~leaky' PROVE Exact'
      BY DEF Exact
    <2>1. ~leaky /\ pc \in {"mount", "idle"}
      BY DEF Crash
    <2>2. job = NoJob /\ ~Moving
      BY <2>1 DEF Phases, Calling, Moving, Linking
    <2>3. /\ \A i \in Inum : Have(i)' = Have(i)
          /\ \A i \in Inum : \A z : ZoneOf(i, z)' = ZoneOf(i, z)
      BY <1>2, <1>3, <2>2 DEF Have, ZoneOf, Sized
    <2>4. QED
      BY <1>2, <1>5, <1>10, <2>1, <2>2, <2>3, NoJobFields DEF Exact
  <1>13. QED
    BY <1>4, <1>6, <1>7, <1>10, <1>11, <1>12

-----------------------------------------------------------------------------
(* Steps that write inodes                                                 *)

LEMMA InodeWritten ==
    ASSUME Types, NEW i \in Inum, NEW v \in MemRec, WriteInode(i, v)
    PROVE  /\ inode' \in [Inum -> MemRec \cup {NoInode}]
           /\ itable' \in [Inum -> DiskRec \cup {NoInode}]
           /\ inode'[i] = v /\ v # NoInode
           /\ itable'[i] # NoInode /\ itable'[i].size = v.size
           /\ itable'[i].nlink = v.nlink /\ itable'[i].zone = v.zone
           /\ \A j \in Inum \ {i} : inode'[j] = inode[j] /\ itable'[j] = itable[j]
  <1>1. /\ Cut(v) \in DiskRec /\ Cut(v).size = v.size /\ Cut(v).nlink = v.nlink
        /\ Cut(v).zone = v.zone
    BY CutLoaded
  <1>2. v # NoInode /\ Cut(v) # NoInode
    BY <1>1, NoInodeIsNone
  <1>3. inode' = [inode EXCEPT ![i] = v] /\ itable' = [itable EXCEPT ![i] = Cut(v)]
    BY DEF WriteInode
  <1>4. inode'[i] = v /\ itable'[i] = Cut(v)
        /\ \A j \in Inum \ {i} : inode'[j] = inode[j] /\ itable'[j] = itable[j]
    BY <1>3 DEF Types
  <1>5. /\ inode' \in [Inum -> MemRec \cup {NoInode}]
        /\ itable' \in [Inum -> DiskRec \cup {NoInode}]
    BY <1>1, <1>3 DEF Types
  <1>6. QED
    BY <1>1, <1>2, <1>4, <1>5

\* Records that stay, of inodes that keep their links, are a directory.
LEMMA DirectoryKept ==
    ASSUME Directory, Cells' = Cells, \A k \in Cells : Rec(k)' = Rec(k),
           \A k \in Cells : /\ itable'[Rec(k).inode] # NoInode
                            /\ itable'[Rec(k).inode].nlink = itable[Rec(k).inode].nlink,
           Linking => Linking' /\ job' = job
    PROVE  Directory'
  BY DEF Directory

\* A cell of the directory is where it was if the root inode and its blocks are.
LEMMA RecordKept ==
    ASSUME Types, ZonesApart, NEW k \in Cells,
           \A z \in 0 .. Sized(1) - 1 : itable'[1].zone[z] = itable[1].zone[z],
           \A z \in 0 .. Sized(1) - 1 : \A c \in 0 .. BS - 1 :
               z = k \div BS /\ c = k % BS =>
                   data'[itable[1].zone[z]][c] = data[itable[1].zone[z]][c]
    PROVE  Rec(k)' = Rec(k)
  <1>1. k \div BS \in 0 .. Sized(1) - 1 /\ k % BS \in 0 .. BS - 1
    BY CellInside, Constants DEF Cells
  <1>2. itable'[1].zone[k \div BS] = itable[1].zone[k \div BS]
    BY <1>1
  <1>3. data'[itable[1].zone[k \div BS]][k % BS] = data[itable[1].zone[k \div BS]][k % BS]
    BY <1>1
  <1>4. QED
    BY <1>2, <1>3 DEF Rec, At

LEMMA CreateInodeKeepsIInv == ASSUME IInv, CreateInode PROVE IInv'
  <1> USE DEF IInv
  <1>1. PICK i, n, r : i = job.inum /\ n = job.name /\ r = [name |-> n, inode |-> i]
    OBVIOUS
  <1> DEFINE e == [size |-> 0, nlink |-> 0, zone |-> NoZones, refcnt |-> 1]
  <1>2. /\ pc = "inode" /\ WriteInode(i, e)
        /\ Transfer(job, 1, inode[1].size, FreeRecord(inode[1]), << r >>)
        /\ UNCHANGED <<magic, imap, zmap, data, dentry, crashes, leaky, torn>>
    BY <1>1 DEF CreateInode, history
  <1>3. /\ ~Making /\ ~Moving /\ Mounted /\ Calling /\ ~Linking /\ job.op = "create"
    BY <1>2 DEF Phases, Making, Mounted, Calling, Moving, Linking
  <1>4. /\ n \in Name /\ i \in Inum \ {1} /\ i \in imap /\ inode[i] = NoInode
        /\ itable[i] = NoInode /\ dentry[n] = 0
        /\ \A k \in Cells : Rec(k).name # n /\ Rec(k).inode # i
    BY <1>1, <1>2, <1>3 DEF Creating, Types, Linking
  <1>5. e \in MemRec /\ e.size = 0 /\ e.refcnt = 1
    BY DEF MemRec, NoZones, Zones
  <1> HIDE DEF e
  <1>6. /\ inode' \in [Inum -> MemRec \cup {NoInode}]
        /\ itable' \in [Inum -> DiskRec \cup {NoInode}]
        /\ inode'[i] = e /\ e # NoInode
        /\ itable'[i] # NoInode /\ itable'[i].size = e.size
        /\ itable'[i].nlink = e.nlink /\ itable'[i].zone = e.zone
        /\ \A j \in Inum \ {i} : inode'[j] = inode[j] /\ itable'[j] = itable[j]
    BY <1>2, <1>4, <1>5, InodeWritten
  <1>7. /\ itable[1] # NoInode /\ inode[1].size = itable[1].size
        /\ inode[1].zone = itable[1].zone /\ FreeRecord(inode[1]) = itable[1].size
        /\ itable[1].size \in Nat /\ inode[1] # NoInode
    <2>1. itable[1].size \in Nat
      BY Constants, Slots
    <2>2. QED
      BY <1>3, <2>1, DirectoryInMemory DEF Phases
  <1>8. r \in Entry /\ << r >> \in Seq(Value \cup Entry) /\ Len(<< r >>) = 1 /\ << r >>[1] = r
    <2>1. r \in Entry
      BY <1>1, <1>4 DEF Entry
    <2>2. QED
      BY <2>1
  <1>9. /\ job' \in Job /\ job'.target = 1 /\ job'.pos = itable[1].size /\ job'.buf = << r >>
        /\ job'.left = 1 /\ job'.zone = itable[1].size \div BS /\ job'.cur = Sized(1)
        /\ job'.op = "create" /\ job'.name = n /\ job'.inum = i /\ pc' = "write"
    <2>1. Transfer(job, 1, itable[1].size, itable[1].size, << r >>) /\ job \in Job
      BY <1>2, <1>7 DEF Types
    <2>2. /\ job' \in Job /\ job'.target = 1 /\ job'.pos = itable[1].size /\ job'.buf = << r >>
          /\ job'.left = Len(<< r >>) /\ job'.zone = itable[1].size \div BS
          /\ job'.cur = Ceil(itable[1].size) /\ job'.op = job.op
          /\ job'.name = job.name /\ job'.inum = job.inum /\ pc' = "write"
      <3>1. /\ job \in Job /\ 1 \in Inum /\ itable[1].size \in Nat
            /\ << r >> \in Seq(Value \cup Entry)
        BY <1>7, <1>8, <2>1, Constants
      <3>2. PICK b : b = << r >>
        OBVIOUS
      <3>3. b \in Seq(Value \cup Entry) /\ Transfer(job, 1, itable[1].size, itable[1].size, b)
        BY <2>1, <3>1, <3>2
      <3>4. /\ job' \in Job /\ job'.target = 1 /\ job'.pos = itable[1].size /\ job'.buf = b
            /\ job'.left = Len(b) /\ job'.zone = itable[1].size \div BS
            /\ job'.cur = Ceil(itable[1].size) /\ job'.op = job.op
            /\ job'.name = job.name /\ job'.inum = job.inum /\ pc' = "write"
        BY <3>1, <3>3, TransferStarts
      <3>5. QED
        BY <3>2, <3>4
    <2>3. QED
      BY <1>1, <1>3, <1>8, <2>2 DEF Sized
  <1>10. ~Making' /\ Mounted' /\ Moving' /\ Calling' /\ ~Linking'
    BY <1>9 DEF Making, Mounted, Calling, Moving, Linking
  <1>11. Types'
    BY <1>2, <1>6, <1>9 DEF Types, Pcs
  <1>12. \A j \in Inum : Sized(j)' = Sized(j)
    <2>1. Sized(i)' = 0 /\ Sized(i) = 0
      BY <1>4, <1>5, <1>6, CeilBounds, Slots DEF Sized
    <2>2. \A j \in Inum \ {i} : Sized(j)' = Sized(j)
      BY <1>6 DEF Sized
    <2>3. QED
      BY <2>1, <2>2
  <1>13. \A j \in Inum : Have(j)' = Have(j) /\ Have(j) = Sized(j)
    BY <1>3, <1>9, <1>10, <1>12 DEF Have
  <1>14. \A j \in Inum : Sized(j) \in Nat /\ Have(j) \in Nat /\ Sized(j) <= Have(j)
    BY Sizes DEF ZonesApart
  <1>15. \A j \in Inum : \A z \in 0 .. Have(j) - 1 : ZoneOf(j, z)' = ZoneOf(j, z)
    <2> SUFFICES ASSUME NEW j \in Inum, NEW z \in 0 .. Have(j) - 1
                 PROVE  ZoneOf(j, z)' = ZoneOf(j, z)
      OBVIOUS
    <2>1. j # i
      BY <1>4, <1>13, Slots
    <2>2. ZoneOf(j, z) = itable[j].zone[z] /\ itable'[j] = itable[j] /\ inode'[j] = inode[j]
      BY <1>3, <1>6, <2>1 DEF ZoneOf
    <2>3. QED
      BY <1>7, <1>9, <2>2 DEF ZoneOf
  <1>16. ZonesApart'
    <2>1. \A j \in Inum : /\ Sized(j)' = Sized(j) /\ Sized(j)' <= Have(j)'
                          /\ Have(j)' <= Have(j)
      BY <1>12, <1>13, <1>14
    <2>2. \A j \in Inum : \A z \in 0 .. Have(j)' - 1 : ZoneOf(j, z)' = ZoneOf(j, z)
      BY <1>13, <1>15
    <2>3. \A j \in Inum : \A z \in 0 .. Sized(j) - 1 : itable'[j].zone[z] = itable[j].zone[z]
      BY <1>4, <1>6, Slots
    <2>4. pc' # "clear" /\ zmap \subseteq zmap'
      BY <1>2, <1>9
    <2>5. QED
      BY <1>11, <2>1, <2>2, <2>3, <2>4, ZonesKept
  <1>17. itable'[1] = itable[1] /\ inode'[1] = inode[1]
    BY <1>4, <1>6, Constants
  <1>18. Cells' = Cells /\ \A k : Rec(k)' = Rec(k)
    BY <1>2, <1>17 DEF Cells, Rec, At
  <1>19. Directory'
    <2>1. \A k \in Cells : /\ itable'[Rec(k).inode] # NoInode
                           /\ itable'[Rec(k).inode].nlink = itable[Rec(k).inode].nlink
      <3>1. \A k \in Cells : Rec(k).inode \in Inum \ {i} /\ itable[Rec(k).inode] # NoInode
        BY <1>4, EntryTypes DEF Directory
      <3>2. QED
        BY <1>6, <3>1
    <2>2. QED
      BY <1>3, <1>18, <2>1, DirectoryKept
  <1>20. Phases'
    BY <1>2, <1>7, <1>9, <1>10, <1>17 DEF Phases
  <1>21. Memory'
    <2>1. \A j \in Inum : itable'[j] # NoInode => j \in imap'
      BY <1>2, <1>4, <1>6 DEF Memory
    <2>2. ASSUME NEW j \in Inum, inode'[j] # NoInode
          PROVE  /\ itable'[j] # NoInode
                 /\ inode'[j].size = itable'[j].size /\ inode'[j].nlink = itable'[j].nlink
                 /\ inode'[j].zone = itable'[j].zone
      <3>1. CASE j = i
        BY <1>6, <3>1
      <3>2. CASE j # i
        BY <1>3, <1>6, <2>2, <3>2 DEF Memory
      <3>3. QED
        BY <3>1, <3>2
    <2>3. QED
      BY <2>1, <2>2 DEF Memory
  <1>22. Creating'
    <2>1. NewRecord' = r
      BY <1>1, <1>9 DEF NewRecord
    <2>2. QED
      BY <1>2, <1>4, <1>5, <1>6, <1>9, <1>10, <1>17, <1>18, <2>1 DEF Creating
  <1>23. Transferring'
    <2>1. Done' = 0 /\ Len(job'.buf) = 1
      BY <1>8, <1>9 DEF Done
    <2>2. ~(job'.cur > Sized(1)')
      <3>1. Sized(1)' = job'.cur /\ job'.cur \in Nat
        BY <1>9, <1>12, <1>14, Constants
      <3>2. QED
        BY <3>1
    <2>3. job'.zone = (job'.pos + Done') \div BS
      BY <1>7, <1>9, <2>1
    <2>4. 0 .. Done' - 1 = {}
      BY <2>1
    <2>5. job'.pos <= itable'[job'.target].size /\ inode'[job'.target] # NoInode
      BY <1>7, <1>9, <1>17
    <2>6. /\ Len(job'.buf) >= 1 /\ Len(job'.buf) <= BS + 1 /\ job'.left <= Len(job'.buf)
      BY <1>9, <2>1, Constants
    <2>7. QED
      BY <1>9, <2>1, <2>2, <2>3, <2>4, <2>5, <2>6 DEF Transferring
  <1>24. Dentries'
    <2> SUFFICES ASSUME NEW m \in Name, dentry[m] # 0
                 PROVE  /\ inode'[dentry[m]] # NoInode /\ inode'[dentry[m]].refcnt >= 2
                        /\ \E k \in Cells : Rec(k) = [name |-> m, inode |-> dentry[m]]
      BY <1>2, <1>18 DEF Dentries
    <2>1. /\ inode[dentry[m]] # NoInode /\ inode[dentry[m]].refcnt >= 2
          /\ \E k \in Cells : Rec(k) = [name |-> m, inode |-> dentry[m]]
          /\ dentry[m] \in Inum
      BY DEF Dentries, Types
    <2>2. QED
      BY <1>4, <1>6, <2>1
  <1>25. Exact'
    <2>1. ASSUME ~leaky
          PROVE  /\ \A j \in imap' : itable'[j] # NoInode
                 /\ \A j \in Inum \ {1} : itable'[j] # NoInode =>
                        (\E k \in Cells : Rec(k).inode = j) \/ j = i
                 /\ \A b \in zmap' : \E j \in Inum : \E z \in 0 .. Have(j) - 1 : ZoneOf(j, z) = b
      <3>1. /\ \A j \in imap : itable[j] # NoInode \/ j = i
            /\ \A j \in Inum \ {1} : itable[j] # NoInode =>
                    (\E k \in Cells : Rec(k).inode = j) \/ j = i
            /\ \A b \in zmap : \E j \in Inum : \E z \in 0 .. Have(j) - 1 : ZoneOf(j, z) = b
        BY <1>1, <1>2, <1>7, <2>1 DEF Exact
      <3>2. QED
        BY <1>2, <1>6, <3>1 DEF Types
    <2>2. ASSUME ~leaky
          PROVE  \A b \in zmap' : \E j \in Inum : \E z \in 0 .. Have(j)' - 1 : ZoneOf(j, z)' = b
      BY <1>13, <1>15, <2>1, <2>2
    <2>3. QED
      BY <1>2, <1>9, <1>18, <2>1, <2>2 DEF Exact
  <1>26. QED
    BY <1>11, <1>16, <1>19, <1>20, <1>21, <1>22, <1>23, <1>24, <1>25

-----------------------------------------------------------------------------
(* A write                                                                 *)

LEMMA JobBlk ==
    ASSUME job \in Job, NEW b \in Zone, job' = [job EXCEPT !.blk = b]
    PROVE  /\ job' \in Job /\ job'.blk = b /\ job'.op = job.op /\ job'.name = job.name
           /\ job'.inum = job.inum /\ job'.target = job.target /\ job'.pos = job.pos
           /\ job'.buf = job.buf /\ job'.left = job.left /\ job'.zone = job.zone
           /\ job'.cur = job.cur
  BY DEF Job

LEMMA JobCur ==
    ASSUME job \in Job, job' = [job EXCEPT !.cur = @ + 1]
    PROVE  /\ job' \in Job /\ job'.blk = job.blk /\ job'.op = job.op /\ job'.name = job.name
           /\ job'.inum = job.inum /\ job'.target = job.target /\ job'.pos = job.pos
           /\ job'.buf = job.buf /\ job'.left = job.left /\ job'.zone = job.zone
           /\ job'.cur = job.cur + 1
  BY DEF Job

\* What a write has of its target
LEMMA WriteFacts ==
    ASSUME IInv, Moving
    PROVE  /\ ~Making /\ Mounted /\ Calling /\ ~Linking
           /\ job \in Job /\ job.target \in Inum /\ job.inum \in Inum
           /\ inode[job.target] \in MemRec /\ inode[job.target] # NoInode
           /\ itable[job.target] # NoInode /\ itable[1] # NoInode
           /\ inode[job.target].size = itable[job.target].size
           /\ Have(job.target) = job.cur
           /\ job.pos \in Nat /\ job.left \in Nat /\ job.cur \in Nat /\ job.zone \in Nat
           /\ Len(job.buf) \in Nat /\ Done \in Nat /\ Need \in Nat
           /\ Done <= Len(job.buf) /\ job.left = Len(job.buf) - Done
           /\ \A i \in Inum : Sized(i) \in Nat /\ Have(i) \in Nat /\ Sized(i) <= Have(i)
                              /\ Have(i) <= NR_DIRECT
           /\ itable[job.target].size \in Nat /\ job.pos <= itable[job.target].size
           /\ \A i \in Inum \ {job.target} : \A z :
                  Have(i) = Sized(i) /\ ZoneOf(i, z) = itable[i].zone[z]
           /\ \A z : ZoneOf(job.target, z) = inode[job.target].zone[z]
  <1> USE DEF IInv
  <1>1. ~Making /\ Mounted /\ Calling /\ ~Linking
    BY DEF Making, Mounted, Calling, Moving, Linking
  <1>2. /\ job \in Job /\ job.target \in Inum /\ job.inum \in Inum
        /\ job.pos \in Nat /\ job.left \in Nat /\ job.cur \in Nat /\ job.zone \in Nat
        /\ Len(job.buf) \in Nat
    BY JobTypes DEF Types
  <1>3. /\ inode[job.target] \in MemRec /\ inode[job.target] # NoInode
        /\ itable[job.target] # NoInode /\ itable[1] # NoInode
        /\ inode[job.target].size = itable[job.target].size
        /\ itable[job.target].size \in Nat
    BY <1>1, <1>2, Constants, Slots DEF Transferring, Memory, Phases
  <1>4. Done \in Nat /\ Done <= Len(job.buf) /\ job.left = Len(job.buf) - Done
    BY <1>2 DEF Done, Transferring
  <1>5. Need \in Nat
    <2>1. job.pos + Len(job.buf) \in Nat
      BY <1>2
    <2>2. QED
      BY <2>1, CeilBounds DEF Need
  <1>6. /\ \A i \in Inum \ {job.target} : \A z :
                Have(i) = Sized(i) /\ ZoneOf(i, z) = itable[i].zone[z]
        /\ \A z : ZoneOf(job.target, z) = inode[job.target].zone[z]
        /\ Have(job.target) = job.cur
    BY DEF Have, ZoneOf
  <1>7. \A i \in Inum : Sized(i) \in Nat /\ Have(i) \in Nat /\ Sized(i) <= Have(i)
                        /\ Have(i) <= NR_DIRECT
    BY Sizes DEF ZonesApart
  <1>8. job.pos <= itable[job.target].size
    BY DEF Transferring
  <1>9. QED
    BY <1>1, <1>2, <1>3, <1>4, <1>5, <1>6, <1>7, <1>8

\* A zone is marked; nothing else has it.
LEMMA ReserveKeepsIInv == ASSUME IInv, Reserve PROVE IInv'
  <1> USE DEF IInv
  <1>1. CASE FreeZones = {}
    BY <1>1, HaltKeepsIInv DEF Reserve
  <1>2. CASE FreeZones # {}
    <2>1. PICK b : b = Least(FreeZones)
      OBVIOUS
    <2>2. /\ pc = "write" /\ pc' = "clear" /\ job.cur < Need /\ zmap' = zmap \cup {b}
          /\ job' = [job EXCEPT !.blk = b]
          /\ UNCHANGED <<magic, imap, itable, data, inode, dentry, crashes, leaky, torn>>
      BY <1>2, <2>1 DEF Reserve, history
    <2>3. b \in Zone /\ b \notin zmap
      BY <1>2, <2>1, BitIsFree
    <2>4. /\ job' \in Job /\ job'.blk = b /\ job'.op = job.op /\ job'.name = job.name
          /\ job'.inum = job.inum /\ job'.target = job.target /\ job'.pos = job.pos
          /\ job'.buf = job.buf /\ job'.left = job.left /\ job'.zone = job.zone
          /\ job'.cur = job.cur
      <3>1. job \in Job /\ job' = [job EXCEPT !.blk = b]
        BY <2>2 DEF Types
      <3>2. QED
        BY <2>3, <3>1, JobBlk
    <2>5. Moving /\ Moving' /\ Mounted /\ ~Making' /\ Mounted' /\ Calling /\ Calling' /\ ~Linking'
      BY <2>2 DEF Making, Mounted, Calling, Moving, Linking
    <2>6. Types'
      BY <2>2, <2>3, <2>4 DEF Types, Pcs
    <2>7. /\ \A i \in Inum : Sized(i)' = Sized(i) /\ Have(i)' = Have(i)
          /\ \A i, z : ZoneOf(i, z)' = ZoneOf(i, z)
          /\ Cells' = Cells /\ \A k : Rec(k)' = Rec(k)
      BY <2>2, <2>4, <2>5 DEF Sized, Have, ZoneOf, Cells, Rec, At
    <2>8. Phases'
      BY <2>2, <2>4, <2>5, WriteFacts DEF Phases
    <2>9. Memory'
      BY <2>2, <2>4, <2>5 DEF Memory
    <2>10. ZonesApart'
      <3>1. \A i \in Inum : \A z \in 0 .. Have(i) - 1 : ZoneOf(i, z) # b
        BY <2>3 DEF ZonesApart
      <3>2. \A i \in Inum : Sized(i)' <= Have(i)' /\ Have(i)' <= NR_DIRECT
        BY <2>7 DEF ZonesApart
      <3>3. \A i \in Inum : \A z \in 0 .. Have(i)' - 1 :
              ZoneOf(i, z)' \in zmap' /\ (z < Sized(i)' => ZoneOf(i, z)' = itable'[i].zone[z])
        BY <2>2, <2>7 DEF ZonesApart
      <3>4. \A i, j \in Inum : \A y \in 0 .. Have(i)' - 1, z \in 0 .. Have(j)' - 1 :
              ZoneOf(i, y)' = ZoneOf(j, z)' => i = j /\ y = z
        BY <2>7 DEF ZonesApart
      <3>5. job'.blk \in zmap' /\ \A i \in Inum : \A z \in 0 .. Have(i)' - 1 :
                                       ZoneOf(i, z)' # job'.blk
        BY <2>2, <2>4, <2>7, <3>1
      <3>6. QED
        BY <3>2, <3>3, <3>4, <3>5 DEF ZonesApart
    <2>11. Directory'
      <3>1. /\ ~Linking
            /\ \A k \in Cells : /\ itable'[Rec(k).inode] # NoInode
                                /\ itable'[Rec(k).inode].nlink = itable[Rec(k).inode].nlink
        BY <2>2, <2>5, WriteFacts DEF Directory
      <3>2. QED
        BY <2>7, <3>1, DirectoryKept
    <2>12. NewRecord' = NewRecord /\ Done' = Done /\ Need' = Need
      BY <2>4 DEF NewRecord, Done, Need
    <2>13. Creating'
      BY <2>2, <2>4, <2>5, <2>7, <2>12, WriteFacts DEF Creating
    <2>14. Transferring'
      <3>1. \A k : At(inode[job.target], k)' = At(inode[job.target], k)
        BY <2>2, <2>4 DEF At
      <3>2. Transferring /\ Done = 0 /\ Sized(job.target)' = Sized(job.target)
        BY <2>2, <2>5, <2>7, WriteFacts DEF Transferring
      <3>3. 0 .. Done' - 1 = {}
        BY <2>12, <3>2
      <3>4. QED
        BY <2>2, <2>4, <2>5, <2>12, <3>2, <3>3 DEF Transferring
    <2>15. Dentries'
      BY <2>2, <2>7 DEF Dentries
    <2>16. Exact'
      BY <2>2, <2>4, <2>7 DEF Exact
    <2>17. QED
      BY <2>6, <2>8, <2>9, <2>10, <2>11, <2>13, <2>14, <2>15, <2>16
  <1>3. QED
    BY <1>1, <1>2

LEMMA ZoneChanges ==
    ASSUME NEW m \in MemRec, NEW z \in Index, NEW b \in Zone \cup {0}
    PROVE  /\ [m EXCEPT !.zone[z] = b] \in MemRec
           /\ [m EXCEPT !.zone[z] = b].size = m.size
           /\ [m EXCEPT !.zone[z] = b].nlink = m.nlink
           /\ [m EXCEPT !.zone[z] = b].refcnt = m.refcnt
           /\ [m EXCEPT !.zone[z] = b].zone[z] = b
           /\ \A y \in Index \ {z} : [m EXCEPT !.zone[z] = b].zone[y] = m.zone[y]
  <1>1. m.zone \in [Index -> Zone \cup {0}]
    BY DEF MemRec, Zones
  <1>2. PICK f : f = [m.zone EXCEPT ![z] = b]
    OBVIOUS
  <1>3. f \in Zones /\ f[z] = b /\ \A y \in Index \ {z} : f[y] = m.zone[y]
    BY <1>1, <1>2 DEF Zones
  <1>4. [m EXCEPT !.zone[z] = b] = [m EXCEPT !.zone = f]
    BY <1>2
  <1>5. /\ [m EXCEPT !.zone = f] \in MemRec /\ [m EXCEPT !.zone = f].zone = f
        /\ [m EXCEPT !.zone = f].size = m.size /\ [m EXCEPT !.zone = f].nlink = m.nlink
        /\ [m EXCEPT !.zone = f].refcnt = m.refcnt
    BY <1>3 DEF MemRec
  <1>6. QED
    BY <1>3, <1>4, <1>5

\* A block nothing uses is cleared and entered as the next zone of the target.
LEMMA ClearZoneKeepsIInv == ASSUME IInv, ClearZone PROVE IInv'
  <1> USE DEF IInv
  <1>1. PICK t, b, u : t = job.target /\ b = job.blk /\ u = job.cur
    OBVIOUS
  <1>2. /\ pc = "clear" /\ Moving /\ UNCHANGED <<magic, imap, zmap, itable, dentry, crashes, leaky, torn>>
        /\ data' = [data EXCEPT ![b] = [c \in 0 .. BS - 1 |-> Zero]]
    BY <1>1 DEF ClearZone, Moving, history
  <1>3. /\ b \in zmap /\ b \in Zone
        /\ \A i \in Inum : \A z \in 0 .. Have(i) - 1 : ZoneOf(i, z) # b
    BY <1>1, <1>2 DEF ZonesApart, Types
  <1>4. /\ Done = 0 /\ job.cur < Need /\ ~Linking /\ t \in Inum
        /\ inode[t] \in MemRec /\ inode[t] # NoInode /\ u \in Nat
    BY <1>1, <1>2, WriteFacts DEF Transferring
  <1>5. data' \in [Zone -> Block] /\ \A y \in Zone \ {b} : data'[y] = data[y]
    <2>1. [c \in 0 .. BS - 1 |-> Zero] \in Block
      BY DEF Block, Cell
    <2>2. QED
      BY <1>2, <2>1 DEF Types
  <1>6. Cells' = Cells /\ \A k \in Cells : Rec(k)' = Rec(k)
    <2>1. Cells' = Cells
      BY <1>2 DEF Cells
    <2>2. ASSUME NEW k \in Cells PROVE Rec(k)' = Rec(k)
      <3>1. \A z \in 0 .. Sized(1) - 1 : itable[1].zone[z] \in Zone \ {b}
        BY <1>3, Constants, DiskZones
      <3>2. \A z \in 0 .. Sized(1) - 1 : itable'[1].zone[z] = itable[1].zone[z]
        BY <1>2
      <3>3. \A z \in 0 .. Sized(1) - 1 : \A c \in 0 .. BS - 1 :
               z = k \div BS /\ c = k % BS =>
                   data'[itable[1].zone[z]][c] = data[itable[1].zone[z]][c]
        BY <1>5, <3>1
      <3>4. QED
        BY <3>2, <3>3, RecordKept
    <2>3. QED
      BY <2>1, <2>2
  <1>7. CASE u >= NR_DIRECT
    <2>1. UNCHANGED <<inode, pc, job>>
      BY <1>1, <1>7 DEF ClearZone
    <2>2. Types'
      BY <1>2, <1>5, <2>1 DEF Types
    <2>3. /\ \A i \in Inum : Sized(i)' = Sized(i) /\ Have(i)' = Have(i)
          /\ \A i, z : ZoneOf(i, z)' = ZoneOf(i, z)
      BY <1>2, <2>1 DEF Sized, Have, ZoneOf, Moving
    <2>4. Phases' /\ Memory'
      BY <1>2, <2>1 DEF Phases, Memory, Mounted, Making, Calling, Moving, Linking
    <2>5. ZonesApart'
      BY <1>2, <2>1, <2>3 DEF ZonesApart
    <2>6. Directory' /\ Dentries'
      BY <1>2, <1>6, <2>1 DEF Directory, Dentries, Linking
    <2>7. Creating'
      BY <1>2, <1>6, <2>1 DEF Creating, Linking, Moving, NewRecord
    <2>8. Transferring'
      <3>1. Done' = 0 /\ Need' = Need /\ 0 .. Done' - 1 = {}
        BY <1>4, <2>1 DEF Done, Need
      <3>2. QED
        BY <1>2, <1>4, <2>1, <2>3, <3>1, WriteFacts DEF Transferring, Moving
    <2>9. Exact'
      BY <1>2, <1>6, <2>1, <2>3 DEF Exact
    <2>10. QED
      BY <2>2, <2>4, <2>5, <2>6, <2>7, <2>8, <2>9
  <1>8. CASE u < NR_DIRECT
    <2>1. /\ inode' = [inode EXCEPT ![t].zone[u] = b]
          /\ job' = [job EXCEPT !.cur = @ + 1] /\ pc' = "write"
      <3>1. ~(job.cur >= NR_DIRECT)
        BY <1>1, <1>4, <1>8, Constants
      <3>2. QED
        BY <1>1, <3>1 DEF ClearZone
    <2> DEFINE v == [inode[t] EXCEPT !.zone[u] = b]
    <2>2. u \in Index
      BY <1>4, <1>8, Constants
    <2>3. /\ v \in MemRec /\ v.size = inode[t].size /\ v.nlink = inode[t].nlink
          /\ v.refcnt = inode[t].refcnt /\ v.zone[u] = b
          /\ \A y \in Index \ {u} : v.zone[y] = inode[t].zone[y]
      BY <1>3, <1>4, <2>2, ZoneChanges
    <2>4. inode' = [inode EXCEPT ![t] = v]
      BY <2>1
    <2> HIDE DEF v
    <2>5. /\ inode' \in [Inum -> MemRec \cup {NoInode}] /\ inode'[t] = v /\ v # NoInode
          /\ \A i \in Inum \ {t} : inode'[i] = inode[i]
      BY <1>4, <2>3, <2>4, NoInodeIsNone DEF Types
    <2>6. /\ job' \in Job /\ job'.blk = job.blk /\ job'.op = job.op /\ job'.name = job.name
          /\ job'.inum = job.inum /\ job'.target = t /\ job'.pos = job.pos
          /\ job'.buf = job.buf /\ job'.left = job.left /\ job'.zone = job.zone
          /\ job'.cur = u + 1
      <3>1. job \in Job /\ job' = [job EXCEPT !.cur = @ + 1]
        BY <2>1 DEF Types
      <3>2. QED
        BY <1>1, <3>1, JobCur
    <2>7. Moving' /\ ~Making' /\ Mounted' /\ Calling' /\ ~Linking'
      BY <2>1 DEF Making, Mounted, Calling, Moving, Linking
    <2>8. Types'
      BY <1>2, <1>5, <2>1, <2>5, <2>6 DEF Types, Pcs
    <2>9. /\ \A i \in Inum : Sized(i)' = Sized(i)
          /\ \A i \in Inum \ {t} : Have(i)' = Have(i)
          /\ Have(t) = u /\ Have(t)' = u + 1
      BY <1>1, <1>2, <1>4, <2>6, <2>7 DEF Sized, Have
    <2>10. /\ \A i \in Inum : \A z \in 0 .. Have(i) - 1 : ZoneOf(i, z)' = ZoneOf(i, z)
           /\ ZoneOf(t, u)' = b
      <3>1. \A i \in Inum \ {t} : \A z : ZoneOf(i, z)' = ZoneOf(i, z)
        BY <1>1, <1>2, <1>4, <2>6, <2>7 DEF ZoneOf
      <3>2. ZoneOf(t, u)' = b
        BY <2>3, <2>5, <2>6, <2>7 DEF ZoneOf
      <3>3. ASSUME NEW z \in 0 .. Have(t) - 1 PROVE ZoneOf(t, z)' = ZoneOf(t, z)
        <4>1. z \in Index \ {u}
          BY <1>4, <1>8, <2>9, Constants
        <4>2. QED
          BY <1>1, <1>2, <2>3, <2>5, <2>6, <2>7, <4>1 DEF ZoneOf
      <3>4. QED
        BY <1>4, <3>1, <3>2, <3>3
    <2>11. \A i \in Inum : \A z : z \in 0 .. Have(i)' - 1 <=>
              z \in 0 .. Have(i) - 1 \/ (i = t /\ z = u)
      <3>1. \A i \in Inum : Have(i) \in Nat
        BY Sizes
      <3>2. QED
        BY <1>4, <2>9, <3>1
    <2>12. Phases'
      BY <1>2, <2>1, <2>5, <2>6, <2>7, Constants, WriteFacts DEF Phases
    <2>13. Memory'
      <3>1. \A i \in Inum : itable'[i] # NoInode => i \in imap'
        BY <1>2 DEF Memory
      <3>2. ASSUME NEW i \in Inum, inode'[i] # NoInode
            PROVE  /\ itable'[i] # NoInode
                   /\ inode'[i].size = itable'[i].size /\ inode'[i].nlink = itable'[i].nlink
                   /\ i # t => inode'[i].zone = itable'[i].zone
        <4>1. inode[i] # NoInode
          BY <1>4, <2>5, <3>2
        <4>2. QED
          BY <1>1, <1>2, <2>3, <2>5, <4>1 DEF Memory
      <3>3. QED
        BY <2>6, <2>7, <3>1, <3>2 DEF Memory
    <2>14. ZonesApart'
      <3>1. \A i \in Inum : Sized(i)' <= Have(i)' /\ Have(i)' <= NR_DIRECT
        <4>1. \A i \in Inum : /\ Sized(i) \in Nat /\ Have(i) \in Nat
                              /\ Sized(i) <= Have(i) /\ Have(i) <= NR_DIRECT
          BY Sizes DEF ZonesApart
        <4>2. NR_DIRECT \in Nat
          BY Constants
        <4> HIDE DEF IInv
        <4>3. Sized(t) <= u + 1 /\ u + 1 <= NR_DIRECT
          BY <1>4, <1>8, <2>9, <4>1, <4>2
        <4>4. QED
          BY <2>9, <4>1, <4>3
      <3>2. \A i \in Inum : \A z \in 0 .. Have(i)' - 1 : ZoneOf(i, z)' \in zmap'
        BY <1>2, <1>3, <2>10, <2>11 DEF ZonesApart
      <3>3. ASSUME NEW i \in Inum, NEW z \in 0 .. Have(i)' - 1, z < Sized(i)'
            PROVE  ZoneOf(i, z)' = itable'[i].zone[z]
        <4>1. z \in 0 .. Sized(i) - 1
          BY <2>9, <3>3, Sizes
        <4>2. z \in 0 .. Have(i) - 1 /\ ZoneOf(i, z) = itable[i].zone[z]
          BY <4>1, DiskZones
        <4>3. QED
          BY <1>2, <2>10, <4>2
      <3>4. \A i, j \in Inum : \A y \in 0 .. Have(i)' - 1, z \in 0 .. Have(j)' - 1 :
              ZoneOf(i, y)' = ZoneOf(j, z)' => i = j /\ y = z
        BY <1>3, <1>4, <2>10, <2>11 DEF ZonesApart
      <3>5. QED
        BY <2>1, <3>1, <3>2, <3>3, <3>4 DEF ZonesApart
    <2>15. Directory'
      <3>1. \A k \in Cells : /\ itable'[Rec(k).inode] # NoInode
                             /\ itable'[Rec(k).inode].nlink = itable[Rec(k).inode].nlink
        BY <1>2 DEF Directory
      <3>2. QED
        BY <1>4, <1>6, <3>1, DirectoryKept
    <2>16. NewRecord' = NewRecord /\ Done' = 0 /\ Need' = Need
      BY <1>4, <2>6 DEF NewRecord, Done, Need
    <2>17. \A i \in Inum : /\ inode'[i] # NoInode <=> inode[i] # NoInode
                           /\ inode[i] # NoInode => inode'[i].refcnt = inode[i].refcnt
      BY <1>4, <2>3, <2>5
    <2>18. Creating'
      <3>1. job.inum \in Inum
        BY <1>2, WriteFacts
      <3>2. QED
        BY <1>1, <1>2, <1>4, <1>6, <2>1, <2>6, <2>7, <2>16, <2>17, <3>1 DEF Creating
    <2>19. Transferring'
      <3>1. /\ job.op = "write" => job.name \in Name /\ t = dentry[job.name]
                                    /\ t = job.inum /\ job.buf \in Buffer
            /\ job.pos <= itable[t].size
            /\ Len(job.buf) >= 1 /\ Len(job.buf) <= BS + 1 /\ job.left <= Len(job.buf)
            /\ job.left > 0 => job.zone = (job.pos + Done) \div BS
        BY <1>1, <1>2 DEF Transferring
      <3>2. job'.cur <= Need'
        <4>1. u < Need /\ Need \in Nat
          BY <1>1, <1>2, <1>4, WriteFacts
        <4>2. QED
          BY <1>4, <2>6, <2>16, <4>1
      <3>3. 0 .. Done' - 1 = {} /\ Done' = Done
        BY <1>4, <2>16
      <3>4. QED
        BY <1>2, <2>1, <2>5, <2>6, <2>16, <3>1, <3>2, <3>3 DEF Transferring
    <2>20. Dentries'
      <3>1. \A n \in Name : dentry[n] \in Inum \cup {0}
        BY DEF Types
      <3>2. QED
        BY <1>2, <1>6, <2>17, <3>1 DEF Dentries
    <2>21. Exact'
      <3>1. ASSUME ~leaky, NEW x \in zmap
            PROVE  \E i \in Inum : \E z \in 0 .. Have(i)' - 1 : ZoneOf(i, z)' = x
        <4>1. CASE x = b
          BY <1>4, <2>10, <2>11, <4>1
        <4>2. CASE x # b
          <5>1. PICK i \in Inum : \E z \in 0 .. Have(i) - 1 : ZoneOf(i, z) = x
            BY <1>1, <1>2, <3>1, <4>2, WriteFacts DEF Exact
          <5>2. QED
            BY <2>10, <2>11, <5>1
        <4>3. QED
          BY <4>1, <4>2
      <3>2. QED
        BY <1>2, <1>6, <2>6, <3>1 DEF Exact
    <2>22. QED
      BY <2>8, <2>12, <2>13, <2>14, <2>15, <2>18, <2>19, <2>20, <2>21
  <1>9. QED
    BY <1>4, <1>7, <1>8, Constants

\* The place of a chunk: it begins behind what is stored and stays in its block.
LEMMA ChunkPlace ==
    ASSUME IInv, pc = "write", job.cur >= Need, job.left > 0,
           NEW x, x = job.pos + Done
    PROVE  /\ x \in Nat /\ Start = x % BS /\ Start \in 0 .. BS - 1
           /\ job.zone = x \div BS /\ job.zone \in 0 .. job.cur - 1
           /\ Chunk \in Nat /\ Chunk >= 1 /\ Chunk <= job.left /\ Start + Chunk <= BS
           /\ x = (BS * job.zone) + Start
           /\ job.left - Chunk > 0 => Start + Chunk = BS
  <1> USE DEF IInv
  <1>1. Moving
    BY DEF Moving
  <1>2. /\ job.pos \in Nat /\ job.left \in Nat /\ job.cur \in Nat /\ Need \in Nat
        /\ Len(job.buf) \in Nat /\ Done \in Nat /\ Done <= Len(job.buf)
        /\ job.left = Len(job.buf) - Done /\ Len(job.buf) <= BS + 1
        /\ job.zone = x \div BS /\ (Done > 0 => x % BS = 0)
    BY <1>1, WriteFacts DEF Transferring
  <1>3. x \in Nat /\ x < job.pos + Len(job.buf) /\ job.pos + Len(job.buf) \in Nat
    BY <1>2
  <1>4. x \div BS \in Nat /\ x % BS \in 0 .. BS - 1 /\ x = (BS * (x \div BS)) + (x % BS)
    BY <1>3, Divide
  <1>5. x \div BS < Need
    BY <1>3, InFile DEF Need
  <1>6. First <=> Done = 0
    BY <1>2 DEF First
  <1>7. Start = x % BS
    BY <1>2, <1>6 DEF Start
  <1>8. /\ Chunk \in Nat /\ Chunk >= 1 /\ Chunk <= job.left /\ Start + Chunk <= BS
        /\ job.left - Chunk > 0 => Start + Chunk = BS
    <2>1. Start \in 0 .. BS - 1 /\ BS \in Nat /\ BS > 0
      BY <1>4, <1>7, Constants
    <2> HIDE DEF IInv
    <2>2. CASE Done = 0
      BY <1>2, <1>6, <2>1, <2>2 DEF Chunk
    <2>3. CASE Done > 0
      <3>1. job.left <= BS /\ Start = 0
        BY <1>2, <1>7, <2>1, <2>3
      <3>2. Chunk = job.left
        <4>1. ~First /\ ~(job.left > BS)
          BY <1>2, <1>6, <2>1, <2>3, <3>1
        <4>2. QED
          BY <4>1 DEF Chunk
      <3>3. QED
        BY <1>2, <2>1, <3>1, <3>2
    <2>4. QED
      BY <1>2, <2>2, <2>3
  <1>9. QED
    BY <1>2, <1>3, <1>4, <1>5, <1>7, <1>8

\* The cells of a chunk, as cells of the file
LEMMA ChunkCells ==
    ASSUME NEW x \in Nat, NEW d \in Nat, NEW q, NEW s, q = x \div BS, s = x % BS, s + d <= BS
    PROVE  /\ \A n \in Nat : n \div BS = q =>
                /\ n % BS \in s .. s + d - 1 <=> n \in x .. x + d - 1
                /\ (n % BS) - s = n - x
           /\ \A n \in x .. x + d - 1 : n \div BS = q
           /\ s + d = BS => (x + d) \div BS = q + 1 /\ (x + d) % BS = 0
  <1>1. /\ BS \in Nat /\ BS > 0 /\ BS * q \in Nat
        /\ q \in Nat /\ s \in 0 .. BS - 1 /\ x = (BS * q) + s
    BY Constants, Divide
  <1>2. ASSUME NEW n \in Nat, n \div BS = q
        PROVE  /\ n % BS \in s .. s + d - 1 <=> n \in x .. x + d - 1
               /\ (n % BS) - s = n - x
    <2>1. n = (BS * q) + (n % BS) /\ n % BS \in Nat
      BY <1>2, <1>1, Divide
    <2>2. PICK w, r : w = BS * q /\ r = n % BS
      OBVIOUS
    <2>3. n = w + r /\ r \in Nat /\ w \in Nat /\ x = w + s
      BY <1>1, <2>1, <2>2
    <2>4. (r \in s .. s + d - 1 <=> n \in x .. x + d - 1) /\ r - s = n - x
      BY <2>3
    <2>5. QED
      BY <2>2, <2>4
  <1>3. ASSUME NEW n \in x .. x + d - 1 PROVE n \div BS = q
    <2>1. n - BS * q \in 0 .. BS - 1 /\ n = BS * q + (n - BS * q) /\ n \in Nat
      BY <1>1
    <2>2. QED
      BY <1>1, <2>1, Quotient
  <1>4. ASSUME s + d = BS PROVE (x + d) \div BS = q + 1 /\ (x + d) % BS = 0
    <2>1. x + d = BS * (q + 1) + 0 /\ x + d \in Nat /\ q + 1 \in Nat /\ 0 \in 0 .. BS - 1
      BY <1>1, <1>4
    <2>2. QED
      BY <2>1, Quotient
  <1>5. QED
    BY <1>2, <1>3, <1>4

LEMMA JobLeft ==
    ASSUME job \in Job, NEW l \in Nat, NEW z \in Nat,
           job' = [job EXCEPT !.left = l, !.zone = z]
    PROVE  /\ job' \in Job /\ job'.blk = job.blk /\ job'.op = job.op /\ job'.name = job.name
           /\ job'.inum = job.inum /\ job'.target = job.target /\ job'.pos = job.pos
           /\ job'.buf = job.buf /\ job'.left = l /\ job'.zone = z
           /\ job'.cur = job.cur
  BY DEF Job

\* Only the directory's own growth writes to its blocks, behind its records.
LEMMA DirectoryGrows ==
    ASSUME IInv, Moving, job.target = 1
    PROVE  job.op = "create" /\ job.pos = itable[1].size
  <1>1. job.op # "write"
    <2> SUFFICES ASSUME job.op = "write" PROVE FALSE
      OBVIOUS
    <2>1. job.name \in Name /\ dentry[job.name] = 1
      BY DEF IInv, Transferring
    <2>2. PICK k \in Cells : Rec(k) = [name |-> job.name, inode |-> 1]
      BY <2>1 DEF IInv, Dentries
    <2>3. QED
      BY <2>2 DEF IInv, Directory
  <1>2. job.op = "create"
    BY <1>1 DEF IInv, Phases, Calling
  <1>3. QED
    BY <1>2 DEF IInv, Creating

\* What a chunk changes of the disk: cells from job.pos + Done on, of the target and of
\* no other inode
Stored ==
    /\ UNCHANGED <<itable, halted>>
    /\ job'.op = job.op /\ job'.name = job.name /\ job'.pos = job.pos /\ job'.buf = job.buf
    /\ Done + Chunk <= Len(job.buf)
    /\ \A i \in Inum : \A n \in 0 .. itable[i].size - 1 :
           At(itable[i], n)' =
             IF i = job.target /\ n \in job.pos + Done .. job.pos + Done + Chunk - 1
             THEN job.buf[n - job.pos + 1] ELSE At(itable[i], n)

LEMMA StoreChunkKeepsIInv ==
    ASSUME IInv, StoreChunk
    PROVE  IInv' /\ (Halt("zone too big") \/ Stored)
  <1> USE DEF IInv
  <1>1. PICK t, x, s, d, q, b, p, e, l :
          /\ t = job.target /\ x = job.pos + Done /\ s = Start /\ d = Chunk
          /\ q = job.zone /\ b = inode[t].zone[q] /\ p = job.pos /\ e = Done
          /\ l = Len(job.buf)
    OBVIOUS
  <1>2. /\ pc = "write" /\ Moving /\ job.cur >= Need /\ job.left > 0
    BY DEF StoreChunk, Moving
  <1>3. CASE job.zone > Ceil(target.size)
    BY <1>3, HaltKeepsIInv DEF StoreChunk
  <1>4. CASE ~(job.zone > Ceil(target.size))
    <2>1. /\ data' = [data EXCEPT ![b] =
                   [c \in 0 .. BS - 1 |->
                       IF c \in s .. s + d - 1
                       THEN job.buf[Len(job.buf) - job.left + 1 + c - s] ELSE @[c]]]
          /\ job' = [job EXCEPT !.left = job.left - d, !.zone = q + 1]
          /\ UNCHANGED <<magic, imap, zmap, itable, inode, dentry, pc, crashes, leaky, torn,
                         halted>>
      BY <1>1, <1>4 DEF StoreChunk, target, history
    <2>2. /\ x \in Nat /\ s = x % BS /\ s \in 0 .. BS - 1
          /\ q = x \div BS /\ q \in 0 .. job.cur - 1 /\ q \in Nat
          /\ d \in Nat /\ d >= 1 /\ d <= job.left /\ s + d <= BS
          /\ x = (BS * q) + s
          /\ job.left - d > 0 => s + d = BS
      BY <1>1, <1>2, ChunkPlace
    <2>3. /\ job \in Job /\ t \in Inum /\ Have(t) = job.cur /\ ZoneOf(t, q) = b
          /\ job.left \in Nat /\ Len(job.buf) \in Nat /\ Done \in Nat /\ job.pos \in Nat
          /\ job.left = Len(job.buf) - Done /\ ~Linking /\ inode[t] # NoInode
      BY <1>1, <1>2, WriteFacts
    <2>3a. /\ e \in Nat /\ l \in Nat /\ p \in Nat /\ x = p + e
           /\ job.left = l - e /\ d <= l - e /\ (l - e) - d = l - (e + d)
      BY <1>1, <2>2, <2>3
    <2>4. q \in 0 .. Have(t) - 1 /\ b \in zmap /\ b \in Zone
      BY <2>2, <2>3 DEF ZonesApart, Types
    <2>5. /\ job' \in Job /\ job'.blk = job.blk /\ job'.op = job.op /\ job'.name = job.name
          /\ job'.inum = job.inum /\ job'.target = job.target /\ job'.pos = job.pos
          /\ job'.buf = job.buf /\ job'.left = job.left - d /\ job'.zone = q + 1
          /\ job'.cur = job.cur
      <3>1. job.left - d \in Nat /\ q + 1 \in Nat
        BY <2>2, <2>3
      <3>2. QED
        BY <2>1, <2>3, <3>1, JobLeft
    <2>6. /\ \A n \in Nat : n \div BS = q =>
                /\ n % BS \in s .. s + d - 1 <=> n \in x .. x + d - 1
                /\ (n % BS) - s = n - x
          /\ \A n \in x .. x + d - 1 : n \div BS = q
          /\ s + d = BS => (x + d) \div BS = q + 1 /\ (x + d) % BS = 0
      <3>1. /\ x \in Nat /\ d \in Nat /\ q = x \div BS /\ s = x % BS /\ s + d <= BS
        BY <2>2
      <3> HIDE DEF IInv
      <3>2. QED
        BY <3>1, ChunkCells
    <2>7. /\ data' \in [Zone -> Block]
          /\ \A y \in Zone \ {b} : data'[y] = data[y]
          /\ \A c \in 0 .. BS - 1 : data'[b][c] =
                IF c \in s .. s + d - 1 THEN job.buf[Done + 1 + (c - s)] ELSE data[b][c]
      <3> DEFINE new == [c \in 0 .. BS - 1 |->
                           IF c \in s .. s + d - 1
                           THEN job.buf[Len(job.buf) - job.left + 1 + c - s] ELSE data[b][c]]
      <3>1. \A c \in s .. s + d - 1 :
                /\ Len(job.buf) - job.left + 1 + c - s = Done + 1 + (c - s)
                /\ Done + 1 + (c - s) \in 1 .. Len(job.buf)
        <4>1. \A c \in s .. s + d - 1 :
                /\ l - (l - e) + 1 + c - s = e + 1 + (c - s)
                /\ e + 1 + (c - s) \in 1 .. l
          BY <2>2, <2>3a
        <4>2. QED
          BY <1>1, <2>3a, <4>1
      <3>2. \A k \in 1 .. Len(job.buf) : job.buf[k] \in Value \cup Entry
        BY <2>3, JobTypes
      <3>3. data[b] \in Block
        BY <2>4 DEF Types
      <3>4. new \in Block
        <4>1. ASSUME NEW c \in 0 .. BS - 1 PROVE new[c] \in Cell
          <5>1. CASE c \in s .. s + d - 1
            <6>1. new[c] = job.buf[Done + 1 + (c - s)]
              BY <3>1, <5>1
            <6>2. QED
              BY <3>1, <3>2, <5>1, <6>1 DEF Cell
          <5>2. CASE c \notin s .. s + d - 1
            BY <3>3, <5>2 DEF Block
          <5>3. QED
            BY <5>1, <5>2
        <4>2. QED
          BY <4>1 DEF Block
      <3>5. \A c \in 0 .. BS - 1 : new[c] =
                IF c \in s .. s + d - 1 THEN job.buf[Done + 1 + (c - s)] ELSE data[b][c]
        BY <3>1
      <3>6. data' = [data EXCEPT ![b] = new]
        BY <2>1
      <3> HIDE DEF new
      <3>7. QED
        BY <2>4, <3>4, <3>5, <3>6 DEF Types
    <2>8. Moving' /\ ~Making' /\ Mounted' /\ Calling' /\ ~Linking'
      BY <1>2, <2>1 DEF Making, Mounted, Calling, Moving, Linking
    <2>9. Types'
      BY <2>1, <2>5, <2>7 DEF Types
    <2>10. /\ \A i \in Inum : Sized(i)' = Sized(i) /\ Have(i)' = Have(i)
           /\ \A i, z : ZoneOf(i, z)' = ZoneOf(i, z)
      BY <1>2, <2>1, <2>5, <2>8 DEF Sized, Have, ZoneOf
    <2>11. Cells' = Cells /\ \A k \in Cells : Rec(k)' = Rec(k)
      <3>1. Cells' = Cells
        BY <2>1 DEF Cells
      <3>2. ASSUME NEW k \in Cells PROVE Rec(k)' = Rec(k)
        <4>1. ASSUME NEW z \in 0 .. Sized(1) - 1, NEW c \in 0 .. BS - 1,
                     z = k \div BS, c = k % BS
              PROVE  data'[itable[1].zone[z]][c] = data[itable[1].zone[z]][c]
          <5>1. /\ itable[1].zone[z] \in Zone /\ z \in 0 .. Have(1) - 1
                /\ ZoneOf(1, z) = itable[1].zone[z]
            BY Constants, DiskZones
          <5>2. CASE itable[1].zone[z] # b
            BY <2>7, <5>1, <5>2
          <5>3. CASE itable[1].zone[z] = b
            <6>1. t = 1 /\ z = q
              BY <2>3, <2>4, <5>1, <5>3, Constants DEF ZonesApart
            <6>2. job.pos = itable[1].size
              BY <1>1, <1>2, <6>1, DirectoryGrows
            <6>3. k \in Nat /\ k < x
              BY <1>1, <2>3, <6>2 DEF Cells
            <6>4. c \notin s .. s + d - 1
              BY <2>2, <2>6, <4>1, <6>1, <6>3
            <6>5. QED
              BY <2>7, <5>3, <6>4
          <5>4. QED
            BY <5>2, <5>3
        <4>2. \A z \in 0 .. Sized(1) - 1 : itable'[1].zone[z] = itable[1].zone[z]
          BY <2>1
        <4>3. QED
          BY <4>1, <4>2, RecordKept
      <3>3. QED
        BY <3>1, <3>2
    <2>12. Phases'
      BY <1>2, <2>1, <2>5, <2>8, WriteFacts DEF Phases
    <2>13. Memory'
      BY <1>2, <2>1, <2>5, <2>8 DEF Memory
    <2>14. ZonesApart'
      BY <1>2, <2>1, <2>10 DEF ZonesApart
    <2>15. Directory'
      <3>1. \A k \in Cells : /\ itable'[Rec(k).inode] # NoInode
                             /\ itable'[Rec(k).inode].nlink = itable[Rec(k).inode].nlink
        BY <2>1 DEF Directory
      <3>2. QED
        BY <2>3, <2>11, <3>1, DirectoryKept
    <2>16. NewRecord' = NewRecord /\ Need' = Need /\ Done' = Done + d
      <3>1. NewRecord' = NewRecord /\ Need' = Need /\ Done' = l - ((l - e) - d)
        BY <1>1, <2>3a, <2>5 DEF NewRecord, Need, Done
      <3>2. l - ((l - e) - d) = e + d
        BY <2>2, <2>3a
      <3>3. QED
        BY <1>1, <3>1, <3>2
    <2>17. Creating'
      BY <1>2, <2>1, <2>3, <2>5, <2>8, <2>11, <2>16 DEF Creating
    <2>18. ASSUME NEW k \in 0 .. Done' - 1
           PROVE  data'[inode[t].zone[(p + k) \div BS]][(p + k) % BS] = job.buf[k + 1]
      <3>1. PICK n : n = p + k
        OBVIOUS
      <3>2. n \in Nat /\ k \in Nat /\ n < p + l /\ k < e + d /\ p + l \in Nat
        <4>1. k \in 0 .. (e + d) - 1
          BY <1>1, <2>16
        <4>2. QED
          BY <2>2, <2>3a, <3>1, <4>1
      <3>4. n \div BS \in 0 .. Have(t) - 1 /\ n % BS \in 0 .. BS - 1
        <4>1. n \div BS < Need
          BY <1>1, <3>2, InFile DEF Need
        <4>2. Need \in Nat /\ job.cur \in Nat
          BY <1>2, WriteFacts
        <4>3. QED
          <5>1. n \div BS \in Nat /\ n % BS \in 0 .. BS - 1
            BY <3>2, Divide
          <5>2. n \div BS < job.cur
            BY <1>2, <4>1, <4>2, <5>1
          <5>3. QED
            BY <2>3, <4>2, <5>1, <5>2
      <3>5. /\ inode[t].zone[n \div BS] = ZoneOf(t, n \div BS)
            /\ inode[t].zone[n \div BS] \in Zone
        <4>1. inode[t].zone[n \div BS] = ZoneOf(t, n \div BS)
          BY <1>1, <1>2, WriteFacts
        <4>2. ZoneOf(t, n \div BS) \in zmap
          BY <2>3, <3>4 DEF ZonesApart
        <4>3. QED
          BY <4>1, <4>2 DEF Types
      <3>6. CASE n < x
        <4>1. k \in 0 .. e - 1
          BY <2>3a, <3>1, <3>2, <3>6
        <4>2. At(inode[t], n) = job.buf[k + 1]
          BY <1>1, <1>2, <3>1, <4>1 DEF Transferring
        <4>3. data'[inode[t].zone[n \div BS]][n % BS] = data[inode[t].zone[n \div BS]][n % BS]
          <5>1. CASE inode[t].zone[n \div BS] # b
            BY <2>7, <3>5, <5>1
          <5>2. CASE inode[t].zone[n \div BS] = b
            <6>1. n \div BS = q
              BY <2>3, <2>4, <3>4, <3>5, <5>2 DEF ZonesApart
            <6>2. n % BS \notin s .. s + d - 1
              BY <2>2, <2>6, <3>2, <3>6, <6>1
            <6>3. QED
              BY <2>7, <3>4, <5>2, <6>2
          <5>3. QED
            BY <5>1, <5>2
        <4>4. QED
          BY <3>1, <4>2, <4>3 DEF At
      <3>7. CASE n >= x
        <4>1. n \in x .. x + d - 1
          <5>1. /\ n = p + k /\ n \in Nat /\ k \in Nat /\ k < e + d /\ n >= x
                /\ x = p + e /\ p \in Nat /\ e \in Nat /\ d \in Nat
            BY <2>2, <2>3a, <3>1, <3>2, <3>7
          <5>2. n < x + d
            BY <5>1
          <5>3. QED
            BY <5>1, <5>2
        <4>2. n \div BS = q /\ n % BS \in s .. s + d - 1 /\ (n % BS) - s = n - x
          BY <2>6, <3>2, <4>1
        <4>3. data'[b][n % BS] = job.buf[Done + 1 + (n - x)]
          BY <2>7, <3>4, <4>2
        <4>4. e + 1 + (n - x) = k + 1
          BY <2>3a, <3>1, <3>2
        <4>5. QED
          BY <1>1, <3>1, <4>2, <4>3, <4>4
      <3>8. QED
        BY <2>2, <3>2, <3>6, <3>7
    <2>19. Transferring'
      <3>1. /\ job.op = "write" => job.name \in Name /\ t = dentry[job.name]
                                    /\ t = job.inum /\ job.buf \in Buffer
            /\ job.pos <= itable[t].size
            /\ Len(job.buf) >= 1 /\ Len(job.buf) <= BS + 1
            /\ job.cur > Sized(t) => job.cur <= Need
        BY <1>1, <1>2 DEF Transferring
      <3>2. job.left - d <= Len(job.buf) /\ Done + d # 0 /\ Need \in Nat /\ job.cur \in Nat
        <4>1. Need \in Nat /\ job.cur \in Nat
          BY <1>2, WriteFacts
        <4>2. /\ job.left \in Nat /\ Len(job.buf) \in Nat /\ Done \in Nat
              /\ job.left = Len(job.buf) - Done /\ d \in Nat /\ d >= 1 /\ d <= job.left
          BY <2>2, <2>3
        <4>3. QED
          BY ONLY <4>1, <4>2
      <3>3. job.left - d > 0 => /\ q + 1 = (job.pos + Done') \div BS
                                /\ (job.pos + Done') % BS = 0
        <4>1. job.pos + Done' = x + d
          BY <1>1, <2>2, <2>3, <2>16
        <4>2. QED
          BY <2>2, <2>6, <4>1
      <3>4. ~(job'.cur < Need') /\ pc' # "clear"
        BY <1>2, <2>1, <2>5, <2>16, <3>2
      <3>5. Sized(t)' = Sized(t)
        BY <2>3, <2>10
      <3>6. \A k \in 0 .. Done' - 1 : At(inode[job.target], job.pos + k)' = job'.buf[k + 1]
        BY <1>1, <2>1, <2>5, <2>18 DEF At
      <3>7. QED
        BY <1>1, <2>1, <2>3, <2>5, <2>16, <3>1, <3>2, <3>3, <3>4, <3>5, <3>6 DEF Transferring
    <2>20. Dentries'
      BY <2>1, <2>11 DEF Dentries
    <2>21. Exact'
      BY <1>2, <2>1, <2>5, <2>10, <2>11 DEF Exact
    <2>22. ASSUME NEW i \in Inum, NEW n \in 0 .. itable[i].size - 1
           PROVE  At(itable[i], n)' =
                    IF i = t /\ n \in x .. x + d - 1
                    THEN job.buf[n - p + 1] ELSE At(itable[i], n)
      <3>1. PICK z, c, a : z = n \div BS /\ c = n % BS /\ a = itable[i].zone[z]
        OBVIOUS
      <3>2. n \in Nat /\ z \in 0 .. Sized(i) - 1 /\ c \in 0 .. BS - 1
        BY <3>1, CellInside
      <3>3. a \in Zone /\ z \in 0 .. Have(i) - 1 /\ ZoneOf(i, z) = a
        BY <3>1, <3>2, DiskZones
      <3>4. At(itable[i], n) = data[a][c] /\ At(itable[i], n)' = data'[a][c]
        BY <2>1, <3>1 DEF At
      <3>5. CASE a # b
        <4>1. i # t \/ z # q
          BY <2>3, <3>3, <3>5
        <4>2. ~(i = t /\ n \in x .. x + d - 1)
          BY <2>6, <3>1, <4>1
        <4>3. data'[a] = data[a]
          BY <2>7, <3>3, <3>5
        <4>4. QED
          BY <3>4, <4>2, <4>3
      <3>6. CASE a = b
        <4>1. i = t /\ z = q
          BY <2>3, <2>4, <3>3, <3>6 DEF ZonesApart
        <4>2. /\ c \in s .. s + d - 1 <=> n \in x .. x + d - 1
              /\ c - s = n - x
          BY <2>6, <3>1, <3>2, <4>1
        <4>3. CASE n \in x .. x + d - 1
          <5>1. data'[b][c] = job.buf[Done + 1 + (n - x)]
            BY <2>7, <3>2, <4>2, <4>3
          <5>2. e + 1 + (n - x) = n - p + 1
            <6>1. x = p + e /\ p \in Nat /\ e \in Nat /\ n \in Nat
              BY <2>3a, <3>2
            <6>2. QED
              BY ONLY <6>1
          <5>3. QED
            BY <1>1, <3>4, <3>6, <4>1, <4>3, <5>1, <5>2
        <4>4. CASE n \notin x .. x + d - 1
          BY <2>7, <3>2, <3>4, <3>6, <4>2, <4>4
        <4>5. QED
          BY <4>3, <4>4
      <3>7. QED
        BY <3>5, <3>6
    <2>23. Stored
      <3>1. e + d <= l
        BY <2>2, <2>3a
      <3>2. QED
        BY <1>1, <2>1, <2>5, <2>22, <3>1 DEF Stored
    <2>24. QED
      BY <2>9, <2>12, <2>13, <2>14, <2>15, <2>17, <2>19, <2>20, <2>21, <2>23
  <1>5. QED
    BY <1>3, <1>4

LEMMA SizeChanges ==
    \A m \in MemRec, c \in Nat :
        /\ [m EXCEPT !.size = c] \in MemRec /\ [m EXCEPT !.size = c].size = c
        /\ [m EXCEPT !.size = c].refcnt = m.refcnt /\ [m EXCEPT !.size = c].nlink = m.nlink
        /\ [m EXCEPT !.size = c].zone = m.zone
  BY DEF MemRec

\* The end of a write: the size of the target grows to what was stored, and the
\* zones reserved are those of the new size.
NewSize == IF itable[job.target].size < job.pos + Len(job.buf)
           THEN job.pos + Len(job.buf) ELSE itable[job.target].size

LEMMA FinishFacts ==
    ASSUME IInv, FinishWrite, NEW t, t = job.target
    PROVE  /\ Moving /\ ~Moving' /\ ~Making' /\ Mounted' /\ Done = Len(job.buf)
           /\ UNCHANGED <<magic, imap, zmap, data, dentry, crashes, leaky, torn>>
           /\ inode' \in [Inum -> MemRec \cup {NoInode}]
           /\ itable' \in [Inum -> DiskRec \cup {NoInode}]
           /\ inode'[t] # NoInode /\ itable'[t] # NoInode
           /\ inode'[t].size = NewSize /\ itable'[t].size = NewSize
           /\ inode'[t].nlink = itable[t].nlink /\ itable'[t].nlink = itable[t].nlink
           /\ inode'[t].zone = itable'[t].zone /\ inode'[t].refcnt = inode[t].refcnt
           /\ \A i \in Inum \ {t} : inode'[i] = inode[i] /\ itable'[i] = itable[i]
           /\ \A i \in Inum : Have(i)' = Have(i) /\ Sized(i)' = Have(i)
           /\ \A i \in Inum : \A z : ZoneOf(i, z)' = ZoneOf(i, z)
           /\ \A i \in Inum : \A z : ZoneOf(i, z)' = itable'[i].zone[z]
           /\ Memory' /\ ZonesApart'
           /\ \A k \in Cells : Rec(k)' = Rec(k)
  <1> USE DEF IInv
  <1>1. /\ pc = "write" /\ Moving /\ job.cur >= Need /\ job.left = 0
        /\ UNCHANGED <<magic, imap, zmap, data, dentry, crashes, leaky, torn>>
        /\ pc' \in {"link directory", "idle"}
    BY DEF FinishWrite, Moving, history
  <1>2. ~Moving' /\ ~Making' /\ Mounted'
    BY <1>1 DEF Making, Mounted, Moving
  <1>3. /\ t \in Inum /\ job.pos \in Nat /\ Len(job.buf) \in Nat /\ job.cur \in Nat
        /\ Need \in Nat /\ Done = Len(job.buf) /\ inode[t] \in MemRec /\ inode[t] # NoInode
        /\ itable[t].size \in Nat /\ inode[t].size = itable[t].size /\ itable[t] # NoInode
        /\ Sized(t) \in Nat /\ Sized(t) <= job.cur /\ Have(t) = job.cur
    <2>1. /\ job.target \in Inum /\ job.pos \in Nat /\ Len(job.buf) \in Nat /\ job.cur \in Nat
          /\ Need \in Nat /\ inode[job.target] \in MemRec /\ inode[job.target] # NoInode
          /\ itable[job.target].size \in Nat
          /\ inode[job.target].size = itable[job.target].size /\ itable[job.target] # NoInode
          /\ Have(job.target) = job.cur /\ job.left = Len(job.buf) - Done /\ Done \in Nat
      BY <1>1, WriteFacts
    <2>2. Sized(job.target) \in Nat /\ Sized(job.target) <= Have(job.target)
      BY <1>1, <2>1, WriteFacts
    <2>3. Done = Len(job.buf)
      <3> HIDE DEF IInv
      <3>1. \A l \in Nat : l - 0 = l
        OBVIOUS
      <3>2. QED
        BY <1>1, <2>1, <3>1 DEF Done
    <2>4. QED
      BY <2>1, <2>2, <2>3
  <1>4. NewSize \in Nat /\ job.pos + Len(job.buf) \in Nat
    BY <1>3 DEF NewSize
  <1>5. Ceil(NewSize) = job.cur
    <2>1. /\ job.cur > Sized(t) => job.cur <= Need
          /\ Need <= job.cur /\ Sized(t) <= job.cur
          /\ Need \in Nat /\ job.cur \in Nat /\ Sized(t) \in Nat
      BY <1>1, <1>3 DEF Transferring
    <2>2. Need = Ceil(job.pos + Len(job.buf)) /\ Sized(t) = Ceil(itable[t].size)
      BY DEF Need, Sized
    <2>3. CASE itable[t].size < job.pos + Len(job.buf)
      <3>1. Sized(t) <= Need
        BY <1>3, <1>4, <2>2, <2>3, CeilOrder
      <3>2. Need = job.cur
        BY <2>1, <3>1
      <3>3. QED
        BY <2>2, <2>3, <3>2 DEF NewSize
    <2>4. CASE ~(itable[t].size < job.pos + Len(job.buf))
      <3>1. job.pos + Len(job.buf) <= itable[t].size
        BY <1>3, <1>4, <2>4
      <3>2. Need <= Sized(t)
        BY <1>3, <1>4, <2>2, <3>1, CeilOrder
      <3>3. Sized(t) = job.cur
        BY <2>1, <3>2
      <3>4. QED
        BY <2>2, <2>4, <3>3 DEF NewSize
    <2>5. QED
      BY <2>3, <2>4
  <1>6. PICK v : v = [inode[t] EXCEPT !.size = NewSize]
    OBVIOUS
  <1>7. /\ v \in MemRec /\ v.size = NewSize /\ v.nlink = itable[t].nlink
        /\ v.zone = inode[t].zone /\ v.refcnt = inode[t].refcnt
    <2>1. inode[t].nlink = itable[t].nlink
      BY <1>3 DEF Memory
    <2>2. QED
      BY <1>3, <1>4, <1>6, <2>1, SizeChanges
  <1>8. WriteInode(t, v)
    <2>1. v = [inode[t] EXCEPT !.size = IF inode[t].size < job.pos + Len(job.buf)
                                 THEN job.pos + Len(job.buf) ELSE inode[t].size]
      BY <1>3, <1>6 DEF NewSize
    <2>2. QED
      BY <2>1 DEF FinishWrite, target
  <1>9. /\ inode' \in [Inum -> MemRec \cup {NoInode}]
        /\ itable' \in [Inum -> DiskRec \cup {NoInode}]
        /\ inode'[t] = v /\ v # NoInode
        /\ itable'[t] # NoInode /\ itable'[t].size = v.size
        /\ itable'[t].nlink = v.nlink /\ itable'[t].zone = v.zone
        /\ \A i \in Inum \ {t} : inode'[i] = inode[i] /\ itable'[i] = itable[i]
    BY <1>3, <1>7, <1>8, InodeWritten
  <1>10. /\ \A i \in Inum \ {t} : Sized(i)' = Sized(i) /\ Have(i)' = Sized(i) /\ Have(i) = Sized(i)
         /\ Sized(t)' = job.cur /\ Have(t)' = job.cur
    <2>1. \A i \in Inum : Have(i)' = Sized(i)'
      BY <1>2 DEF Have
    <2>2. \A i \in Inum \ {t} : Sized(i)' = Sized(i) /\ Have(i) = Sized(i)
      BY <1>1, <1>9, WriteFacts DEF Sized
    <2>3. Sized(t)' = job.cur
      BY <1>5, <1>7, <1>9 DEF Sized
    <2>4. QED
      BY <1>3, <2>1, <2>2, <2>3
  <1>11. \A i \in Inum : Have(i)' = Have(i) /\ Sized(i)' = Have(i)
    BY <1>3, <1>10
  <1>12. /\ \A i \in Inum : \A z : ZoneOf(i, z)' = itable'[i].zone[z]
         /\ \A i \in Inum : \A z : ZoneOf(i, z)' = ZoneOf(i, z)
    <2>1. \A i \in Inum : \A z : ZoneOf(i, z)' = itable'[i].zone[z]
      BY <1>2 DEF ZoneOf
    <2>2. ASSUME NEW i \in Inum \ {t}, NEW z PROVE ZoneOf(i, z)' = ZoneOf(i, z)
      <3>1. ZoneOf(i, z) = itable[i].zone[z]
        BY <1>1, WriteFacts
      <3>2. QED
        BY <1>9, <2>1, <3>1
    <2>3. ASSUME NEW z PROVE ZoneOf(t, z)' = ZoneOf(t, z)
      <3>1. ZoneOf(t, z) = inode[t].zone[z]
        BY <1>1, WriteFacts
      <3>2. QED
        BY <1>3, <1>7, <1>9, <2>1, <3>1
    <2>4. QED
      BY <2>1, <2>2, <2>3
  <1>13. Memory'
    <2>1. \A i \in Inum : itable'[i] # NoInode => i \in imap'
      BY <1>1, <1>3, <1>9 DEF Memory
    <2>2. ASSUME NEW i \in Inum, inode'[i] # NoInode
          PROVE  /\ itable'[i] # NoInode
                 /\ inode'[i].size = itable'[i].size /\ inode'[i].nlink = itable'[i].nlink
                 /\ inode'[i].zone = itable'[i].zone
      <3>1. CASE i = t
        BY <1>9, <3>1
      <3>2. CASE i # t
        BY <1>9, <2>2, <3>2 DEF Memory
      <3>3. QED
        BY <3>1, <3>2
    <2>3. QED
      BY <2>1, <2>2 DEF Memory
  <1>14. ZonesApart'
    <2>1. \A i \in Inum : Sized(i)' <= Have(i)' /\ Have(i)' <= NR_DIRECT
      <3>1. \A i \in Inum : Have(i) \in Nat /\ Have(i) <= NR_DIRECT
        BY Sizes DEF ZonesApart
      <3>2. QED
        BY <1>11, <3>1
    <2>2. \A i \in Inum : \A z \in 0 .. Have(i)' - 1 : ZoneOf(i, z)' \in zmap'
      <3>1. \A i \in Inum : \A z \in 0 .. Have(i) - 1 : ZoneOf(i, z) \in zmap
        BY DEF ZonesApart
      <3> HIDE DEF IInv
      <3>2. QED
        BY <1>1, <1>11, <1>12, <3>1
    <2>3. \A i, j \in Inum : \A y \in 0 .. Have(i)' - 1, z \in 0 .. Have(j)' - 1 :
            ZoneOf(i, y)' = ZoneOf(j, z)' => i = j /\ y = z
      BY <1>11, <1>12 DEF ZonesApart
    <2>4. pc' # "clear"
      BY <1>1
    <2>5. QED
      BY <1>12, <2>1, <2>2, <2>3, <2>4 DEF ZonesApart
  <1>15. \A k \in Cells : Rec(k)' = Rec(k)
    <2> SUFFICES ASSUME NEW k \in Cells PROVE Rec(k)' = Rec(k)
      OBVIOUS
    <2>1. \A z \in 0 .. Sized(1) - 1 : itable'[1].zone[z] = itable[1].zone[z]
      BY <1>12, Constants, DiskZones
    <2>2. \A z \in 0 .. Sized(1) - 1 : \A c \in 0 .. BS - 1 :
               z = k \div BS /\ c = k % BS =>
                   data'[itable[1].zone[z]][c] = data[itable[1].zone[z]][c]
      BY <1>1
    <2>3. QED
      BY <2>1, <2>2, RecordKept
  <1>16. QED
    BY <1>1, <1>2, <1>3, <1>7, <1>9, <1>11, <1>12, <1>13, <1>14, <1>15

\* sys_write returns: the target is a file, so the directory is as it was.
LEMMA FinishFileKeepsIInv == ASSUME IInv, FinishWrite, job.op # "create" PROVE IInv'
  <1> USE DEF IInv
  <1>1. PICK t : t = job.target
    OBVIOUS
  <1>2. /\ Moving /\ ~Moving' /\ ~Making' /\ Mounted' /\ Done = Len(job.buf)
        /\ UNCHANGED <<magic, imap, zmap, data, dentry, crashes, leaky, torn>>
        /\ inode' \in [Inum -> MemRec \cup {NoInode}]
        /\ itable' \in [Inum -> DiskRec \cup {NoInode}]
        /\ inode'[t] # NoInode /\ itable'[t] # NoInode
        /\ inode'[t].size = NewSize /\ itable'[t].size = NewSize
        /\ inode'[t].nlink = itable[t].nlink /\ itable'[t].nlink = itable[t].nlink
        /\ inode'[t].zone = itable'[t].zone /\ inode'[t].refcnt = inode[t].refcnt
        /\ \A i \in Inum \ {t} : inode'[i] = inode[i] /\ itable'[i] = itable[i]
        /\ \A i \in Inum : Have(i)' = Have(i) /\ Sized(i)' = Have(i)
        /\ \A i \in Inum : \A z : ZoneOf(i, z)' = ZoneOf(i, z)
        /\ \A i \in Inum : \A z : ZoneOf(i, z)' = itable'[i].zone[z]
        /\ Memory' /\ ZonesApart'
        /\ \A k \in Cells : Rec(k)' = Rec(k)
    BY <1>1, FinishFacts
  <1>3. /\ pc' = "idle" /\ job' = NoJob /\ ~Calling' /\ ~Linking' /\ t # 1
        /\ ~Linking /\ t \in Inum /\ inode[t] # NoInode /\ itable[t] # NoInode
        /\ itable[1] # NoInode /\ Mounted
    <2>1. pc' = "idle" /\ job' = NoJob
      BY DEF FinishWrite
    <2>2. t # 1
      BY <1>1, <1>2, DirectoryGrows
    <2>3. ~Calling' /\ ~Linking'
      BY <2>1 DEF Calling, Moving, Linking
    <2>4. QED
      BY <1>1, <1>2, <2>1, <2>2, <2>3, WriteFacts
  <1>4. itable'[1] = itable[1] /\ inode'[1] = inode[1] /\ Cells' = Cells
    <2>1. itable'[1] = itable[1] /\ inode'[1] = inode[1]
      BY <1>2, <1>3, Constants
    <2>2. QED
      BY <2>1 DEF Cells
  <1>5. Types'
    BY <1>2, <1>3, NoJobFields DEF Types, Pcs
  <1>6. Phases'
    <2>1. magic /\ inode[1] # NoInode
      BY <1>3 DEF Phases
    <2>2. QED
      BY <1>2, <1>3, <1>4, <2>1 DEF Phases
  <1>7. \A i \in Inum : /\ (itable'[i] # NoInode <=> itable[i] # NoInode)
                        /\ (inode'[i] # NoInode <=> inode[i] # NoInode)
                        /\ itable'[i].nlink = itable[i].nlink
                        /\ inode'[i].refcnt = inode[i].refcnt
    BY <1>2, <1>3
  <1>8. Directory'
    <2>1. \A k \in Cells : /\ itable'[Rec(k).inode] # NoInode
                           /\ itable'[Rec(k).inode].nlink = itable[Rec(k).inode].nlink
      BY <1>7, EntryTypes DEF Directory
    <2>2. QED
      BY <1>2, <1>3, <1>4, <2>1, DirectoryKept
  <1>9. Creating' /\ Transferring'
    BY <1>2, <1>3, NoJobFields DEF Creating, Transferring
  <1>10. Dentries'
    <2>1. \A n \in Name : dentry[n] \in Inum \cup {0}
      BY DEF Types
    <2>2. QED
      BY <1>2, <1>4, <1>7, <2>1 DEF Dentries
  <1>11. Exact'
    <2>1. imap \subseteq Inum /\ pc \notin {"inode", "clear"} /\ pc' # "clear"
      BY <1>3 DEF Types, FinishWrite
    <2>2. QED
      BY <1>2, <1>3, <1>4, <1>7, <2>1 DEF Exact
  <1>12. QED
    BY <1>2, <1>5, <1>6, <1>8, <1>9, <1>10, <1>11

\* The record of the name that is being made is the last of the directory.
LEMMA FinishRecordKeepsIInv ==
    ASSUME IInv, FinishWrite, job.op = "create"
    PROVE  IInv' /\ \A s : s = itable[1].size => Rec(s)' = NewRecord
  <1> USE DEF IInv
  <1>1. PICK t : t = job.target
    OBVIOUS
  <1>2. /\ Moving /\ ~Moving' /\ ~Making' /\ Mounted' /\ Done = Len(job.buf)
        /\ UNCHANGED <<magic, imap, zmap, data, dentry, crashes, leaky, torn>>
        /\ inode' \in [Inum -> MemRec \cup {NoInode}]
        /\ itable' \in [Inum -> DiskRec \cup {NoInode}]
        /\ inode'[t] # NoInode /\ itable'[t] # NoInode
        /\ inode'[t].size = NewSize /\ itable'[t].size = NewSize
        /\ inode'[t].nlink = itable[t].nlink /\ itable'[t].nlink = itable[t].nlink
        /\ inode'[t].zone = itable'[t].zone /\ inode'[t].refcnt = inode[t].refcnt
        /\ \A i \in Inum \ {t} : inode'[i] = inode[i] /\ itable'[i] = itable[i]
        /\ \A i \in Inum : Have(i)' = Have(i) /\ Sized(i)' = Have(i)
        /\ \A i \in Inum : \A z : ZoneOf(i, z)' = ZoneOf(i, z)
        /\ \A i \in Inum : \A z : ZoneOf(i, z)' = itable'[i].zone[z]
        /\ Memory' /\ ZonesApart'
        /\ \A k \in Cells : Rec(k)' = Rec(k)
    BY <1>1, FinishFacts
  <1>3. /\ pc' = "link directory" /\ job' = job /\ Calling' /\ Linking' /\ ~Linking
        /\ pc = "write"
    BY DEF FinishWrite, Calling, Moving, Linking
  <1>4. /\ t = 1 /\ job.pos = itable[1].size /\ job.buf = << NewRecord >>
        /\ job.name \in Name /\ dentry[job.name] = 0 /\ job.inum \in Inum \ {1}
        /\ job.inum \in imap /\ inode[job.inum] # NoInode /\ itable[job.inum].size = 0
        /\ inode[job.inum].refcnt = 1
        /\ \A k \in Cells : Rec(k).name # job.name /\ Rec(k).inode # job.inum
    BY <1>1, <1>2, <1>3 DEF Creating, Types
  <1>5. itable[1].size \in Nat /\ itable[1] # NoInode /\ inode[1] # NoInode
    BY <1>1, <1>2, <1>4, Constants, WriteFacts
  <1>6. NewSize = itable[1].size + 1 /\ Done = 1
    <2>1. Len(job.buf) = 1
      BY <1>4
    <2>2. QED
      BY <1>1, <1>2, <1>4, <1>5, <2>1 DEF NewSize
  <1>7. PICK s : s = itable[1].size
    OBVIOUS
  <1>8. Cells' = Cells \cup {s} /\ s \notin Cells /\ s \in Nat
    BY <1>2, <1>4, <1>5, <1>6, <1>7 DEF Cells
  <1>9. Rec(s)' = NewRecord
    <2>1. 0 \in 0 .. Done - 1 /\ job.pos + 0 = s /\ job.buf[0 + 1] = NewRecord
      BY <1>4, <1>5, <1>6, <1>7
    <2>2. At(inode[job.target], job.pos + 0) = job.buf[0 + 1]
      BY <1>2, <2>1 DEF Transferring
    <2>3. At(inode[1], s) = NewRecord
      BY <1>1, <1>4, <2>1, <2>2
    <2>4. itable'[1].zone[s \div BS] = inode[1].zone[s \div BS]
      BY <1>1, <1>2, <1>4, Constants, WriteFacts
    <2>5. QED
      BY <1>2, <2>3, <2>4 DEF Rec, At
  <1>10. Types'
    BY <1>2, <1>3 DEF Types, Pcs
  <1>11. Phases'
    <2>1. magic
      BY <1>5 DEF Phases
    <2>2. QED
      BY <1>2, <1>3, <1>4, <2>1 DEF Phases
  <1>12. \A i \in Inum : /\ (itable'[i] # NoInode <=> itable[i] # NoInode)
                         /\ (inode'[i] # NoInode <=> inode[i] # NoInode)
                         /\ itable'[i].nlink = itable[i].nlink
                         /\ inode'[i].refcnt = inode[i].refcnt
    BY <1>2, <1>4, <1>5
  <1>13. NewRecord \in Entry /\ NewRecord.name = job.name /\ NewRecord.inode = job.inum
         /\ itable[job.inum] # NoInode
    BY <1>4 DEF NewRecord, Entry, Memory
  <1>14. Directory'
    <2>1. ASSUME NEW k \in Cells'
          PROVE  /\ Rec(k)' \in Entry /\ Rec(k)'.inode # 1
                 /\ itable'[Rec(k)'.inode] # NoInode
                 /\ itable'[Rec(k)'.inode].nlink = 0 =>
                        /\ Linking' /\ job'.inum = Rec(k)'.inode
                        /\ job'.name = Rec(k)'.name
      <3>1. CASE k = s
        BY <1>3, <1>4, <1>9, <1>12, <1>13, <3>1
      <3>2. CASE k # s
        <4>1. k \in Cells /\ Rec(k)' = Rec(k) /\ Rec(k).inode \in Inum
          BY <1>2, <1>8, <3>2, EntryTypes
        <4>2. QED
          BY <1>3, <1>12, <4>1 DEF Directory
      <3>3. QED
        BY <3>1, <3>2
    <2>2. ASSUME NEW k \in Cells', NEW l \in Cells',
                 Rec(k)'.name = Rec(l)'.name \/ Rec(k)'.inode = Rec(l)'.inode
          PROVE  k = l
      <3>1. CASE k = s
        BY <1>2, <1>4, <1>8, <1>9, <1>13, <2>2, <3>1
      <3>2. CASE l = s
        BY <1>2, <1>4, <1>8, <1>9, <1>13, <2>2, <3>2
      <3>3. CASE k # s /\ l # s
        <4>1. k \in Cells /\ l \in Cells /\ Rec(k)' = Rec(k) /\ Rec(l)' = Rec(l)
          BY <1>2, <1>8, <3>3
        <4>2. QED
          BY <2>2, <4>1 DEF Directory
      <3>4. QED
        BY <3>1, <3>2, <3>3
    <2>3. QED
      BY <2>1, <2>2 DEF Directory
  <1>15. NewRecord' = NewRecord
    BY <1>3 DEF NewRecord
  <1>16. Creating'
    <2>1. itable'[job.inum].size = 0
      BY <1>2, <1>4
    <2>2. QED
      BY <1>2, <1>3, <1>4, <1>8, <1>9, <1>12, <1>15, <2>1 DEF Creating
  <1>17. Transferring'
    BY <1>2 DEF Transferring
  <1>18. Dentries'
    <2>1. \A n \in Name : dentry[n] \in Inum \cup {0}
      BY DEF Types
    <2>2. QED
      BY <1>2, <1>8, <1>12, <2>1 DEF Dentries
  <1>19. Exact'
    <2>1. imap \subseteq Inum /\ pc \notin {"inode", "clear"} /\ pc' # "clear"
      BY <1>3 DEF Types
    <2>2. ASSUME ~leaky
          PROVE  /\ \A i \in imap : itable[i] # NoInode
                 /\ \A i \in Inum \ {1} : itable[i] # NoInode =>
                        (\E k \in Cells : Rec(k).inode = i) \/ i = job.inum
                 /\ \A b \in zmap : \E i \in Inum : \E z \in 0 .. Have(i) - 1 : ZoneOf(i, z) = b
      BY <1>5, <2>1, <2>2 DEF Exact
    <2>3. ASSUME ~leaky'
          PROVE  /\ \A i \in imap' : itable'[i] # NoInode
                 /\ \A i \in Inum \ {1} : itable'[i] # NoInode =>
                        (\E k \in Cells' : Rec(k)'.inode = i) \/ i = job'.inum
      <3>0. ~leaky /\ imap' = imap /\ job' = job
        BY <1>2, <1>3, <2>3
      <3>1. \A i \in imap' : itable'[i] # NoInode
        BY <1>12, <2>1, <2>2, <3>0
      <3>2. ASSUME NEW i \in Inum \ {1}, itable'[i] # NoInode, i # job.inum
            PROVE  \E k \in Cells' : Rec(k)'.inode = i
        <4>1. PICK k \in Cells : Rec(k).inode = i
          BY <1>12, <2>2, <3>0, <3>2
        <4>2. k \in Cells' /\ Rec(k)' = Rec(k)
          BY <1>2, <1>8
        <4>3. QED
          BY <4>1, <4>2
      <3>3. QED
        BY <3>0, <3>1, <3>2
    <2>4. ASSUME ~leaky'
          PROVE  \A b \in zmap' : \E i \in Inum : \E z \in 0 .. Have(i)' - 1 : ZoneOf(i, z)' = b
      BY <1>2, <2>2, <2>4
    <2>5. QED
      BY <1>3, <2>3, <2>4 DEF Exact
  <1>20. \A c : c = itable[1].size => Rec(c)' = NewRecord
    BY <1>7, <1>9
  <1>21. QED
    BY <1>2, <1>10, <1>11, <1>14, <1>16, <1>17, <1>18, <1>19, <1>20

\* An inode whose counts change keeps its place, and its cells.
LEMMA CountsWritten ==
    ASSUME IInv, NEW i \in Inum, NEW l \in Nat, NEW c \in Nat, inode[i] # NoInode,
           WriteInode(i, [inode[i] EXCEPT !.nlink = l, !.refcnt = c]),
           ~Moving, ~Moving', Types', UNCHANGED <<imap, zmap, data>>
    PROVE  /\ inode'[i] # NoInode /\ inode'[i].refcnt = c
           /\ itable'[i] # NoInode /\ itable'[i].nlink = l
           /\ itable'[i].size = itable[i].size
           /\ \A j \in Inum \ {i} : inode'[j] = inode[j] /\ itable'[j] = itable[j]
           /\ \A j \in Inum : Have(j)' = Have(j)
           /\ \A j \in Inum : \A z : ZoneOf(j, z)' = ZoneOf(j, z)
           /\ Memory' /\ ZonesApart' /\ Cells' = Cells
           /\ \A k \in Cells : Rec(k)' = Rec(k)
  <1> USE DEF IInv
  <1>1. PICK v : v = [inode[i] EXCEPT !.nlink = l, !.refcnt = c]
    OBVIOUS
  <1>2. PICK m : m = inode[i]
    OBVIOUS
  <1>3. /\ v \in MemRec /\ v.size = inode[i].size /\ v.zone = inode[i].zone /\ v.nlink = l
        /\ v.refcnt = c
    <2>1. m \in MemRec /\ v = [m EXCEPT !.nlink = l, !.refcnt = c]
      BY <1>1, <1>2, Slots
    <2>2. v \in MemRec /\ v.size = m.size /\ v.zone = m.zone /\ v.nlink = l /\ v.refcnt = c
      BY <2>1 DEF MemRec
    <2>3. QED
      BY <1>2, <2>2
  <1>4. WriteInode(i, v)
    BY <1>1
  <1>5. /\ inode'[i] = v /\ v # NoInode
        /\ itable'[i] # NoInode /\ itable'[i].size = v.size
        /\ itable'[i].nlink = v.nlink /\ itable'[i].zone = v.zone
        /\ \A j \in Inum \ {i} : inode'[j] = inode[j] /\ itable'[j] = itable[j]
    BY <1>3, <1>4, InodeWritten
  <1>6. /\ itable[i] # NoInode /\ inode[i].size = itable[i].size
        /\ inode[i].zone = itable[i].zone
    BY DEF Memory
  <1>7. \A j \in Inum : itable'[j].size = itable[j].size /\ itable'[j].zone = itable[j].zone
    BY <1>3, <1>5, <1>6
  <1>8. /\ \A j \in Inum : Sized(j)' = Sized(j) /\ Have(j)' = Have(j)
        /\ \A j \in Inum : \A z : ZoneOf(j, z)' = ZoneOf(j, z)
    BY <1>7 DEF Sized, Have, ZoneOf
  <1>9. ZonesApart'
    <2>1. \A j \in Inum : Sized(j) \in Nat /\ Have(j) \in Nat /\ Sized(j) <= Have(j)
      BY Sizes DEF ZonesApart
    <2>2. \A j \in Inum : Sized(j)' = Sized(j) /\ Sized(j)' <= Have(j)' /\ Have(j)' <= Have(j)
      BY <1>8, <2>1
    <2>3. \A j \in Inum : \A z \in 0 .. Have(j)' - 1 : ZoneOf(j, z)' = ZoneOf(j, z)
      BY <1>8
    <2>4. \A j \in Inum : \A z \in 0 .. Sized(j) - 1 : itable'[j].zone[z] = itable[j].zone[z]
      BY <1>7
    <2>5. pc' # "clear" /\ zmap \subseteq zmap'
      BY DEF Moving
    <2>6. QED
      BY <2>2, <2>3, <2>4, <2>5, ZonesKept
  <1>10. Memory'
    <2>1. \A j \in Inum : itable'[j] # NoInode => j \in imap'
      BY <1>5, <1>6 DEF Memory
    <2>2. ASSUME NEW j \in Inum, inode'[j] # NoInode
          PROVE  /\ itable'[j] # NoInode
                 /\ inode'[j].size = itable'[j].size /\ inode'[j].nlink = itable'[j].nlink
                 /\ inode'[j].zone = itable'[j].zone
      <3>1. CASE j = i
        BY <1>5, <3>1
      <3>2. CASE j # i
        BY <1>5, <2>2, <3>2 DEF Memory
      <3>3. QED
        BY <3>1, <3>2
    <2>3. QED
      BY <2>1, <2>2 DEF Memory
  <1>11. Cells' = Cells /\ \A k \in Cells : Rec(k)' = Rec(k)
    <2>1. itable'[1].size = itable[1].size /\ itable'[1].zone = itable[1].zone
      BY <1>7, Constants
    <2>2. QED
      BY <2>1 DEF Cells, Rec, At
  <1>12. QED
    BY <1>3, <1>5, <1>7, <1>8, <1>9, <1>10, <1>11

LEMMA LinkTypes ==
    ASSUME Types, NEW i \in Inum, NEW l \in Nat, NEW c \in Nat, inode[i] # NoInode,
           WriteInode(i, [inode[i] EXCEPT !.nlink = l, !.refcnt = c])
    PROVE  /\ inode' \in [Inum -> MemRec \cup {NoInode}]
           /\ itable' \in [Inum -> DiskRec \cup {NoInode}]
  <1>1. PICK v : v = [inode[i] EXCEPT !.nlink = l, !.refcnt = c]
    OBVIOUS
  <1>2. v \in MemRec /\ WriteInode(i, v)
    <2>1. PICK m : m = inode[i]
      OBVIOUS
    <2>2. m \in MemRec /\ v = [m EXCEPT !.nlink = l, !.refcnt = c]
      BY <1>1, <2>1, Slots
    <2>3. v \in MemRec
      BY <2>2 DEF MemRec
    <2>4. QED
      BY <1>1, <2>3
  <1>3. QED
    BY <1>2, InodeWritten

LEMMA LinkDirectoryKeepsIInv == ASSUME IInv, LinkDirectory PROVE IInv'
  <1> USE DEF IInv
  <1>1. /\ pc = "link directory" /\ pc' = "link"
        /\ UNCHANGED <<magic, imap, zmap, data, dentry, job, crashes, leaky, torn>>
    BY DEF LinkDirectory, history
  <1>2. /\ ~Making /\ ~Making' /\ ~Moving /\ ~Moving' /\ Mounted /\ Mounted'
        /\ Calling /\ Calling' /\ Linking /\ Linking' /\ job.op = "create"
    BY <1>1 DEF Phases, Making, Mounted, Calling, Moving, Linking
  <1>3. /\ inode[1] # NoInode /\ inode[1] \in MemRec /\ 1 \in Inum /\ itable[1] # NoInode
    BY <1>2, Constants, Slots DEF Phases, Memory
  <1>4. PICK l, c : l = inode[1].nlink + 1 /\ c = inode[1].refcnt
    OBVIOUS
  <1>5. l \in Nat /\ c \in Nat
    BY <1>3, <1>4, FieldTypes
  <1>6. WriteInode(1, [inode[1] EXCEPT !.nlink = l, !.refcnt = c])
    <2>1. [inode[1] EXCEPT !.nlink = l, !.refcnt = c] = [inode[1] EXCEPT !.nlink = @ + 1]
      BY <1>3, <1>4 DEF MemRec
    <2>2. QED
      BY <2>1 DEF LinkDirectory
  <1>7. Types'
    <2>1. /\ inode' \in [Inum -> MemRec \cup {NoInode}]
          /\ itable' \in [Inum -> DiskRec \cup {NoInode}]
      BY <1>3, <1>5, <1>6, LinkTypes
    <2>2. QED
      BY <1>1, <2>1 DEF Types, Pcs
  <1>8. /\ inode'[1] # NoInode /\ inode'[1].refcnt = c
        /\ itable'[1] # NoInode /\ itable'[1].nlink = l
        /\ itable'[1].size = itable[1].size
        /\ \A j \in Inum \ {1} : inode'[j] = inode[j] /\ itable'[j] = itable[j]
        /\ \A j \in Inum : Have(j)' = Have(j)
        /\ \A j \in Inum : \A z : ZoneOf(j, z)' = ZoneOf(j, z)
        /\ Memory' /\ ZonesApart' /\ Cells' = Cells
        /\ \A k \in Cells : Rec(k)' = Rec(k)
    <2>1. UNCHANGED <<imap, zmap, data>>
      BY <1>1
    <2>2. QED
      BY <1>2, <1>3, <1>5, <1>6, <1>7, <2>1, CountsWritten
  <1>9. Phases'
    <2>1. magic
      BY <1>3 DEF Phases
    <2>2. QED
      BY <1>1, <1>2, <1>8, <2>1 DEF Phases
  <1>10. Directory'
    <2>1. \A k \in Cells : /\ itable'[Rec(k).inode] # NoInode
                           /\ itable'[Rec(k).inode].nlink = itable[Rec(k).inode].nlink
      BY <1>8, EntryTypes DEF Directory
    <2>2. QED
      BY <1>1, <1>2, <1>8, <2>1, DirectoryKept
  <1>11. Creating'
    <2>1. /\ job.inum \in Inum \ {1} /\ NewRecord' = NewRecord
      BY <1>1, <1>2 DEF Creating, Types, NewRecord
    <2>2. QED
      BY <1>1, <1>2, <1>8, <2>1 DEF Creating
  <1>12. Transferring'
    BY <1>2 DEF Transferring
  <1>13. Dentries'
    <2> SUFFICES ASSUME NEW n \in Name, dentry[n] # 0
                 PROVE  /\ inode'[dentry[n]] # NoInode /\ inode'[dentry[n]].refcnt >= 2
                        /\ \E k \in Cells : Rec(k) = [name |-> n, inode |-> dentry[n]]
      BY <1>1, <1>8 DEF Dentries
    <2>1. /\ inode[dentry[n]] # NoInode /\ inode[dentry[n]].refcnt >= 2
          /\ \E k \in Cells : Rec(k) = [name |-> n, inode |-> dentry[n]]
          /\ dentry[n] \in Inum
      BY DEF Dentries, Types
    <2>2. QED
      BY <1>4, <1>8, <2>1
  <1>14. Exact'
    <2>1. \A j \in Inum : itable'[j] # NoInode <=> itable[j] # NoInode
      BY <1>3, <1>8
    <2>2. imap \subseteq Inum
      BY DEF Types
    <2>3. ASSUME ~leaky
          PROVE  /\ \A j \in imap : itable[j] # NoInode
                 /\ \A j \in Inum \ {1} : itable[j] # NoInode =>
                     \/ \E k \in Cells : Rec(k).inode = j
                     \/ job.op = "create" /\ j = job.inum
                 /\ \A b \in zmap : \E j \in Inum : \E z \in 0 .. Have(j) - 1 : ZoneOf(j, z) = b
      BY <1>1, <1>3, <2>3 DEF Exact
    <2>4. ASSUME ~leaky
          PROVE  \A j \in imap : itable'[j] # NoInode
      BY <2>1, <2>2, <2>3, <2>4
    <2>5. ASSUME ~leaky
          PROVE  \A j \in Inum \ {1} : itable'[j] # NoInode =>
                     \/ \E k \in Cells' : Rec(k)'.inode = j
                     \/ job.op = "create" /\ j = job.inum
      <3> SUFFICES ASSUME NEW j \in Inum \ {1}, itable'[j] # NoInode,
                          ~(job.op = "create" /\ j = job.inum)
                   PROVE  \E k \in Cells' : Rec(k)'.inode = j
        OBVIOUS
      <3>1. PICK k \in Cells : Rec(k).inode = j
        BY <2>1, <2>3, <2>5
      <3>2. k \in Cells' /\ Rec(k)' = Rec(k)
        BY <1>8
      <3>3. QED
        BY <3>1, <3>2
    <2>6. ASSUME ~leaky
          PROVE  \A b \in zmap : \E j \in Inum : \E z \in 0 .. Have(j)' - 1 : ZoneOf(j, z)' = b
      <3> SUFFICES ASSUME NEW b \in zmap
                   PROVE  \E j \in Inum : \E z \in 0 .. Have(j)' - 1 : ZoneOf(j, z)' = b
        OBVIOUS
      <3>1. PICK j \in Inum : \E z \in 0 .. Have(j) - 1 : ZoneOf(j, z) = b
        BY <2>3, <2>6
      <3>2. Have(j)' = Have(j) /\ \A z : ZoneOf(j, z)' = ZoneOf(j, z)
        BY <1>8
      <3>3. QED
        BY <3>1, <3>2
    <2>7. QED
      BY <1>1, <2>4, <2>5, <2>6 DEF Exact
  <1>15. QED
    BY <1>7, <1>8, <1>9, <1>10, <1>11, <1>12, <1>13, <1>14

\* The name has its dentry, and its inode a link.
LEMMA LinkKeepsIInv == ASSUME IInv, Link PROVE IInv'
  <1> USE DEF IInv
  <1>1. PICK i, n : i = job.inum /\ n = job.name
    OBVIOUS
  <1>2. /\ pc = "link" /\ pc' = "idle" /\ job' = NoJob
        /\ UNCHANGED <<magic, imap, zmap, data, crashes, leaky, torn>>
        /\ dentry' = [dentry EXCEPT ![n] = i]
    BY <1>1 DEF Link, history
  <1>3. /\ ~Making /\ ~Making' /\ ~Moving /\ ~Moving' /\ Mounted /\ Mounted'
        /\ Calling /\ ~Calling' /\ Linking /\ ~Linking' /\ job.op = "create"
    BY <1>2 DEF Phases, Making, Mounted, Calling, Moving, Linking
  <1>4. /\ n \in Name /\ i \in Inum \ {1} /\ inode[i] # NoInode /\ inode[i] \in MemRec
        /\ inode[i].refcnt = 1 /\ \E k \in Cells : Rec(k) = [name |-> n, inode |-> i]
        /\ itable[1] # NoInode /\ inode[1] # NoInode
    BY <1>1, <1>2, <1>3, Constants, Slots DEF Creating, Types, NewRecord, Phases, Memory
  <1>5. PICK l, c : l = inode[i].nlink + 1 /\ c = inode[i].refcnt + 1
    OBVIOUS
  <1>6. l \in Nat /\ l # 0 /\ c = 2 /\ c \in Nat
    <2>1. inode[i].nlink \in Nat
      BY <1>4, FieldTypes
    <2>2. QED
      BY <1>4, <1>5, <2>1
  <1>7. WriteInode(i, [inode[i] EXCEPT !.nlink = l, !.refcnt = c])
    BY <1>1, <1>5 DEF Link
  <1>8. Types'
    <2>1. /\ inode' \in [Inum -> MemRec \cup {NoInode}]
          /\ itable' \in [Inum -> DiskRec \cup {NoInode}]
      BY <1>4, <1>6, <1>7, LinkTypes
    <2>2. QED
      BY <1>2, <1>4, <2>1, NoJobFields DEF Types, Pcs
  <1>9. /\ inode'[i] # NoInode /\ inode'[i].refcnt = c
        /\ itable'[i] # NoInode /\ itable'[i].nlink = l
        /\ itable'[i].size = itable[i].size
        /\ \A j \in Inum \ {i} : inode'[j] = inode[j] /\ itable'[j] = itable[j]
        /\ \A j \in Inum : Have(j)' = Have(j)
        /\ \A j \in Inum : \A z : ZoneOf(j, z)' = ZoneOf(j, z)
        /\ Memory' /\ ZonesApart' /\ Cells' = Cells
        /\ \A k \in Cells : Rec(k)' = Rec(k)
    <2>1. UNCHANGED <<imap, zmap, data>>
      BY <1>2
    <2>2. QED
      BY <1>3, <1>4, <1>6, <1>7, <1>8, <2>1, CountsWritten
  <1>10. Phases'
    <2>1. magic /\ itable'[1] # NoInode /\ inode'[1] # NoInode
      BY <1>4, <1>9, Constants DEF Phases
    <2>2. QED
      BY <1>2, <1>3, <2>1 DEF Phases
  <1>11. Directory'
    <2>1. ASSUME NEW k \in Cells
          PROVE  /\ Rec(k) \in Entry /\ Rec(k).inode # 1
                 /\ itable'[Rec(k).inode] # NoInode
                 /\ itable'[Rec(k).inode].nlink # 0
      <3>1. /\ Rec(k) \in Entry /\ Rec(k).inode \in Inum \ {1}
            /\ itable[Rec(k).inode] # NoInode
            /\ itable[Rec(k).inode].nlink = 0 => i = Rec(k).inode
        BY <1>1, EntryTypes DEF Directory
      <3>2. QED
        BY <1>4, <1>6, <1>9, <3>1
    <2>2. \A k, m \in Cells :
              Rec(k).name = Rec(m).name \/ Rec(k).inode = Rec(m).inode => k = m
      BY DEF Directory
    <2>3. QED
      BY <1>9, <2>1, <2>2 DEF Directory
  <1>12. Creating' /\ Transferring'
    BY <1>2, <1>3, NoJobFields DEF Creating, Transferring
  <1>13. Dentries'
    <2> SUFFICES ASSUME NEW m \in Name, dentry'[m] # 0
                 PROVE  /\ inode'[dentry'[m]] # NoInode /\ inode'[dentry'[m]].refcnt >= 2
                        /\ \E k \in Cells : Rec(k) = [name |-> m, inode |-> dentry'[m]]
      BY <1>9 DEF Dentries
    <2>1. dentry'[n] = i /\ \A o \in Name \ {n} : dentry'[o] = dentry[o]
      BY <1>2, <1>4 DEF Types
    <2>2. CASE m = n
      BY <1>4, <1>6, <1>9, <2>1, <2>2
    <2>3. CASE m # n
      <3>1. /\ inode[dentry[m]] # NoInode /\ inode[dentry[m]].refcnt >= 2
            /\ \E k \in Cells : Rec(k) = [name |-> m, inode |-> dentry[m]]
            /\ dentry[m] \in Inum /\ dentry'[m] = dentry[m]
        BY <2>1, <2>3 DEF Dentries, Types
      <3>2. QED
        BY <1>6, <1>9, <3>1
    <2>4. QED
      BY <2>2, <2>3
  <1>14. Exact'
    <2>1. \A j \in Inum : itable'[j] # NoInode <=> itable[j] # NoInode
      BY <1>4, <1>9 DEF Memory
    <2>2. imap \subseteq Inum
      BY DEF Types
    <2>3. ASSUME ~leaky
          PROVE  \A j \in Inum \ {1} : itable[j] # NoInode => \E k \in Cells : Rec(k).inode = j
      BY <1>1, <1>4, <2>3 DEF Exact
    <2>4. QED
      BY <1>2, <1>4, <1>9, <2>1, <2>2, <2>3 DEF Exact
  <1>15. QED
    BY <1>8, <1>9, <1>10, <1>11, <1>12, <1>13, <1>14
\* What no step changes, no step breaks.
LEMMA StutterKeepsIInv == ASSUME IInv, UNCHANGED vars PROVE IInv'
  <1> USE DEF vars, disk, memory, history
  <1>1. Types' /\ Phases' /\ Memory'
    BY DEF IInv, Types, Phases, Memory, Mounted, Making, Calling, Moving, Linking
  <1>2. ZonesApart'
    BY DEF IInv, ZonesApart, Have, Sized, ZoneOf, Moving
  <1>3. Directory'
    BY DEF IInv, Directory, Cells, Rec, At, Linking
  <1>4. Creating'
    BY DEF IInv, Creating, Cells, Rec, At, Linking, Moving, NewRecord
  <1>5. Transferring'
    BY DEF IInv, Transferring, At, Moving, Done, Need, Sized
  <1>6. Dentries'
    BY DEF IInv, Dentries, Cells, Rec, At
  <1>7. Exact'
    BY DEF IInv, Exact, Cells, Rec, At, Have, Sized, ZoneOf, Moving
  <1>8. QED
    BY <1>1, <1>2, <1>3, <1>4, <1>5, <1>6, <1>7 DEF IInv

\* Every inode that loses its last reference has a link: nothing is deleted.
LEMMA NothingDeleted == IInv => ~FreeZone /\ ~FreeInode
  BY DEF IInv, Types, Pcs, FreeZone, FreeInode

LEMMA NextKeepsIInv == ASSUME IInv, SmallWrites, Next, ~torn' PROVE IInv'
  <1>1. ASSUME NEW n \in Name, Create(n) \/ Open(n) \/ Close(n) PROVE IInv'
    BY <1>1, CreateKeepsIInv, OpenKeepsIInv, CloseKeepsIInv
  <1>2. ASSUME NEW n \in Name, NEW p \in 0 .. NR_DIRECT * BS, NEW buf \in Buffer,
               Write(n, p, buf)
        PROVE  IInv'
    BY <1>2, WriteKeepsIInv
  <1>3. CASE Boot \/ MkfsImap \/ MkfsZmap \/ MkfsRoot \/ Mount
    BY <1>3, BootKeepsIInv, MkfsMapsKeepIInv, MkfsRootKeepsIInv, MountKeepsIInv
  <1>4. CASE CreateInode \/ LinkDirectory \/ Link
    BY <1>4, CreateInodeKeepsIInv, LinkDirectoryKeepsIInv, LinkKeepsIInv
  <1>5. CASE Reserve \/ ClearZone \/ StoreChunk
    BY <1>5, ReserveKeepsIInv, ClearZoneKeepsIInv, StoreChunkKeepsIInv
  <1>6. CASE FinishWrite
    BY <1>6, FinishFileKeepsIInv, FinishRecordKeepsIInv
  <1>7. CASE FreeZone \/ FreeInode
    BY <1>7, NothingDeleted
  <1>8. CASE Crash
    BY <1>8, CrashKeepsIInv
  <1>9. QED
    BY <1>1, <1>2, <1>3, <1>4, <1>5, <1>6, <1>7, <1>8 DEF Next, Call, Step

\* Only a crash tears, and what is torn stays torn.
LEMMA TornStays == ASSUME torn, Next PROVE torn'
  BY DEF Next, Call, Step, Create, Open, Close, Write, Boot, MkfsImap, MkfsZmap, MkfsRoot,
         Mount, CreateInode, Reserve, ClearZone, StoreChunk, FinishWrite, LinkDirectory, Link,
         FreeZone, FreeInode, Crash, Halt, history

LEMMA Invariant == ASSUME SmallWrites PROVE Spec => []Whole
  <1>1. Init => Whole
    BY InitIInv DEF Whole
  <1>2. Whole /\ [Next]_vars => Whole'
    <2>1. ASSUME torn, Next PROVE torn'
      BY <2>1, TornStays
    <2>2. ASSUME torn, UNCHANGED vars PROVE torn'
      BY <2>2 DEF vars, history
    <2>3. ASSUME IInv, Next, ~torn' PROVE IInv'
      BY <2>3, NextKeepsIInv
    <2>4. ASSUME IInv, UNCHANGED vars PROVE IInv'
      BY <2>4, StutterKeepsIInv
    <2>5. QED
      BY <2>1, <2>2, <2>3, <2>4 DEF Whole
  <1>3. QED
    BY <1>1, <1>2, PTL DEF Spec

LEMMA Stack ==
    ASSUME NEW S
    PROVE  /\ << >> \in Seq(S)
           /\ \A e \in S, s \in Seq(S) : << e >> \o s \in Seq(S)
           /\ \A s \in Seq(S) : s # << >> => Tail(s) \in Seq(S)
  OBVIOUS

LEMMA InitObjects == Init => Objects
  <1>1. << >> \in Seq(BOOLEAN)
    BY Stack, Zenon
  <1>2. QED
    BY <1>1 DEF Init, Objects

LEMMA RestIsSequence ==
    freed \in Seq(BOOLEAN) => /\ Rest \in Seq(BOOLEAN)
                              /\ \A b \in BOOLEAN : << b >> \o freed \in Seq(BOOLEAN)
  BY Stack, Zenon DEF Rest

LEMMA OpenKeepsObjects ==
    ASSUME IInv, Objects, NEW n \in Name, Open(n)
    PROVE  Objects'
  <1>1. PICK i : i = Lookup(n)
    OBVIOUS
  <1>2. Mounted /\ ~Moving /\ Found(n)
    BY DEF Open, Mounted, Making, Moving
  <1>3. PICK k \in Cells : Rec(k).name = n /\ Rec(k).inode = i
    BY <1>1, <1>2, DirectoryInMemory
  <1>4. i \in Inum
    BY <1>3, EntryTypes DEF IInv
  <1>5. CASE inode[i] # NoInode
    BY <1>1, <1>5 DEF Open, Objects, objects
  <1>6. CASE inode[i] = NoInode /\ i \notin imap
    BY <1>1, <1>6 DEF Open, Halt, Objects, objects
  <1>7. CASE inode[i] = NoInode /\ i \in imap
    <2>1. /\ listed' \subseteq listed \cup {i} /\ freed' = Rest /\ halted' = halted
          /\ nullLink' = (nullLink \/ ~HasList)
      BY <1>1, <1>7 DEF Open
    <2>2. nullLink' \in BOOLEAN
      BY <2>1
    <2>3. QED
      BY <1>4, <2>1, <2>2, RestIsSequence DEF Objects
  <1>8. QED
    BY <1>5, <1>6, <1>7

LEMMA CloseKeepsObjects ==
    ASSUME IInv, Objects, NEW n \in Name, Close(n)
    PROVE  Objects'
  <1>1. halted' = halted /\ pc' = pc /\ halted = "no" /\ pc = "idle"
    BY CloseKeepsIInv DEF Close
  <1>2. \/ UNCHANGED objects
        \/ /\ freed' = << dentry[n] \in listed >> \o freed
           /\ listed' = listed \ {dentry[n]} /\ nullLink' = nullLink
    BY <1>1 DEF Close, PutInode
  <1>3. CASE UNCHANGED objects
    BY <1>1, <1>3 DEF Objects, objects
  <1>4. CASE /\ freed' = << dentry[n] \in listed >> \o freed
             /\ listed' = listed \ {dentry[n]} /\ nullLink' = nullLink
    <2> DEFINE b == dentry[n] \in listed
    <2>1. b \in BOOLEAN
      OBVIOUS
    <2>2. << b >> \o freed \in Seq(BOOLEAN)
      <3> HIDE DEF b
      <3>1. QED
        BY <2>1, RestIsSequence, Zenon DEF Objects
    <2>3. freed' \in Seq(BOOLEAN)
      BY <1>4, <2>2, Zenon
    <2>4. QED
      BY <1>1, <1>4, <2>3 DEF Objects
  <1>5. QED
    BY <1>2, <1>3, <1>4

LEMMA NextKeepsObjects == ASSUME IInv, Objects, Next PROVE Objects'
  <1>1. ASSUME NEW n \in Name, Open(n) \/ Close(n) PROVE Objects'
    BY <1>1, OpenKeepsObjects, CloseKeepsObjects
  <1>2. ASSUME NEW n \in Name, Create(n) PROVE Objects'
    BY <1>2 DEF Create, Halt, Objects, objects
  <1>3. ASSUME NEW n \in Name, NEW p \in 0 .. NR_DIRECT * BS, NEW buf \in Buffer,
               Write(n, p, buf)
        PROVE  Objects'
    BY <1>3 DEF Write, Objects, objects
  <1>4. CASE Boot \/ MkfsImap \/ MkfsZmap \/ MkfsRoot \/ Mount
    BY <1>4 DEF Boot, MkfsImap, MkfsZmap, MkfsRoot, Mount, Halt, Objects, objects
  <1>5. CASE CreateInode
    <2>1. job.inum \in Inum
      BY JobTypes DEF IInv, Types
    <2>2. /\ listed' = listed \cup {job.inum} /\ freed' = Rest
          /\ UNCHANGED <<halted, nullLink>>
      BY <1>5 DEF CreateInode
    <2>3. QED
      BY <2>1, <2>2, RestIsSequence DEF Objects
  <1>6. CASE Reserve \/ ClearZone \/ StoreChunk \/ FinishWrite \/ LinkDirectory \/ Link
    BY <1>6 DEF Reserve, ClearZone, StoreChunk, FinishWrite, LinkDirectory, Link, Halt,
                Objects, objects
  <1>7. CASE FreeZone \/ FreeInode
    BY <1>7, NothingDeleted
  <1>8. CASE Crash
    <2>1. listed' = {} /\ freed' = << >> /\ nullLink' = FALSE /\ halted' = "no"
      BY <1>8 DEF Crash
    <2>2. freed' \in Seq(BOOLEAN)
      BY <2>1, Stack, Zenon
    <2>3. QED
      BY <2>1, <2>2 DEF Objects
  <1>9. QED
    BY <1>1, <1>2, <1>3, <1>4, <1>5, <1>6, <1>7, <1>8 DEF Next, Call, Step

LEMMA ObjectsInvariant == ASSUME SmallWrites PROVE Spec => [](torn \/ Objects)
  <1>1. Init => torn \/ Objects
    BY InitObjects
  <1>2. Whole /\ (torn \/ Objects) /\ [Next]_vars => (torn \/ Objects)'
    <2>1. ASSUME torn, Next PROVE torn'
      BY <2>1, TornStays
    <2>2. ASSUME torn, UNCHANGED vars PROVE torn'
      BY <2>2 DEF vars, history
    <2>3. ASSUME IInv, Objects, Next PROVE Objects'
      BY <2>3, NextKeepsObjects
    <2>4. ASSUME Objects, UNCHANGED vars PROVE Objects'
      BY <2>4 DEF Objects, vars, memory, objects
    <2>5. QED
      BY <2>1, <2>2, <2>3, <2>4 DEF Whole
  <1>3. QED
    BY <1>1, <1>2, Invariant, PTL DEF Spec

-----------------------------------------------------------------------------
(* The properties of the runs, for every number of names, inodes, blocks   *)
(* and crashes                                                             *)

\* Until a crash tears a create, sizes, links and reference counts of the inodes
\* of fs.c are never negative, and their zones are data blocks or none.
THEOREM TypeCorrect == ASSUME SmallWrites PROVE Spec => [](~torn => TypeOK)
  <1>1. Whole /\ (torn \/ Objects) => (~torn => TypeOK)
    BY TypesGiveTypeOK DEF Whole, IInv
  <1>2. QED
    BY <1>1, Invariant, ObjectsInvariant, PTL

\* Until a crash tears a create, no close stops in put_inode (fs.c:114, 123): its
\* asserts never see the null i_dentry of an inode that get_inode has loaded.
THEOREM ClosesGoOn == ASSUME SmallWrites PROVE Spec => [](~torn => DeletedInodeHasNoDentry)
  <1>1. (torn \/ Objects) => (~torn => DeletedInodeHasNoDentry)
    BY DEF Objects, DeletedInodeHasNoDentry
  <1>2. QED
    BY <1>1, ObjectsInvariant, PTL

\* On the disk every name has an inode of its own, marked in the bitmap and with a
\* link unless the create that makes it still runs (_add_dir_entry, create_dentry,
\* put_inode).
THEOREM NamesKeepTheirInodes == ASSUME SmallWrites PROVE Spec => []NamesHaveInodes
  <1>1. Whole => NamesHaveInodes
    BY GivesNames DEF Whole, NamesHaveInodes
  <1>2. QED
    BY <1>1, Invariant, PTL

\* What open, write and close have returned is on the disk: between calls an inode
\* in memory equals its slot of the inode table, and its bit is set (write_inode).
THEOREM CallsAreDurable ==
    ASSUME SmallWrites PROVE Spec => [](~torn => ReturnedCallsAreDurable)
  <1>1. Whole => (~torn => ReturnedCallsAreDurable)
    BY GivesDurable DEF Whole
  <1>2. QED
    BY <1>1, Invariant, PTL

\* The zones of the directory and of every file are marked in the zone bitmap and
\* have one place in one file, in the middle of every call and after every crash
\* (_reserve_zone, _get_blk, _set_zone_blk).
THEOREM ZonesKeepTheirOwner == ASSUME SmallWrites PROVE Spec => []ZonesHaveOneOwner
  <1>1. Whole => ZonesHaveOneOwner
    BY GivesOwners DEF Whole, ZonesHaveOneOwner
  <1>2. QED
    BY <1>1, Invariant, PTL

\* While no call is cut in two, the bitmaps mark what the directory and the files
\* use and no more: create_inode and _reserve_zone lose no bit.
THEOREM BitmapsAreExact == ASSUME SmallWrites PROVE Spec => []NothingLeaks
  <1>1. Whole => NothingLeaks
    BY GivesExact DEF Whole, NothingLeaks
  <1>2. QED
    BY <1>1, Invariant, PTL

-----------------------------------------------------------------------------
(* The refinement: what a reboot would find is what FileStore allows.      *)

\* the abstract call, and the contents of an inode on the disk
NoCall == [name |-> {}, pos |-> 0, buf |-> << >>]
Asking == [name |-> job.name, pos |-> job.pos, buf |-> job.buf]
Request == IF job.op = "write" /\ halted = "no" THEN Asking ELSE NoCall
Contents(i) == [k \in 1 .. itable[i].size |-> At(itable[i], k - 1)]

\* The steps of the abstract store
LEMMA AbsStutters ==
    ASSUME Files' = Files, Request' = Request PROVE UNCHANGED Abs!vars
  BY DEF Abs!vars, Request, Asking, NoCall

LEMMA AbsAbandons ==
    ASSUME Files' = Files, Request # NoCall, Request' = NoCall PROVE Abs!Next
  BY DEF Abs!Next, Abs!Abandon, Abs!NoCall, Request, Asking, NoCall

LEMMA AbsBegins ==
    ASSUME Files' = Files, Request = NoCall, Request'.name \in DOMAIN Files,
           Request'.pos \in 0 .. Len(Files[Request'.name]),
           Request'.buf \in Seq(Value) \ {<< >>}
    PROVE  Abs!Next
  BY DEF Abs!Next, Abs!Begin, Abs!NoCall, Request, Asking, NoCall

LEMMA AbsCreates ==
    ASSUME Request' = Request, NEW n \in Name, n \notin DOMAIN Files,
           DOMAIN Files' = DOMAIN Files \cup {n}, Files'[n] = << >>,
           \A m \in DOMAIN Files : Files'[m] = Files[m]
    PROVE  Abs!Next
  <1>1. Files' = [m \in DOMAIN Files \cup {n} |-> IF m = n THEN << >> ELSE Files[m]]
    <2>1. PICK f, g : f = Files /\ g = Files'
      OBVIOUS
    <2>2. g = [m \in DOMAIN g |-> g[m]]
      BY <2>1 DEF Files
    <2>3. g = [m \in DOMAIN f \cup {n} |-> IF m = n THEN << >> ELSE f[m]]
      BY <2>1, <2>2
    <2>4. QED
      BY <2>1, <2>3
  <1>2. UNCHANGED Request
    OBVIOUS
  <1>3. QED
    BY <1>1, <1>2 DEF Abs!Next, Abs!Create, Request, Asking, NoCall

LEMMA AbsOverwrites ==
    ASSUME Request # NoCall, Request' = Request, NEW n, n = Request.name, n \in DOMAIN Files,
           NEW S \in SUBSET (Request.pos + 1 .. Request.pos + Len(Request.buf)),
           S \subseteq 1 .. Len(Files[n]),
           DOMAIN Files' = DOMAIN Files, \A m \in DOMAIN Files \ {n} : Files'[m] = Files[m],
           Files'[n] = [k \in 1 .. Len(Files[n]) |->
                          IF k \in S THEN Request.buf[k - Request.pos] ELSE Files[n][k]]
    PROVE  Abs!Next
  <1>1. Files' = [Files EXCEPT ![n] =
                    [k \in 1 .. Len(@) |-> IF k \in S THEN Request.buf[k - Request.pos] ELSE @[k]]]
    <2>1. PICK f, g, v : f = Files /\ g = Files' /\ v = Files'[n]
      OBVIOUS
    <2>2. g = [m \in DOMAIN g |-> g[m]] /\ f = [m \in DOMAIN f |-> f[m]]
      BY <2>1 DEF Files
    <2>3. g = [f EXCEPT ![n] = v]
      BY <2>1, <2>2
    <2>4. QED
      BY <2>1, <2>3
  <1>2. /\ S \in SUBSET (Abs!Asked(Request) \cap 1 .. Len(Files[Request.name]))
        /\ Files' = [Files EXCEPT ![Request.name] = Abs!Stored(@, Request, S)]
    BY <1>1 DEF Abs!Stored, Abs!Asked
  <1>3. QED
    BY <1>2 DEF Abs!Next, Abs!Overwrite, Abs!NoCall, Request, Asking, NoCall

LEMMA AbsEnds ==
    ASSUME Request # NoCall, Request' = NoCall, NEW n, n = Request.name, n \in DOMAIN Files,
           NEW last, last = Request.pos + Len(Request.buf),
           DOMAIN Files' = DOMAIN Files, \A m \in DOMAIN Files \ {n} : Files'[m] = Files[m],
           Files'[n] = [k \in 1 .. (IF last > Len(Files[n]) THEN last ELSE Len(Files[n])) |->
                          IF k \in Request.pos + 1 .. last
                          THEN Request.buf[k - Request.pos] ELSE Files[n][k]]
    PROVE  Abs!Next
  <1>1. Files' = [Files EXCEPT ![n] =
                    [k \in 1 .. (IF last > Len(@) THEN last ELSE Len(@)) |->
                          IF k \in Request.pos + 1 .. last
                          THEN Request.buf[k - Request.pos] ELSE @[k]]]
    <2>1. PICK f, g, v : f = Files /\ g = Files' /\ v = Files'[n]
      OBVIOUS
    <2>2. g = [m \in DOMAIN g |-> g[m]] /\ f = [m \in DOMAIN f |-> f[m]]
      BY <2>1 DEF Files
    <2>3. g = [f EXCEPT ![n] = v]
      BY <2>1, <2>2
    <2>4. QED
      BY <2>1, <2>3
  <1>2. Files' = [Files EXCEPT ![Request.name] = Abs!Written(@, Request)]
    BY <1>1 DEF Abs!Written, Abs!Asked
  <1>3. QED
    BY <1>2 DEF Abs!Next, Abs!End, Abs!NoCall, Request, Asking, NoCall

\* What a reboot would find, cell by cell of the directory
LEMMA FilesRead ==
    ASSUME Types, Directory
    PROVE  /\ DOMAIN Files = {Rec(k).name : k \in Cells}
           /\ \A k \in Cells : Files[Rec(k).name] = Contents(Rec(k).inode)
  <1>1. CASE itable[1] = NoInode
    <2>1. Cells = {}
      BY <1>1, NoInodeIsNone DEF Cells
    <2>2. DOMAIN Files = {}
      BY <1>1 DEF Files, Names
    <2>3. QED
      BY <2>1, <2>2
  <1>2. CASE itable[1] # NoInode
    <2>1. /\ \A k \in Cells : Rec(k).name \in Names /\ InodeOf(Rec(k).name) = Rec(k).inode
          /\ \A n \in Names : n \in Name /\ \E k \in Cells : Rec(k).name = n
      BY <1>2, NamesAre
    <2>2. DOMAIN Files = Names
      BY DEF Files
    <2>3. \A n \in Names : Files[n] = Contents(InodeOf(n))
      BY DEF Files, Contents
    <2>4. DOMAIN Files = {Rec(k).name : k \in Cells}
      BY <2>1, <2>2
    <2>5. ASSUME NEW k \in Cells PROVE Files[Rec(k).name] = Contents(Rec(k).inode)
      <3>1. Files[Rec(k).name] = Contents(InodeOf(Rec(k).name))
        BY <2>1, <2>3
      <3>2. InodeOf(Rec(k).name) = Rec(k).inode
        BY <2>1
      <3>3. QED
        BY <3>1, <3>2
    <2>6. QED
      BY <2>4, <2>5
  <1>3. QED
    BY <1>1, <1>2

LEMMA FilesReadAs ==
    Types /\ Directory =>
        /\ DOMAIN Files = {Rec(k).name : k \in Cells}
        /\ \A k \in Cells : Files[Rec(k).name] = Contents(Rec(k).inode)
  BY FilesRead

LEMMA FilesReadNext ==
    Types' /\ Directory' =>
        /\ DOMAIN Files' = {Rec(k)'.name : k \in Cells'}
        /\ \A k \in Cells' : \A n, i : n = Rec(k)'.name /\ i = Rec(k)'.inode =>
                Files'[n] = Contents(i)'
  <1>1. (Types /\ Directory =>
        /\ DOMAIN Files = {Rec(k).name : k \in Cells}
        /\ \A k \in Cells : Files[Rec(k).name] = Contents(Rec(k).inode))'
    BY FilesReadAs, PTL
  <1>2. QED
    BY <1>1

\* Same directory, same contents: same files
LEMMA FilesSame ==
    ASSUME Types, Directory, Types', Directory', Cells' = Cells,
           \A k \in Cells : Rec(k)' = Rec(k),
           \A k \in Cells : \A i \in Inum : i = Rec(k).inode => Contents(i)' = Contents(i)
    PROVE  Files' = Files
  <1>1. /\ DOMAIN Files = {Rec(k).name : k \in Cells}
        /\ \A k \in Cells : Files[Rec(k).name] = Contents(Rec(k).inode)
    BY FilesRead
  <1>2. /\ DOMAIN Files' = {Rec(k)'.name : k \in Cells'}
        /\ \A k \in Cells' : \A n, i : n = Rec(k)'.name /\ i = Rec(k)'.inode =>
                Files'[n] = Contents(i)'
    BY FilesReadNext
  <1>3. DOMAIN Files' = DOMAIN Files
    BY <1>1, <1>2
  <1>4. ASSUME NEW n \in DOMAIN Files PROVE Files'[n] = Files[n]
    <2>1. PICK k \in Cells : Rec(k).name = n
      BY <1>1
    <2>2. PICK i : i = Rec(k).inode
      OBVIOUS
    <2>3. i \in Inum
      BY <2>2, EntryTypes
    <2>4. Files[n] = Contents(i)
      BY <1>1, <2>1, <2>2
    <2>5. Files'[n] = Contents(i)'
      BY <1>2, <2>1, <2>2
    <2>6. QED
      BY <2>2, <2>3, <2>4, <2>5
  <1>5. QED
    <2>1. PICK f, g : f = Files /\ g = Files'
      OBVIOUS
    <2>2. g = [m \in DOMAIN g |-> g[m]] /\ f = [m \in DOMAIN f |-> f[m]]
      BY <2>1 DEF Files
    <2>3. g = f
      BY <1>3, <1>4, <2>1, <2>2
    <2>4. QED
      BY <2>1, <2>3

LEMMA ContentsSame ==
    ASSUME Types, NEW i \in Inum, itable'[i].size = itable[i].size,
           \A z \in 0 .. Sized(i) - 1 : /\ itable'[i].zone[z] = itable[i].zone[z]
                                        /\ data'[itable[i].zone[z]] = data[itable[i].zone[z]]
    PROVE  Contents(i)' = Contents(i)
  <1>1. itable[i].size \in Nat
    BY Slots
  <1>2. PICK s : s = itable[i].size
    OBVIOUS
  <1>3. ASSUME NEW k \in 1 .. s PROVE At(itable[i], k - 1)' = At(itable[i], k - 1)
    <2>1. k - 1 \in 0 .. itable[i].size - 1
      BY <1>1, <1>2
    <2>2. (k - 1) \div BS \in 0 .. Sized(i) - 1
      BY <2>1, CellInside
    <2>3. QED
      BY <2>2 DEF At
  <1>4. QED
    BY <1>2, <1>3 DEF Contents

\* A step that leaves the blocks of the directory and of its files alone changes
\* no file.
LEMMA FilesKept ==
    ASSUME IInv, IInv',
           \A i \in Inum : i = 1 \/ (\E k \in Cells : Rec(k).inode = i) =>
               /\ itable'[i].size = itable[i].size
               /\ \A z \in 0 .. Sized(i) - 1 :
                      /\ itable'[i].zone[z] = itable[i].zone[z]
                      /\ data'[itable[i].zone[z]] = data[itable[i].zone[z]]
    PROVE  Files' = Files
  <1>1. Types /\ Directory /\ Types' /\ Directory'
    BY DEF IInv
  <1>2. /\ itable'[1].size = itable[1].size
        /\ \A z \in 0 .. Sized(1) - 1 :
                      /\ itable'[1].zone[z] = itable[1].zone[z]
                      /\ data'[itable[1].zone[z]] = data[itable[1].zone[z]]
    BY Constants
  <1>3. Cells' = Cells
    BY <1>2 DEF Cells
  <1>4. ASSUME NEW k \in Cells PROVE Rec(k)' = Rec(k)
    <2>1. ZonesApart /\ \A z \in 0 .. Sized(1) - 1 : itable'[1].zone[z] = itable[1].zone[z]
      BY <1>2 DEF IInv
    <2>2. \A z \in 0 .. Sized(1) - 1 : \A c \in 0 .. BS - 1 :
               z = k \div BS /\ c = k % BS =>
                   data'[itable[1].zone[z]][c] = data[itable[1].zone[z]][c]
      BY <1>2
    <2>3. QED
      BY <1>1, <2>1, <2>2, RecordKept
  <1>5. \A k \in Cells : \A i \in Inum : i = Rec(k).inode => Contents(i)' = Contents(i)
    BY <1>1, ContentsSame
  <1>6. QED
    BY <1>1, <1>3, <1>4, <1>5, FilesSame

\* In particular one that stores no data block and sizes and zones of no inode of
\* the directory.
LEMMA TablesKept ==
    ASSUME IInv, IInv', data' = data,
           \A i \in Inum : i = 1 \/ (\E k \in Cells : Rec(k).inode = i) =>
               itable'[i].size = itable[i].size /\ itable'[i].zone = itable[i].zone
    PROVE  Files' = Files
  BY FilesKept

-----------------------------------------------------------------------------
(* The steps, one by one                                                   *)

\* Formatting a disk without root and loading the root: there is no file yet, or
\* no file changes.
LEMMA BootStutters ==
    ASSUME IInv, IInv', Boot \/ MkfsImap \/ MkfsZmap \/ MkfsRoot \/ Mount
    PROVE  UNCHANGED Abs!vars
  <1>1. job = NoJob /\ job' = NoJob
    BY DEF IInv, Phases, Calling, Moving, Linking, Boot, MkfsImap, MkfsZmap, MkfsRoot, Mount, Halt
  <1>2. Request' = Request
    BY <1>1, NoJobFields DEF Request
  <1>3. Files' = Files
    <2>1. CASE MkfsRoot
      <3>1. itable[1] = NoInode
        BY <2>1 DEF IInv, Phases, Making, MkfsRoot
      <3>2. itable'[1].size = 0
        <4>1. 1 \in DOMAIN itable
          BY Constants DEF IInv, Types
        <4>2. QED
          BY <2>1, <4>1 DEF MkfsRoot
      <3>3. Cells = {} /\ Cells' = {}
        BY <3>1, <3>2, NoInodeIsNone DEF Cells
      <3>4. QED
        BY <3>3, FilesSame DEF IInv
    <2>2. CASE ~MkfsRoot
      <3>1. UNCHANGED <<itable, data>>
        BY <2>2 DEF Boot, MkfsImap, MkfsZmap, MkfsRoot, Mount, Halt, disk
      <3>2. QED
        BY <3>1, TablesKept
    <2>3. QED
      BY <2>1, <2>2
  <1>4. QED
    BY <1>2, <1>3, AbsStutters

\* A call that begins, and a kernel that stops in one
LEMMA CreateStutters ==
    ASSUME IInv, IInv', NEW n \in Name, Create(n)
    PROVE  UNCHANGED Abs!vars
  <1>1. UNCHANGED <<itable, data>>
    BY DEF Create, Halt, disk
  <1>2. Files' = Files
    BY <1>1, TablesKept
  <1>3. job.op # "write" /\ job'.op # "write"
    <2>1. job = NoJob
      BY DEF IInv, Phases, Calling, Moving, Linking, Create
    <2>2. job' = job \/ job'.op = "create"
      <3>1. CASE FreeInum = {}
        BY <3>1 DEF Create, Halt
      <3>2. CASE FreeInum # {}
        <4>1. job' = [NoJob EXCEPT !.op = "create", !.name = n, !.inum = Least(FreeInum)]
          BY <3>2 DEF Create
        <4>2. QED
          BY <4>1 DEF NoJob
      <3>3. QED
        BY <3>1, <3>2
    <2>3. QED
      BY <2>1, <2>2, NoJobFields
  <1>4. Request' = Request
    BY <1>3 DEF Request
  <1>5. QED
    BY <1>2, <1>4, AbsStutters

\* open and close count references.
LEMMA OpenStutters ==
    ASSUME IInv, IInv', NEW n \in Name, Open(n)
    PROVE  UNCHANGED Abs!vars
  <1>1. UNCHANGED <<itable, data>> /\ job' = job
    BY DEF Open, Halt, disk
  <1>2. Files' = Files
    BY <1>1, TablesKept
  <1>3. job = NoJob
    BY DEF IInv, Phases, Calling, Moving, Linking, Open
  <1>4. Request' = Request
    BY <1>1, <1>3, NoJobFields DEF Request
  <1>5. QED
    BY <1>2, <1>4, AbsStutters

LEMMA CloseStutters ==
    ASSUME IInv, IInv', NEW n \in Name, Close(n)
    PROVE  UNCHANGED Abs!vars
  <1>1. UNCHANGED <<itable, data>> /\ job' = job
    BY CloseKeepsIInv
  <1>2. Files' = Files
    BY <1>1, TablesKept
  <1>3. job = NoJob
    BY DEF IInv, Phases, Calling, Moving, Linking, Close
  <1>4. Request' = Request
    BY <1>1, <1>3, NoJobFields DEF Request
  <1>5. QED
    BY <1>2, <1>4, AbsStutters

\* A step that changes no file leaves the call alone or ends it.
LEMMA FilesStay ==
    ASSUME Files' = Files, Request' = Request \/ Request' = NoCall
    PROVE  Abs!Next \/ UNCHANGED Abs!vars
  <1>1. CASE Request' = Request
    BY <1>1, AbsStutters
  <1>2. CASE Request' = NoCall /\ Request' # Request
    BY <1>2, AbsAbandons
  <1>3. QED
    BY <1>1, <1>2

LEMMA CrashAbandons ==
    ASSUME IInv, IInv', Crash
    PROVE  Abs!Next \/ UNCHANGED Abs!vars
  <1>1. UNCHANGED <<itable, data>> /\ job' = NoJob
    BY DEF Crash, disk
  <1>2. Files' = Files
    BY <1>1, TablesKept
  <1>3. Request' = NoCall
    BY <1>1, NoJobFields DEF Request
  <1>4. QED
    BY <1>2, <1>3, FilesStay

\* The calls' writes of the bitmaps and of a block that no file has yet
LEMMA ReserveStutters ==
    ASSUME IInv, IInv', Reserve
    PROVE  Abs!Next \/ UNCHANGED Abs!vars
  <1>1. UNCHANGED <<itable, data>>
    BY DEF Reserve, Halt, disk
  <1>2. Files' = Files
    BY <1>1, TablesKept
  <1>3. Request' = Request \/ Request' = NoCall
    <2>1. CASE FreeZones = {}
      <3>1. halted' # "no"
        BY <2>1 DEF Reserve, Halt
      <3>2. QED
        BY <3>1 DEF Request
    <2>2. CASE FreeZones # {}
      <3>1. job' = [job EXCEPT !.blk = Least(FreeZones)] /\ halted' = halted
        BY <2>2 DEF Reserve
      <3>2. job'.op = job.op /\ job'.name = job.name /\ job'.pos = job.pos /\ job'.buf = job.buf
        BY <3>1 DEF IInv, Types, Job
      <3>3. QED
        BY <3>1, <3>2 DEF Request, Asking
    <2>3. QED
      BY <2>1, <2>2
  <1>4. QED
    BY <1>2, <1>3, FilesStay

LEMMA ClearZoneStutters ==
    ASSUME IInv, IInv', ClearZone
    PROVE  Abs!Next \/ UNCHANGED Abs!vars
  <1>1. PICK b : b = job.blk
    OBVIOUS
  <1>2. itable' = itable /\ data' = [data EXCEPT ![b] = [c \in 0 .. BS - 1 |-> Zero]]
    BY <1>1 DEF ClearZone
  <1>3. ASSUME NEW i \in Inum, NEW z \in 0 .. Sized(i) - 1
        PROVE  data'[itable[i].zone[z]] = data[itable[i].zone[z]]
    <2>1. /\ itable[i].zone[z] \in Zone /\ z \in 0 .. Have(i) - 1
          /\ ZoneOf(i, z) = itable[i].zone[z]
      BY DiskZones DEF IInv
    <2>2. ZoneOf(i, z) # b
      BY <1>1, <2>1 DEF IInv, ZonesApart, ClearZone
    <2>3. data \in [Zone -> Block]
      BY DEF IInv, Types
    <2>4. QED
      BY <1>2, <2>1, <2>2, <2>3
  <1>4. Files' = Files
    BY <1>2, <1>3, FilesKept
  <1>5. Request' = Request \/ Request' = NoCall
    <2>1. CASE job.cur >= NR_DIRECT
      <3>1. halted' # "no"
        BY <2>1 DEF ClearZone
      <3>2. QED
        BY <3>1 DEF Request
    <2>2. CASE ~(job.cur >= NR_DIRECT)
      <3>1. job' = [job EXCEPT !.cur = @ + 1] /\ halted' = halted
        BY <2>2 DEF ClearZone
      <3>2. job'.op = job.op /\ job'.name = job.name /\ job'.pos = job.pos /\ job'.buf = job.buf
        BY <3>1 DEF IInv, Types, Job
      <3>3. QED
        BY <3>1, <3>2 DEF Request, Asking
    <2>3. QED
      BY <2>1, <2>2
  <1>6. QED
    BY <1>4, <1>5, FilesStay

\* The inode of a new file is in no record yet.
LEMMA CreateInodeStutters ==
    ASSUME IInv, IInv', CreateInode
    PROVE  Abs!Next \/ UNCHANGED Abs!vars
  <1>1. pc = "inode" /\ job.op = "create"
    BY DEF IInv, Phases, Calling, Moving, CreateInode
  <1>2. /\ job.inum # 1 /\ \A k \in Cells : Rec(k).inode # job.inum
    BY <1>1 DEF IInv, Creating, Linking
  <1>3. data' = data /\ \A i \in Inum \ {job.inum} : itable'[i] = itable[i]
    BY DEF CreateInode, WriteInode, IInv, Types
  <1>4. Files' = Files
    BY <1>2, <1>3, TablesKept
  <1>5. job'.op = "create"
    <2>1. job' = [job EXCEPT !.target = 1, !.pos = FreeRecord(inode[1]),
                    !.buf = << [name |-> job.name, inode |-> job.inum] >>,
                    !.left = Len(<< [name |-> job.name, inode |-> job.inum] >>),
                    !.zone = FreeRecord(inode[1]) \div BS, !.cur = Ceil(inode[1].size)]
      BY DEF CreateInode, Transfer
    <2>2. QED
      BY <1>1, <2>1 DEF IInv, Types, Job
  <1>6. Request' = Request
    BY <1>1, <1>5 DEF Request
  <1>7. QED
    BY <1>4, <1>6, FilesStay

\* Counting links changes no file.
LEMMA LinkStutters ==
    ASSUME IInv, IInv', LinkDirectory \/ Link
    PROVE  Abs!Next \/ UNCHANGED Abs!vars
  <1>1. ~Moving /\ job.op = "create"
    BY DEF IInv, Phases, Calling, Linking, Moving, LinkDirectory, Link
  <1>2. Linking
    BY DEF Linking, LinkDirectory, Link
  <1>3. PICK i \in Inum : \E v :
            /\ itable' = [itable EXCEPT ![i] = Cut(v)] /\ inode[i] # NoInode
            /\ v.size = inode[i].size /\ v.zone = inode[i].zone
    <2>1. CASE LinkDirectory
      <3>1. inode[1] # NoInode /\ inode[1] \in MemRec /\ 1 \in Inum
        BY <1>2, Constants, Slots DEF IInv, Phases, Mounted, Making, Linking
      <3>2. PICK v : v = [inode[1] EXCEPT !.nlink = @ + 1]
        OBVIOUS
      <3>3. v.size = inode[1].size /\ v.zone = inode[1].zone
        BY <3>1, <3>2 DEF MemRec
      <3>4. itable' = [itable EXCEPT ![1] = Cut(v)]
        BY <2>1, <3>2 DEF LinkDirectory, WriteInode
      <3>5. QED
        BY <3>1, <3>3, <3>4
    <2>2. CASE Link
      <3>0. PICK i : i = job.inum
        OBVIOUS
      <3>1. inode[i] # NoInode /\ i \in Inum /\ inode[i] \in MemRec
        BY <1>1, <1>2, <3>0, Slots DEF IInv, Creating, Linking, Types
      <3>2. PICK v : v = [inode[i] EXCEPT !.nlink = @ + 1, !.refcnt = @ + 1]
        OBVIOUS
      <3>3. v.size = inode[i].size /\ v.zone = inode[i].zone
        BY <3>1, <3>2 DEF MemRec
      <3>4. itable' = [itable EXCEPT ![i] = Cut(v)]
        BY <2>2, <3>0, <3>2 DEF Link, WriteInode
      <3>5. QED
        BY <3>1, <3>3, <3>4
    <2>3. QED
      BY <2>1, <2>2
  <1>4. PICK v : /\ itable' = [itable EXCEPT ![i] = Cut(v)] /\ inode[i] # NoInode
                  /\ v.size = inode[i].size /\ v.zone = inode[i].zone
    BY <1>3
  <1>5. inode[i].size = itable[i].size /\ inode[i].zone = itable[i].zone
    BY <1>1, <1>4 DEF IInv, Memory
  <1>6. Cut(v).size = itable[i].size /\ Cut(v).zone = itable[i].zone
    BY <1>4, <1>5 DEF Cut
  <1>7. \A j \in Inum : itable'[j].size = itable[j].size /\ itable'[j].zone = itable[j].zone
    BY <1>4, <1>6 DEF IInv, Types
  <1>8. data' = data /\ (job' = job \/ job' = NoJob)
    BY DEF LinkDirectory, Link
  <1>9. Files' = Files
    BY <1>7, <1>8, TablesKept
  <1>10. Request' = Request
    BY <1>1, <1>8, NoJobFields DEF Request
  <1>11. QED
    BY <1>9, <1>10, FilesStay

\* A file with a dentry has one record, and is found by its name.
LEMMA FileOf ==
    ASSUME IInv, NEW n \in Name, NEW i, i = dentry[n], i # 0
    PROVE  /\ i \in Inum \ {1} /\ inode[i] # NoInode /\ itable[i] # NoInode
           /\ inode[i].size = itable[i].size /\ itable[i].size \in Nat
           /\ n \in DOMAIN Files /\ Files[n] = Contents(i)
           /\ Len(Files[n]) = itable[i].size
           /\ \A k \in Cells : Rec(k).inode = i => Rec(k).name = n
  <1>1. PICK k \in Cells : Rec(k) = [name |-> n, inode |-> i]
    BY DEF IInv, Dentries
  <1>2. Rec(k).name = n /\ Rec(k).inode = i
    BY <1>1
  <1>3. i \in Inum \ {1} /\ inode[i] # NoInode
    BY <1>2, EntryTypes DEF IInv, Dentries
  <1>4. itable[i] # NoInode /\ inode[i].size = itable[i].size
    BY <1>3 DEF IInv, Memory
  <1>5. itable[i].size \in Nat
    BY <1>3, Slots DEF IInv
  <1>6. n \in DOMAIN Files /\ Files[n] = Contents(i)
    BY <1>2, FilesRead DEF IInv
  <1>7. Len(Contents(i)) = itable[i].size
    BY <1>5 DEF Contents
  <1>8. \A j \in Cells : Rec(j).inode = i => Rec(j).name = n
    BY <1>2 DEF IInv, Directory
  <1>9. QED
    BY <1>3, <1>4, <1>5, <1>6, <1>7, <1>8

LEMMA WriteBegins ==
    ASSUME IInv, IInv', NEW n \in Name, NEW p \in 0 .. NR_DIRECT * BS, NEW buf \in Buffer,
           Write(n, p, buf)
    PROVE  Abs!Next
  <1>1. PICK t : t = dentry[n]
    OBVIOUS
  <1>2. /\ t # 0 /\ p <= inode[t].size /\ halted = "no" /\ halted' = "no"
        /\ UNCHANGED <<itable, data>> /\ job = NoJob
    BY <1>1 DEF Write, disk, IInv, Phases, Calling, Moving, Linking
  <1>3. n \in DOMAIN Files /\ Len(Files[n]) = inode[t].size /\ inode[t].size \in Nat
    BY <1>1, <1>2, FileOf
  <1>4. Files' = Files
    BY <1>2, TablesKept
  <1>5. job'.op = "write" /\ job'.name = n /\ job'.pos = p /\ job'.buf = buf
    BY DEF Write, Transfer, NoJob
  <1>6. Request = NoCall
    BY <1>2, NoJobFields DEF Request
  <1>7. Request'.name = n /\ Request'.pos = p /\ Request'.buf = buf
    BY <1>2, <1>5 DEF Request, Asking
  <1>8. p \in 0 .. Len(Files[n])
    <2>1. p \in Nat
      OBVIOUS
    <2>2. QED
      BY <1>2, <1>3, <2>1
  <1>9. buf \in Seq(Value) \ {<< >>}
    <2>1. PICK k \in 1 .. MaxCount : buf \in [1 .. k -> Value]
      BY DEF Buffer
    <2>2. k \in Nat /\ k >= 1
      BY FileAssumption
    <2>3. QED
      BY <2>1, <2>2
  <1>10. QED
    BY <1>3, <1>4, <1>6, <1>7, <1>8, <1>9, AbsBegins

\* A write that runs: the abstract store has the same call, on the same file.
LEMMA WriteRuns ==
    ASSUME IInv, Moving, job.op = "write", halted = "no"
    PROVE  /\ Request # NoCall /\ Request.name = job.name /\ Request.pos = job.pos
           /\ Request.buf = job.buf
           /\ job.name \in Name /\ job.target = dentry[job.name] /\ job.target # 0
  <1>1. Request.name = job.name /\ Request.pos = job.pos /\ Request.buf = job.buf
    BY DEF Request, Asking
  <1>2. /\ job.name \in Name /\ job.target = dentry[job.name] /\ Len(job.buf) >= 1
        /\ job.target \in Inum
    BY JobTypes DEF IInv, Transferring, Types
  <1>3. NoCall.buf = << >> /\ Len(<< >>) = 0
    BY DEF NoCall
  <1>4. QED
    BY <1>1, <1>2, <1>3, Constants

\* One file changes: the others, and the names, are as before.
LEMMA OneFileChanges ==
    ASSUME IInv, IInv', NEW n \in Name, NEW i, i = dentry[n], i # 0,
           Cells' = Cells, \A k \in Cells : Rec(k)' = Rec(k),
           \A j \in Inum \ {i} : Contents(j)' = Contents(j)
    PROVE  /\ DOMAIN Files' = DOMAIN Files /\ Files'[n] = Contents(i)'
           /\ \A m \in DOMAIN Files \ {n} : Files'[m] = Files[m]
  <1>1. /\ DOMAIN Files = {Rec(k).name : k \in Cells}
        /\ \A k \in Cells : Files[Rec(k).name] = Contents(Rec(k).inode)
    BY FilesRead DEF IInv
  <1>2. /\ DOMAIN Files' = {Rec(k)'.name : k \in Cells'}
        /\ \A k \in Cells' : \A m, j : m = Rec(k)'.name /\ j = Rec(k)'.inode =>
                Files'[m] = Contents(j)'
    BY FilesReadNext DEF IInv
  <1>3. DOMAIN Files' = DOMAIN Files
    BY <1>1, <1>2
  <1>4. ASSUME NEW m \in DOMAIN Files \ {n} PROVE Files'[m] = Files[m]
    <2>1. PICK k \in Cells : Rec(k).name = m
      BY <1>1
    <2>2. PICK j : j = Rec(k).inode
      OBVIOUS
    <2>3. j \in Inum
      BY <2>2, EntryTypes DEF IInv
    <2>4. j # i
      BY <2>1, <2>2, FileOf
    <2>5. Files[m] = Contents(j)
      BY <1>1, <2>1, <2>2
    <2>6. Files'[m] = Contents(j)'
      BY <1>2, <2>1, <2>2
    <2>7. QED
      BY <2>3, <2>4, <2>5, <2>6
  <1>5. Files'[n] = Contents(i)'
    <2>1. PICK k \in Cells : Rec(k) = [name |-> n, inode |-> i]
      BY DEF IInv, Dentries
    <2>2. k \in Cells' /\ Rec(k)'.name = n /\ Rec(k)'.inode = i
      BY <2>1
    <2>3. QED
      BY <1>2, <2>2
  <1>6. QED
    BY <1>3, <1>4, <1>5

\* A chunk of a file is an overwrite of cells the call asks for; one of the directory is
\* behind its records.
LEMMA StoreChunkOverwrites ==
    ASSUME IInv, IInv', StoreChunk
    PROVE  Abs!Next \/ UNCHANGED Abs!vars
  <1>1. Moving /\ halted = "no"
    BY DEF StoreChunk, Moving
  <1>2. /\ job.pos \in Nat /\ Done \in Nat /\ Len(job.buf) \in Nat /\ job.left > 0
        /\ job.cur >= Need /\ pc = "write" /\ job.target \in Inum
    BY <1>1, WriteFacts DEF StoreChunk
  <1>3. Chunk \in Nat
    <2>1. PICK x : x = job.pos + Done
      OBVIOUS
    <2>2. QED
      BY <1>2, <2>1, ChunkPlace
  <1>4. CASE Halt("zone too big")
    <2>1. UNCHANGED <<itable, data>> /\ halted' # "no"
      BY <1>4 DEF Halt, disk
    <2>2. Files' = Files
      BY <2>1, TablesKept
    <2>3. Request' = NoCall
      BY <2>1 DEF Request
    <2>4. QED
      BY <2>2, <2>3, FilesStay
  <1>5. CASE Stored
    <2>1. PICK t, p, x, d, l : /\ t = job.target /\ p = job.pos /\ x = job.pos + Done
                               /\ d = Chunk /\ l = Len(job.buf)
      OBVIOUS
    <2>2. /\ itable' = itable /\ halted' = halted
          /\ job'.op = job.op /\ job'.name = job.name /\ job'.pos = job.pos
          /\ job'.buf = job.buf
          /\ \A i \in Inum : \A n \in 0 .. itable[i].size - 1 :
                 At(itable[i], n)' = IF i = t /\ n \in x .. x + d - 1
                                     THEN job.buf[n - p + 1] ELSE At(itable[i], n)
      BY <1>5, <2>1 DEF Stored
    <2>3. p \in Nat /\ x \in Nat /\ d \in Nat /\ l \in Nat /\ p <= x /\ x + d <= p + l
      <3>1. Done + d <= l
        BY <1>5, <2>1 DEF Stored
      <3>2. PICK e : e = Done
        OBVIOUS
      <3>3. p \in Nat /\ d \in Nat /\ l \in Nat /\ e \in Nat /\ x = p + e
        BY <1>2, <1>3, <2>1, <3>2
      <3>4. e + d <= l
        BY <3>1, <3>2
      <3>5. QED
        BY <3>3, <3>4
    <2>4. Request' = Request
      BY <2>2 DEF Request, Asking
    <2>5. \A i \in Inum : itable[i].size \in Nat
      BY Slots DEF IInv
    <2>6. ASSUME NEW i \in Inum \ {t} PROVE Contents(i)' = Contents(i)
      <3>1. \A k \in 1 .. itable[i].size : At(itable[i], k - 1)' = At(itable[i], k - 1)
        <4>1. \A k \in 1 .. itable[i].size : k - 1 \in 0 .. itable[i].size - 1
          BY <2>5
        <4>2. QED
          BY <2>2, <4>1
      <3>2. QED
        BY <2>2, <3>1 DEF Contents
    <2>7. Cells' = Cells
      BY <2>2 DEF Cells
    <2>8. CASE job.op = "write"
      <3>1. PICK n : n = job.name
        OBVIOUS
      <3>2. /\ Request # NoCall /\ Request.name = n /\ Request.pos = p /\ Request.buf = job.buf
            /\ n \in Name /\ t = dentry[n] /\ t # 0
        BY <1>1, <2>1, <2>8, <3>1, WriteRuns
      <3>3. /\ t \in Inum \ {1} /\ n \in DOMAIN Files /\ Files[n] = Contents(t)
            /\ Len(Files[n]) = itable[t].size
        BY <3>2, FileOf
      <3>4. \A k \in Cells : Rec(k)' = Rec(k)
        BY <2>2, <3>3, Constants DEF Cells, Rec
      <3>5. /\ DOMAIN Files' = DOMAIN Files /\ Files'[n] = Contents(t)'
            /\ \A m \in DOMAIN Files \ {n} : Files'[m] = Files[m]
        BY <2>6, <2>7, <3>2, <3>4, OneFileChanges
      <3>6. PICK S : S = {k \in 1 .. itable[t].size : k - 1 \in x .. x + d - 1}
        OBVIOUS
      <3>7. S \in SUBSET (Request.pos + 1 .. Request.pos + Len(Request.buf))
        BY <2>1, <2>3, <3>2, <3>6
      <3>8. S \subseteq 1 .. Len(Files[n])
        BY <3>3, <3>6
      <3>9. Files'[n] = [k \in 1 .. Len(Files[n]) |->
                          IF k \in S THEN Request.buf[k - Request.pos] ELSE Files[n][k]]
        <4>1. ASSUME NEW k \in 1 .. itable[t].size
              PROVE  At(itable[t], k - 1)' =
                        IF k \in S THEN job.buf[k - p] ELSE Contents(t)[k]
          <5>1. k - 1 \in 0 .. itable[t].size - 1 /\ (k - 1) - p + 1 = k - p
            BY <2>3, <2>5, <3>3
          <5>2. Contents(t)[k] = At(itable[t], k - 1)
            BY DEF Contents
          <5>3. k \in S <=> k - 1 \in x .. x + d - 1
            BY <3>6
          <5>4. QED
            BY <2>2, <3>3, <5>1, <5>2, <5>3
        <4>2. Contents(t)' = [k \in 1 .. itable[t].size |->
                                IF k \in S THEN job.buf[k - p] ELSE Contents(t)[k]]
          BY <2>2, <4>1 DEF Contents
        <4>3. QED
          BY <3>2, <3>3, <3>5, <4>2
      <3>10. /\ Request # NoCall /\ Request' = Request /\ n = Request.name
             /\ n \in DOMAIN Files
        BY <2>4, <3>2, <3>3
      <3>11. /\ DOMAIN Files' = DOMAIN Files
             /\ \A m \in DOMAIN Files \ {n} : Files'[m] = Files[m]
        BY <3>5
      <3>12. Abs!Next
        BY <3>7, <3>8, <3>9, <3>10, <3>11, AbsOverwrites
      <3>13. QED
        BY <3>12
    <2>9. CASE job.op # "write"
      <3>1. t = 1 /\ p = itable[1].size
        BY <1>1, <2>1, <2>9 DEF IInv, Phases, Calling, Creating
      <3>2. \A n \in Cells : At(itable[1], n)' = At(itable[1], n)
        BY <2>2, <2>3, <3>1, Constants DEF Cells
      <3>3. \A k \in Cells : Rec(k)' = Rec(k)
        BY <3>2 DEF Rec
      <3>4. \A k \in Cells : \A i \in Inum : i = Rec(k).inode => Contents(i)' = Contents(i)
        BY <2>6, <3>1, EntryTypes DEF IInv
      <3>5. Files' = Files
        BY <2>7, <3>3, <3>4, FilesSame DEF IInv
      <3>6. QED
        BY <2>4, <3>5, FilesStay
    <2>10. QED
      BY <2>8, <2>9
  <1>6. QED
    BY <1>4, <1>5, StoreChunkKeepsIInv

\* The end of a write: the file has what the call asked for.
LEMMA WriteEnds ==
    ASSUME IInv, IInv', FinishWrite, job.op # "create"
    PROVE  Abs!Next
  <1>1. Moving /\ halted = "no" /\ job' = NoJob /\ job.op = "write"
    BY DEF FinishWrite, Moving, IInv, Phases, Calling
  <1>2. PICK t, p, l, n : t = job.target /\ p = job.pos /\ l = Len(job.buf) /\ n = job.name
    OBVIOUS
  <1>3. /\ Request # NoCall /\ Request.name = n /\ Request.pos = p /\ Request.buf = job.buf
        /\ n \in Name /\ t = dentry[n] /\ t # 0
    BY <1>1, <1>2, WriteRuns
  <1>4. Request' = NoCall
    BY <1>1, NoJobFields DEF Request
  <1>5. /\ t \in Inum \ {1} /\ n \in DOMAIN Files /\ Files[n] = Contents(t)
        /\ Len(Files[n]) = itable[t].size /\ itable[t].size \in Nat
    BY <1>3, FileOf
  <1>6. /\ data' = data /\ itable'[t].size = NewSize /\ Done = Len(job.buf)
        /\ \A i \in Inum \ {t} : itable'[i] = itable[i]
        /\ \A i \in Inum : \A z : ZoneOf(i, z)' = ZoneOf(i, z)
        /\ \A i \in Inum : \A z : ZoneOf(i, z)' = itable'[i].zone[z]
        /\ \A k \in Cells : Rec(k)' = Rec(k)
    BY <1>2, FinishFacts
  <1>7. \A i \in Inum \ {t} : Contents(i)' = Contents(i)
    BY <1>6 DEF Contents, At
  <1>8. Cells' = Cells
    BY <1>5, <1>6, Constants DEF Cells
  <1>9. /\ DOMAIN Files' = DOMAIN Files /\ Files'[n] = Contents(t)'
        /\ \A m \in DOMAIN Files \ {n} : Files'[m] = Files[m]
    BY <1>3, <1>6, <1>7, <1>8, OneFileChanges
  <1>10. PICK last, s : last = p + l /\ s = itable[t].size
    OBVIOUS
  <1>11. /\ p \in Nat /\ l \in Nat /\ s \in Nat /\ p <= s /\ last \in Nat
         /\ NewSize = IF last > s THEN last ELSE s
    <2>1. p \in Nat /\ l \in Nat /\ p <= s
      BY <1>1, <1>2, <1>10, WriteFacts
    <2>2. NewSize = IF s < last THEN last ELSE s
      BY <1>2, <1>10 DEF NewSize
    <2>3. QED
      BY <1>5, <1>10, <2>1, <2>2
  <1>12. ASSUME NEW k \in 1 .. NewSize
         PROVE  At(itable[t], k - 1)' =
                    IF k \in p + 1 .. last THEN job.buf[k - p] ELSE Contents(t)[k]
    <2>0. PICK z, c : z = (k - 1) \div BS /\ c = (k - 1) % BS
      OBVIOUS
    <2>1. At(itable[t], k - 1)' = data[inode[t].zone[z]][c]
      <3>1. itable'[t].zone[z] = inode[t].zone[z]
        BY <1>1, <1>2, <1>5, <1>6, WriteFacts
      <3>2. QED
        BY <1>6, <2>0, <3>1 DEF At
    <2>2. CASE k \in p + 1 .. last
      <3>1. PICK h : h = k - 1 - p
        OBVIOUS
      <3>2. h \in 0 .. l - 1 /\ p + h = k - 1 /\ h + 1 = k - p
        BY ONLY <1>10, <1>11, <2>2, <3>1
      <3>3. At(inode[t], p + h) = job.buf[h + 1]
        BY <1>1, <1>2, <1>6, <3>2 DEF IInv, Transferring
      <3>4. QED
        BY <2>0, <2>1, <2>2, <3>2, <3>3 DEF At
    <2>3. CASE k \notin p + 1 .. last
      <3>1. k \in 1 .. s /\ k - 1 \in 0 .. s - 1
        BY <1>10, <1>11, <2>3
      <3>2. z \in 0 .. Sized(t) - 1
        BY <1>5, <1>10, <2>0, <3>1, CellInside DEF IInv
      <3>3. inode[t].zone[z] = itable[t].zone[z]
        <4>1. ZoneOf(t, z) = itable[t].zone[z]
          BY <1>5, <3>2, DiskZones DEF IInv
        <4>2. ZoneOf(t, z) = inode[t].zone[z]
          BY <1>1, <1>2, WriteFacts
        <4>3. QED
          BY <4>1, <4>2
      <3>4. Contents(t)[k] = At(itable[t], k - 1)
        BY <1>10, <3>1 DEF Contents
      <3>5. QED
        BY <2>0, <2>1, <2>3, <3>3, <3>4 DEF At
    <2>4. QED
      BY <2>2, <2>3
  <1>13. Files'[n] = [k \in 1 .. (IF last > Len(Files[n]) THEN last ELSE Len(Files[n])) |->
                          IF k \in Request.pos + 1 .. last
                          THEN Request.buf[k - Request.pos] ELSE Files[n][k]]
    <2>1. Contents(t)' = [k \in 1 .. NewSize |->
                            IF k \in p + 1 .. last THEN job.buf[k - p] ELSE Contents(t)[k]]
      BY <1>6, <1>12 DEF Contents
    <2>2. NewSize = IF last > Len(Files[n]) THEN last ELSE Len(Files[n])
      BY <1>5, <1>10, <1>11
    <2>3. QED
      BY <1>3, <1>5, <1>9, <2>1, <2>2
  <1>14. last = Request.pos + Len(Request.buf) /\ n = Request.name
    BY <1>2, <1>3, <1>10
  <1>15. QED
    BY <1>3, <1>4, <1>5, <1>9, <1>13, <1>14, AbsEnds

\* The record of a new name makes an empty file.
LEMMA RecordCreates ==
    ASSUME IInv, IInv', FinishWrite, job.op = "create"
    PROVE  Abs!Next
  <1>1. Moving /\ job' = job
    BY DEF FinishWrite, Moving
  <1>2. /\ job.target = 1 /\ job.pos = itable[1].size /\ job.buf = << NewRecord >>
        /\ job.name \in Name /\ job.inum \in Inum \ {1} /\ itable[job.inum].size = 0
        /\ \A k \in Cells : Rec(k).name # job.name /\ Rec(k).inode # job.inum
    BY <1>1 DEF IInv, Creating, Types, Moving, Linking
  <1>3. /\ data' = data /\ itable'[1].size = NewSize
        /\ \A i \in Inum \ {1} : itable'[i] = itable[i]
        /\ \A k \in Cells : Rec(k)' = Rec(k)
    BY <1>2, FinishFacts
  <1>4. PICK s, n, i : s = itable[1].size /\ n = job.name /\ i = job.inum
    OBVIOUS
  <1>5. Cells' = Cells \cup {s} /\ s \notin Cells /\ s \in Nat
    <2>1. s \in Nat
      BY <1>4, Constants, Slots DEF IInv
    <2>2. NewSize = s + 1
      BY <1>2, <1>4, <2>1 DEF NewSize
    <2>3. QED
      BY <1>3, <1>4, <2>1, <2>2 DEF Cells
  <1>6. Rec(s)'.name = n /\ Rec(s)'.inode = i
    <2>1. Rec(s)' = NewRecord
      BY <1>4, FinishRecordKeepsIInv
    <2>2. QED
      BY <1>4, <2>1 DEF NewRecord
  <1>7. /\ DOMAIN Files = {Rec(k).name : k \in Cells}
        /\ \A k \in Cells : Files[Rec(k).name] = Contents(Rec(k).inode)
    BY FilesRead DEF IInv
  <1>8. /\ DOMAIN Files' = {Rec(k)'.name : k \in Cells'}
        /\ \A k \in Cells' : \A m, j : m = Rec(k)'.name /\ j = Rec(k)'.inode =>
                Files'[m] = Contents(j)'
    BY FilesReadNext DEF IInv
  <1>9. n \notin DOMAIN Files
    BY <1>2, <1>4, <1>7
  <1>10. DOMAIN Files' = DOMAIN Files \cup {n}
    BY <1>3, <1>5, <1>6, <1>7, <1>8
  <1>11. Files'[n] = << >>
    <2>1. Files'[n] = Contents(i)'
      BY <1>5, <1>6, <1>8
    <2>2. itable'[i].size = 0
      BY <1>2, <1>3, <1>4
    <2>3. QED
      BY <2>1, <2>2 DEF Contents
  <1>12. ASSUME NEW m \in DOMAIN Files PROVE Files'[m] = Files[m]
    <2>1. PICK k \in Cells : Rec(k).name = m
      BY <1>7
    <2>2. PICK j : j = Rec(k).inode
      OBVIOUS
    <2>3. j \in Inum \ {1}
      BY <2>2, EntryTypes DEF IInv
    <2>4. Files[m] = Contents(j)
      BY <1>7, <2>1, <2>2
    <2>5. Files'[m] = Contents(j)'
      BY <1>3, <1>5, <1>8, <2>1, <2>2
    <2>6. Contents(j)' = Contents(j)
      BY <1>3, <2>3 DEF Contents, At
    <2>7. QED
      BY <2>4, <2>5, <2>6
  <1>13. Request' = Request
    <2>1. job'.op # "write" /\ job.op # "write"
      BY <1>1
    <2>2. QED
      BY <2>1 DEF Request
  <1>14. n \in Name
    BY <1>2, <1>4
  <1>15. QED
    BY <1>9, <1>10, <1>11, <1>12, <1>13, <1>14, AbsCreates

\* Every step of the file system is one of the abstract store, or changes nothing of it.
LEMMA StepAllowed ==
    ASSUME IInv, IInv', SmallWrites, Next, ~torn'
    PROVE  Abs!Next \/ UNCHANGED Abs!vars
  <1>1. ASSUME NEW n \in Name, Create(n) \/ Open(n) \/ Close(n)
        PROVE  UNCHANGED Abs!vars
    BY <1>1, CreateStutters, OpenStutters, CloseStutters
  <1>2. ASSUME NEW n \in Name, NEW p \in 0 .. NR_DIRECT * BS, NEW buf \in Buffer,
               Write(n, p, buf)
        PROVE  Abs!Next
    BY <1>2, WriteBegins
  <1>3. CASE Boot \/ MkfsImap \/ MkfsZmap \/ MkfsRoot \/ Mount
    BY <1>3, BootStutters
  <1>4. CASE CreateInode
    BY <1>4, CreateInodeStutters
  <1>5. CASE LinkDirectory \/ Link
    BY <1>5, LinkStutters
  <1>6. CASE Reserve
    BY <1>6, ReserveStutters
  <1>7. CASE ClearZone
    BY <1>7, ClearZoneStutters
  <1>8. CASE StoreChunk
    BY <1>8, StoreChunkOverwrites
  <1>9. CASE FinishWrite
    BY <1>9, WriteEnds, RecordCreates
  <1>10. CASE FreeZone \/ FreeInode
    BY <1>10, NothingDeleted
  <1>11. CASE Crash
    BY <1>11, CrashAbandons
  <1>12. QED
    BY <1>1, <1>2, <1>3, <1>4, <1>5, <1>6, <1>7, <1>8, <1>9, <1>10, <1>11 DEF Next, Call, Step

\* fs.c implements FileStore: at every moment the disk is what a store of named files
\* allows.  A file appears in one step, a write changes the cells asked for and no
\* others, the file grows when the call is done, and a panic or a power failure changes
\* no file, for every number of names, inodes and blocks.
THEOREM DiskIsAFileStore == ASSUME SmallWrites PROVE Spec => ImplementsFileStore
  <1>1. ASSUME Whole, Whole', Next, ~torn'
        PROVE  Abs!Next \/ UNCHANGED Abs!vars
    <2>1. ~torn
      BY <1>1, TornStays
    <2>2. IInv /\ IInv'
      BY <1>1, <2>1 DEF Whole
    <2>3. QED
      BY <1>1, <2>2, StepAllowed
  <1>2. Whole /\ Whole' /\ [Next]_vars =>
            [~torn' => Abs!Next \/ UNCHANGED Abs!vars]_vars
    BY <1>1
  <1>3. QED
    BY <1>2, Invariant, PTL DEF Spec, ImplementsFileStore
=============================================================================
