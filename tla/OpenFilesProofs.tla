-------------------------- MODULE OpenFilesProofs --------------------------
(* Descriptors lead to their files for every number of tasks, slots, files *)
(* and slab objects, as long as nobody closes a file that another          *)
(* descriptor has open.                                                    *)
EXTENDS OpenFiles, FiniteSetTheorems, TLAPS

DentryRec == [name : Name \cup {Root, Null}, parent : {Root, Null},
              inode : Name \cup {Root, Null}, refcnt : Int]
FileRec == [dentry : Dentry \cup {Null}, pos : Int]

Types ==
    /\ tasks \subseteq Task
    /\ filp \in [Task -> [Fd -> FileObj \cup {Null}]]
    /\ held \in [Task -> [Fd -> Name \cup {Null}]]
    /\ file \in [FileObj -> FileRec]
    /\ freeFiles \subseteq FileObj /\ cached \subseteq Dentry
    /\ dentry \in [Dentry -> DentryRec]
    /\ i_refcnt \in [Name \cup {Root} -> Int]
    /\ i_size \in [Name -> Int]

\* Where the position of a descriptor of a file of that size is
Inside(pos, size) == "beyond" \in Usage \/ pos \in 0 .. size

\* Descriptors belong to live tasks and to slots with a file object.
SlotsFilled ==
    \A t \in Task, fd \in Fd : held[t][fd] # Null => t \in tasks /\ filp[t][fd] # Null

\* What a descriptor leads to is in use, and what is in use has a descriptor.
Reached ==
    \A t \in Task, fd \in Fd : held[t][fd] # Null =>
        LET a == filp[t][fd] IN
        /\ a \in FileObj \ freeFiles
        /\ file[a].dentry \in cached \ {Root}
        /\ dentry[file[a].dentry].name = held[t][fd]
        /\ Inside(file[a].pos, i_size[held[t][fd]])
FilesReached ==
    \A a \in FileObj \ freeFiles :
        \E t \in Task, fd \in Fd : held[t][fd] # Null /\ filp[t][fd] = a
DentriesReached ==
    \A d \in cached \ {Root} : \E a \in FileObj \ freeFiles : file[a].dentry = d

Users(d) == {a \in FileObj \ freeFiles : file[a].dentry = d}

\* A cached dentry is linked to its inode, counts its file objects and is the
\* only one of its name.
DentriesLinked ==
    \A d \in cached \ {Root} :
        /\ dentry[d].name \in Name /\ dentry[d].inode = dentry[d].name
        /\ dentry[d].parent = Root
        /\ dentry[d].refcnt = 1 + Cardinality(Users(d))
        /\ i_refcnt[dentry[d].name] >= 2 /\ i_size[dentry[d].name] >= 0
DentriesDiffer ==
    \A d, e \in cached \ {Root} : dentry[d].name = dentry[e].name => d = e

Bounds ==
    /\ dentry[Root].name = Root
    /\ \A n \in Name : i_refcnt[n] >= 0 /\ i_size[n] >= -1

IInv ==
    /\ Types /\ SlotsFilled /\ Reached /\ FilesReached /\ DentriesReached
    /\ DentriesLinked /\ DentriesDiffer /\ Bounds

-----------------------------------------------------------------------------
LEMMA Constants ==
    /\ Root \in Dentry /\ Root # Null /\ Root \notin DentryObj /\ Root \notin Name
    /\ Null \notin FileObj /\ Null \notin Dentry /\ Null \notin Name
    /\ DentryObj \subseteq Dentry /\ Fd \subseteq Nat
  BY OpenAssumption DEF Dentry, Fd

\* A set of numbers has a least one: of the intervals 0 .. k that end in it, one
\* contains no other.
LEMMA LeastExists ==
    ASSUME NEW S \in SUBSET Nat, S # {}
    PROVE  \E m \in S : \A k \in S : m <= k
  <1> DEFINE T == {0 .. k : k \in S}
             R == StrictSubsetOrdering(Nat)
  <1>1. T \subseteq FiniteSubsetsOf(Nat) /\ T # {}
    <2>1. \A k \in S : IsFiniteSet(0 .. k) /\ 0 .. k \in SUBSET Nat
      BY FS_Interval
    <2>2. QED
      BY <2>1 DEF FiniteSubsetsOf
  <1>2. IsWellFoundedOn(R, FiniteSubsetsOf(Nat))
    BY FS_StrictSubsetOrderingWellFounded
  <1> HIDE DEF T, R
  <1>3. PICK x \in T : \A y \in T : ~(<<y, x>> \in R)
    BY <1>1, <1>2, WFMin
  <1>4. PICK m \in S : x = 0 .. m
    BY DEF T
  <1>5. ASSUME NEW k \in S PROVE m <= k
    <2> SUFFICES ASSUME k < m PROVE FALSE
      OBVIOUS
    <2>1. 0 .. k \in T /\ 0 .. k \subseteq 0 .. m /\ 0 .. k # 0 .. m
      <3>1. m \in 0 .. m /\ m \notin 0 .. k
        OBVIOUS
      <3>2. QED
        BY <3>1 DEF T
    <2>2. 0 .. k \in SUBSET Nat /\ 0 .. m \in SUBSET Nat
      OBVIOUS
    <2>3. <<0 .. k, x>> \in R
      BY <1>4, <2>1, <2>2 DEF R, StrictSubsetOrdering
    <2>4. QED
      BY <1>3, <2>1, <2>3
  <1>6. QED
    BY <1>5

\* sys_open takes a slot that is free.
LEMMA SlotIsFree ==
    ASSUME NEW t \in Task, FreeSlots(t) # {}
    PROVE  Slot(t) \in Fd /\ filp[t][Slot(t)] = Null
  <1>1. FreeSlots(t) \in SUBSET Nat
    BY Constants DEF FreeSlots
  <1>2. Slot(t) \in FreeSlots(t)
    BY <1>1, LeastExists DEF Slot
  <1>3. QED
    BY <1>2 DEF FreeSlots

LEMMA UsersFinite ==
    \A d : IsFiniteSet(Users(d)) /\ Cardinality(Users(d)) \in Nat
  <1> TAKE d
  <1>1. Users(d) \subseteq FileObj
    BY DEF Users
  <1>2. IsFiniteSet(FileObj)
    BY OpenAssumption
  <1>3. QED
    BY <1>1, <1>2, FS_Subset, FS_CardinalityType

LEMMA CountChanges ==
    ASSUME NEW r \in DentryRec, NEW k \in Int
    PROVE  /\ [r EXCEPT !.refcnt = k] \in DentryRec
           /\ [r EXCEPT !.refcnt = k].name = r.name
           /\ [r EXCEPT !.refcnt = k].inode = r.inode
           /\ [r EXCEPT !.refcnt = k].parent = r.parent
           /\ [r EXCEPT !.refcnt = k].refcnt = k /\ r.refcnt \in Int
  BY DEF DentryRec

LEMMA CountIsInt == \A r \in DentryRec : r.refcnt \in Int
  BY DEF DentryRec

LEMMA PosChanges ==
    ASSUME NEW r \in FileRec, NEW k \in Int
    PROVE  /\ [r EXCEPT !.pos = k] \in FileRec
           /\ [r EXCEPT !.pos = k].dentry = r.dentry
           /\ [r EXCEPT !.pos = k].pos = k
  BY DEF FileRec

LEMMA Growing ==
    \A k, l, m \in Int : /\ Inside(k, l) /\ m >= l => Inside(k, m)
                         /\ l >= 0 => Inside(0, l)
  BY DEF Inside

\* A call that counts a reference of the root and gives one dentry a new value.
LEMMA RootAndOne ==
    ASSUME dentry \in [Dentry -> DentryRec], NEW d \in DentryObj, NEW r \in DentryRec,
           NEW k \in Int,
           dentry' = [dentry EXCEPT ![Root].refcnt = @ + k, ![d] = r]
    PROVE  /\ dentry' \in [Dentry -> DentryRec]
           /\ dentry'[Root].name = dentry[Root].name
           /\ dentry'[d] = r
           /\ \A e \in DentryObj : e # d => dentry'[e] = dentry[e]
  <1> DEFINE c == [dentry[Root] EXCEPT !.refcnt = dentry[Root].refcnt + k]
  <1>1. dentry' = [dentry EXCEPT ![Root] = c, ![d] = r]
    OBVIOUS
  <1>2. c \in DentryRec /\ c.name = dentry[Root].name
    <2>1. dentry[Root] \in DentryRec
      BY Constants
    <2>2. dentry[Root].refcnt + k \in Int
      BY <2>1, CountIsInt
    <2>3. QED
      BY <2>1, <2>2, CountChanges
  <1> HIDE DEF c
  <1>3. QED
    BY <1>1, <1>2, Constants

LEMMA InitIInv == Init => IInv
  <1> SUFFICES ASSUME Init PROVE IInv
    OBVIOUS
  <1>1. Types
    <2>1. /\ [name |-> Root, parent |-> Root, inode |-> Root, refcnt |-> 1] \in DentryRec
          /\ [name |-> Null, parent |-> Null, inode |-> Null, refcnt |-> 0] \in DentryRec
      BY DEF DentryRec
    <2>2. [dentry |-> Null, pos |-> 0] \in FileRec
      BY DEF FileRec
    <2>3. QED
      BY <2>1, <2>2, Constants, OpenAssumption DEF Init, Types
  <1>2. /\ \A t \in Task, fd \in Fd : held[t][fd] = Null
        /\ cached \ {Root} = {} /\ FileObj \ freeFiles = {}
    BY DEF Init
  <1>3. SlotsFilled /\ Reached /\ FilesReached /\ DentriesReached
        /\ DentriesLinked /\ DentriesDiffer
    BY <1>2 DEF SlotsFilled, Reached, FilesReached, DentriesReached,
                DentriesLinked, DentriesDiffer
  <1>4. Bounds
    BY Constants DEF Init, Bounds
  <1>5. QED
    BY <1>1, <1>3, <1>4 DEF IInv

\* A step that changes no descriptor, object or count.
LEMMA StoppingKeepsIInv ==
    ASSUME IInv, UNCHANGED <<tasks, filp, file, freeFiles, dentry, cached, i_refcnt,
                             i_size, held>>
    PROVE  IInv'
  <1>1. \A d : Users(d)' = Users(d)
    BY DEF Users
  <1>2. Types' /\ SlotsFilled' /\ Bounds'
    BY DEF IInv, Types, SlotsFilled, Bounds
  <1>3. Reached'
    BY DEF IInv, Reached
  <1>4. FilesReached' /\ DentriesReached' /\ DentriesDiffer'
    BY DEF IInv, FilesReached, DentriesReached, DentriesDiffer
  <1>5. DentriesLinked'
    BY <1>1 DEF IInv, DentriesLinked
  <1>6. QED
    BY <1>2, <1>3, <1>4, <1>5 DEF IInv

-----------------------------------------------------------------------------
\* open succeeds with file object a and dentry d, which was cached or is new.
LEMMA EnterKeepsIInv ==
    ASSUME IInv, NEW t \in tasks, FreeSlots(t) # {}, NEW n \in Name,
           NEW a \in freeFiles, NEW d \in DentryObj, Enter(t, n, a, d),
           dentry' \in [Dentry -> DentryRec],
           i_refcnt' \in [Name \cup {Root} -> Int], i_size' \in [Name -> Int],
           dentry'[Root].name = Root,
           \A e \in cached \ {Root} : e # d =>
                dentry'[e] = dentry[e] /\ dentry[e].name # n,
           dentry'[d].name = n, dentry'[d].inode = n, dentry'[d].parent = Root,
           dentry'[d].refcnt = 1 + Cardinality(Users(d)) + 1,
           d \in cached => dentry[d].name = n,
           cached' = cached \cup {d},
           i_refcnt'[n] >= 2, i_size'[n] >= 0, i_size'[n] >= i_size[n],
           \A m \in Name \ {n} : i_refcnt'[m] = i_refcnt[m] /\ i_size'[m] = i_size[m]
    PROVE  IInv'
  <1>1. Types /\ SlotsFilled /\ Reached /\ FilesReached /\ DentriesReached
        /\ DentriesLinked /\ DentriesDiffer /\ Bounds
    BY DEF IInv
  <1> DEFINE q == Slot(t)
  <1>2. t \in Task /\ q \in Fd /\ filp[t][q] = Null
    BY <1>1, SlotIsFree DEF Types
  <1>3. held[t][q] = Null
    BY <1>1, <1>2 DEF SlotsFilled
  <1>4. /\ filp' = [filp EXCEPT ![t][q] = a]
        /\ file' = [file EXCEPT ![a] = [dentry |-> d, pos |-> 0]]
        /\ freeFiles' = freeFiles \ {a}
        /\ held' = [held EXCEPT ![t][q] = n]
        /\ tasks' = tasks
    BY DEF Enter
  <1> HIDE DEF q
  <1>5. a \in FileObj /\ a # Null /\ d \in Dentry /\ d # Root /\ n # Null /\ n # Root
    BY <1>1, Constants DEF Types
  <1>6. \A u \in Task, fd \in Fd :
            /\ filp'[u][fd] = IF u = t /\ fd = q THEN a ELSE filp[u][fd]
            /\ held'[u][fd] = IF u = t /\ fd = q THEN n ELSE held[u][fd]
    BY <1>1, <1>2, <1>4 DEF Types
  <1>7. /\ \A b \in FileObj : b # a => file'[b] = file[b]
        /\ file'[a].dentry = d /\ file'[a].pos = 0
    BY <1>1, <1>4, <1>5 DEF Types
  <1>8. FileObj \ freeFiles' = (FileObj \ freeFiles) \cup {a}
    BY <1>4, <1>5
  <1>9. Types'
    <2>1. filp' \in [Task -> [Fd -> FileObj \cup {Null}]]
      BY <1>1, <1>4, <1>5 DEF Types
    <2>2. held' \in [Task -> [Fd -> Name \cup {Null}]]
      BY <1>1, <1>4, <1>5 DEF Types
    <2>3. file' \in [FileObj -> FileRec]
      <3>1. [dentry |-> d, pos |-> 0] \in FileRec
        BY <1>5 DEF FileRec
      <3>2. QED
        BY <1>1, <1>4, <3>1 DEF Types
    <2>4. QED
      BY <1>1, <1>4, <1>5, <2>1, <2>2, <2>3 DEF Types
  <1>10. SlotsFilled'
    BY <1>1, <1>4, <1>5, <1>6 DEF SlotsFilled
  <1>11. Reached'
    <2> SUFFICES ASSUME NEW u \in Task, NEW fd \in Fd, held'[u][fd] # Null
                 PROVE  /\ filp'[u][fd] \in FileObj \ freeFiles'
                        /\ file'[filp'[u][fd]].dentry \in cached' \ {Root}
                        /\ dentry'[file'[filp'[u][fd]].dentry].name = held'[u][fd]
                        /\ Inside(file'[filp'[u][fd]].pos, i_size'[held'[u][fd]])
      BY DEF Reached
    <2>1. CASE u = t /\ fd = q
      <3>1. i_size'[n] \in Int
        OBVIOUS
      <3>2. Inside(0, i_size'[n])
        BY <3>1, Growing
      <3>3. QED
        BY <1>5, <1>6, <1>7, <1>8, <2>1, <3>2
    <2>2. CASE ~(u = t /\ fd = q)
      <3>1. filp'[u][fd] = filp[u][fd] /\ held'[u][fd] = held[u][fd]
        BY <1>6, <2>2
      <3> DEFINE b == filp[u][fd]
                 m == held[u][fd]
      <3>2. /\ b \in FileObj \ freeFiles /\ file[b].dentry \in cached \ {Root}
            /\ dentry[file[b].dentry].name = m /\ Inside(file[b].pos, i_size[m])
        BY <1>1, <3>1 DEF Reached
      <3>3. m \in Name
        BY <1>1, <3>1 DEF Types
      <3> HIDE DEF b, m
      <3>4. file'[b] = file[b] /\ b \in FileObj \ freeFiles'
        BY <1>4, <1>7, <3>2
      <3>5. dentry'[file[b].dentry].name = m
        BY <3>2
      <3>6. Inside(file[b].pos, i_size'[m])
        <4>1. i_size[m] \in Int /\ i_size'[m] \in Int /\ i_size'[m] >= i_size[m]
          <5>1. i_size[m] \in Int /\ i_size'[m] \in Int
            BY <1>1, <3>3 DEF Types
          <5>2. CASE m = n
            BY <5>1, <5>2
          <5>3. CASE m # n
            BY <3>3, <5>1, <5>3
          <5>4. QED
            BY <5>1, <5>2, <5>3
        <4>2. file[b].pos \in Int
          BY <1>1, <3>2 DEF Types, FileRec
        <4>3. QED
          BY <3>2, <4>1, <4>2, Growing
      <3>7. QED
        BY <3>1, <3>2, <3>4, <3>5, <3>6 DEF b, m
    <2>3. QED
      BY <2>1, <2>2
  <1>12. FilesReached'
    <2> SUFFICES ASSUME NEW b \in FileObj \ freeFiles'
                 PROVE  \E u \in Task, fd \in Fd : held'[u][fd] # Null /\ filp'[u][fd] = b
      BY DEF FilesReached
    <2>1. CASE b = a
      BY <1>2, <1>5, <1>6, <2>1
    <2>2. CASE b # a
      <3>1. PICK u \in Task, fd \in Fd : held[u][fd] # Null /\ filp[u][fd] = b
        BY <1>1, <1>8, <2>2 DEF FilesReached
      <3>2. ~(u = t /\ fd = q)
        BY <1>3, <3>1
      <3>3. QED
        BY <1>6, <3>1, <3>2
    <2>3. QED
      BY <2>1, <2>2
  <1>13. DentriesReached'
    <2> SUFFICES ASSUME NEW e \in cached' \ {Root}
                 PROVE  \E b \in FileObj \ freeFiles' : file'[b].dentry = e
      BY DEF DentriesReached
    <2>1. CASE e = d
      BY <1>7, <1>8, <2>1
    <2>2. CASE e # d
      <3>1. PICK b \in FileObj \ freeFiles : file[b].dentry = e
        BY <1>1, <2>2 DEF DentriesReached
      <3>2. QED
        BY <1>7, <1>8, <3>1
    <2>3. QED
      BY <2>1, <2>2
  <1>14. /\ Users(d)' = Users(d) \cup {a} /\ a \notin Users(d)
         /\ \A e : e # d => Users(e)' = Users(e)
    BY <1>5, <1>7, <1>8 DEF Users
  <1>15. DentriesLinked'
    <2> SUFFICES ASSUME NEW e \in cached' \ {Root}
                 PROVE  /\ dentry'[e].name \in Name /\ dentry'[e].inode = dentry'[e].name
                        /\ dentry'[e].parent = Root
                        /\ dentry'[e].refcnt = 1 + Cardinality(Users(e)')
                        /\ i_refcnt'[dentry'[e].name] >= 2 /\ i_size'[dentry'[e].name] >= 0
      BY DEF DentriesLinked
    <2>1. CASE e = d
      <3>1. Cardinality(Users(d)') = Cardinality(Users(d)) + 1
        <4>1. /\ IsFiniteSet(Users(d))
              /\ Users(d)' = Users(d) \cup {a} /\ a \notin Users(d)
          BY <1>14, UsersFinite
        <4>2. Cardinality(Users(d) \cup {a}) = Cardinality(Users(d)) + 1
          BY <4>1, FS_AddElement
        <4>3. QED
          BY <4>1, <4>2
      <3>2. QED
        BY <2>1, <3>1, UsersFinite
    <2>2. CASE e # d
      <3>1. e \in cached \ {Root}
        BY <2>2
      <3>2. dentry'[e] = dentry[e] /\ dentry[e].name \in Name \ {n}
        BY <1>1, <2>2, <3>1 DEF DentriesLinked
      <3>3. Users(e)' = Users(e)
        BY <1>14, <2>2
      <3>4. QED
        BY <1>1, <3>1, <3>2, <3>3 DEF DentriesLinked
    <2>3. QED
      BY <2>1, <2>2
  <1>16. DentriesDiffer'
    <2> SUFFICES ASSUME NEW e \in cached' \ {Root}, NEW g \in cached' \ {Root},
                        dentry'[e].name = dentry'[g].name
                 PROVE  e = g
      BY DEF DentriesDiffer
    <2>1. QED
      BY <1>1 DEF DentriesDiffer
  <1>17. Bounds'
    <2> SUFFICES ASSUME NEW m \in Name PROVE i_refcnt'[m] >= 0 /\ i_size'[m] >= -1
      BY DEF Bounds
    <2>1. CASE m = n
      <3>1. i_refcnt'[n] \in Int /\ i_size'[n] \in Int
        OBVIOUS
      <3>2. QED
        BY <2>1, <3>1
    <2>2. CASE m # n
      BY <1>1, <2>2 DEF Bounds
    <2>3. QED
      BY <2>1, <2>2
  <1>18. QED
    BY <1>9, <1>10, <1>11, <1>12, <1>13, <1>15, <1>16, <1>17 DEF IInv

LEMMA HitKeepsIInv ==
    ASSUME IInv, NEW t \in Task, NEW n \in Name, OpenHit(t, n)
    PROVE  IInv'
  <1>1. Types /\ DentriesLinked /\ DentriesDiffer /\ Bounds
    BY DEF IInv
  <1>2. PICK d \in Hits(n), a \in freeFiles :
            /\ dentry' = [dentry EXCEPT ![Root].refcnt = @ + 1, ![d].refcnt = @ + 1]
            /\ Enter(t, n, a, d)
    BY DEF OpenHit
  <1>3. t \in tasks /\ FreeSlots(t) # {} /\ UNCHANGED <<cached, i_refcnt, i_size>>
    BY DEF OpenHit, Calling
  <1>4. d \in cached /\ dentry[d].name = n
    BY DEF Hits
  <1>5. d \in DentryObj /\ d \in Dentry /\ d # Root /\ d \in cached \ {Root}
    BY <1>1, <1>4, Constants DEF Types, Bounds, Dentry
  <1>6. /\ dentry[d].inode = n /\ dentry[d].parent = Root
        /\ dentry[d].refcnt = 1 + Cardinality(Users(d))
        /\ i_refcnt[n] >= 2 /\ i_size[n] >= 0
    BY <1>1, <1>4, <1>5 DEF DentriesLinked
  <1> DEFINE r == [dentry[d] EXCEPT !.refcnt = dentry[d].refcnt + 1]
  <1>7. /\ r \in DentryRec /\ r.name = n /\ r.inode = n /\ r.parent = Root
        /\ r.refcnt = 1 + Cardinality(Users(d)) + 1
    <2>1. dentry[d] \in DentryRec
      BY <1>1, <1>5 DEF Types
    <2>2. dentry[d].refcnt + 1 \in Int
      BY <2>1, CountIsInt
    <2>3. QED
      BY <1>4, <1>6, <2>1, <2>2, CountChanges
  <1>12. dentry' = [dentry EXCEPT ![Root].refcnt = @ + 1, ![d] = r]
    BY <1>1, <1>2, <1>5 DEF Types
  <1> HIDE DEF r
  <1>8. /\ dentry' \in [Dentry -> DentryRec] /\ dentry'[Root].name = Root
        /\ \A e \in cached \ {Root} : e # d => dentry'[e] = dentry[e]
        /\ dentry'[d] = r
    <2>1. cached \ {Root} \subseteq DentryObj
      BY <1>1 DEF Types, Dentry
    <2>2. dentry \in [Dentry -> DentryRec] /\ dentry[Root].name = Root
      BY <1>1 DEF Types, Bounds
    <2>3. /\ dentry' \in [Dentry -> DentryRec]
          /\ dentry'[Root].name = dentry[Root].name
          /\ dentry'[d] = r
          /\ \A e \in DentryObj : e # d => dentry'[e] = dentry[e]
      <3>1. 1 \in Int
        OBVIOUS
      <3>2. r \in DentryRec
        BY <1>7
      <3>3. QED
        BY <1>5, <1>12, <2>2, <3>1, <3>2, RootAndOne
    <2>4. QED
      BY <2>1, <2>2, <2>3
  <1>9. \A e \in cached \ {Root} : e # d => dentry[e].name # n
    BY <1>1, <1>4, <1>5 DEF DentriesDiffer
  <1>10. /\ i_refcnt' \in [Name \cup {Root} -> Int] /\ i_size' \in [Name -> Int]
         /\ cached' = cached \cup {d} /\ i_refcnt'[n] >= 2 /\ i_size'[n] >= 0
         /\ i_size'[n] >= i_size[n]
         /\ \A m \in Name \ {n} : i_refcnt'[m] = i_refcnt[m] /\ i_size'[m] = i_size[m]
    BY <1>1, <1>3, <1>4, <1>6 DEF Types
  <1>11. QED
    BY <1>2, <1>3, <1>4, <1>5, <1>7, <1>8, <1>9, <1>10, EnterKeepsIInv

LEMMA MissKeepsIInv ==
    ASSUME IInv, NEW t \in Task, NEW n \in Name, OpenMiss(t, n)
    PROVE  IInv'
  <1>1. Types /\ DentriesLinked /\ DentriesDiffer /\ Bounds /\ FilesReached /\ Reached
    BY DEF IInv
  <1>2. PICK d \in DentryObj \ cached, a \in freeFiles :
            /\ dentry' = [dentry EXCEPT ![Root].refcnt = @ + 2, ![d] = Linked(n)]
            /\ cached' = cached \cup {d}
            /\ Enter(t, n, a, d)
    BY DEF OpenMiss
  <1>3. i_refcnt' = [i_refcnt EXCEPT ![n] = @ + 2]
    BY DEF OpenMiss
  <1>4. /\ t \in tasks /\ FreeSlots(t) # {} /\ Hits(n) = {}
        /\ i_size' = [i_size EXCEPT ![n] = IF @ = -1 THEN 0 ELSE @]
    BY DEF OpenMiss, Calling
  <1>5. d \in Dentry /\ d # Root
    BY Constants
  <1>6. Linked(n) \in DentryRec
    BY DEF Linked, DentryRec
  <1>8. Cardinality(Users(d)) = 0
    <2>1. Users(d) = {}
      BY <1>1 DEF Users, FilesReached, Reached
    <2>2. QED
      BY <2>1, FS_EmptySet
  <1>9. /\ dentry' \in [Dentry -> DentryRec] /\ dentry'[Root].name = Root
        /\ \A e \in cached \ {Root} : e # d => dentry'[e] = dentry[e]
        /\ dentry'[d] = Linked(n)
    <2>1. cached \ {Root} \subseteq DentryObj
      BY <1>1 DEF Types, Dentry
    <2>2. dentry \in [Dentry -> DentryRec] /\ dentry[Root].name = Root
      BY <1>1 DEF Types, Bounds
    <2>3. /\ dentry' \in [Dentry -> DentryRec]
          /\ dentry'[Root].name = dentry[Root].name
          /\ dentry'[d] = Linked(n)
          /\ \A e \in DentryObj : e # d => dentry'[e] = dentry[e]
      <3>1. 2 \in Int
        OBVIOUS
      <3>2. QED
        BY <1>2, <1>6, <2>2, <3>1, RootAndOne
    <2>4. QED
      BY <2>1, <2>2, <2>3
  <1>10. /\ dentry'[d].name = n /\ dentry'[d].inode = n /\ dentry'[d].parent = Root
         /\ dentry'[d].refcnt = 1 + Cardinality(Users(d)) + 1
    BY <1>8, <1>9 DEF Linked
  <1>11. \A e \in cached \ {Root} : dentry[e].name # n
    <2> SUFFICES ASSUME NEW e \in cached \ {Root}, dentry[e].name = n PROVE FALSE
      OBVIOUS
    <2>1. dentry[e].refcnt # 0 /\ dentry[e].parent = Root
      BY <1>1, UsersFinite DEF DentriesLinked
    <2>2. e \in Hits(n)
      BY <2>1 DEF Hits
    <2>3. QED
      BY <1>4, <2>2
  <1>12. /\ i_refcnt' \in [Name \cup {Root} -> Int] /\ i_size' \in [Name -> Int]
         /\ i_refcnt'[n] >= 2
         /\ \A m \in Name \ {n} : i_refcnt'[m] = i_refcnt[m] /\ i_size'[m] = i_size[m]
    <2>1. i_refcnt[n] \in Int /\ i_refcnt[n] >= 0
      BY <1>1 DEF Types, Bounds
    <2>2. QED
      BY <1>1, <1>3, <1>4, <2>1 DEF Types
  <1>13. i_size'[n] >= 0 /\ i_size'[n] >= i_size[n]
    <2>1. i_size[n] \in Int /\ i_size[n] >= -1
      BY <1>1 DEF Types, Bounds
    <2>2. i_size'[n] = IF i_size[n] = -1 THEN 0 ELSE i_size[n]
      BY <1>1, <1>4 DEF Types
    <2>3. QED
      BY <2>1, <2>2
  <1>14. QED
    BY <1>2, <1>4, <1>5, <1>9, <1>10, <1>11, <1>12, <1>13, EnterKeepsIInv

\* An open that fails leaves the pointer to a free object in its slot.
LEMMA FailedKeepsIInv ==
    ASSUME IInv, NEW t \in tasks, FreeSlots(t) # {}, NEW a \in freeFiles, Failed(t, a),
           cached' = cached, i_refcnt' \in [Name \cup {Root} -> Int],
           \A m \in Name : i_refcnt'[m] = i_refcnt[m],
           dentry' \in [Dentry -> DentryRec],
           dentry'[Root].name = Root,
           \A e \in DentryObj : dentry'[e] = dentry[e]
    PROVE  IInv'
  <1>1. Types /\ SlotsFilled /\ Reached /\ FilesReached /\ DentriesReached
        /\ DentriesLinked /\ DentriesDiffer /\ Bounds
    BY DEF IInv
  <1> DEFINE q == Slot(t)
  <1>2. t \in Task /\ q \in Fd /\ filp[t][q] = Null
    BY <1>1, SlotIsFree DEF Types
  <1>3. held[t][q] = Null
    BY <1>1, <1>2 DEF SlotsFilled
  <1>4. /\ filp' = [filp EXCEPT ![t][q] = a]
        /\ file' = [file EXCEPT ![a].pos = 0]
        /\ UNCHANGED <<tasks, freeFiles, held, i_size>>
    BY DEF Failed
  <1> HIDE DEF q
  <1>5. a \in FileObj
    BY <1>1 DEF Types
  <1>6. \A u \in Task, fd \in Fd : held[u][fd] # Null => filp'[u][fd] = filp[u][fd]
    BY <1>1, <1>2, <1>3, <1>4 DEF Types
  <1>7. \A b \in FileObj \ freeFiles : file'[b] = file[b]
    BY <1>1, <1>4 DEF Types
  <1>8. \A e \in cached \ {Root} : dentry'[e] = dentry[e]
    BY <1>1 DEF Types, Dentry
  <1>9. Types'
    <2>1. filp' \in [Task -> [Fd -> FileObj \cup {Null}]]
      BY <1>1, <1>4, <1>5 DEF Types
    <2>2. file' \in [FileObj -> FileRec]
      <3>1. file[a] \in FileRec
        BY <1>1, <1>5 DEF Types
      <3>2. [file[a] EXCEPT !.pos = 0] \in FileRec
        BY <3>1, PosChanges
      <3>3. file' = [file EXCEPT ![a] = [file[a] EXCEPT !.pos = 0]]
        BY <1>4
      <3>4. QED
        BY <1>1, <3>2, <3>3 DEF Types
    <2>3. QED
      BY <1>1, <1>4, <2>1, <2>2 DEF Types
  <1>10. SlotsFilled' /\ FilesReached'
    BY <1>1, <1>4, <1>6 DEF SlotsFilled, FilesReached
  <1>11. Reached'
    BY <1>1, <1>4, <1>6, <1>7, <1>8 DEF Reached
  <1>12. DentriesReached' /\ DentriesDiffer'
    BY <1>1, <1>4, <1>7, <1>8 DEF DentriesReached, DentriesDiffer
  <1>13. \A d : Users(d)' = Users(d)
    BY <1>4, <1>7 DEF Users
  <1>14. DentriesLinked'
    BY <1>1, <1>4, <1>8, <1>13 DEF DentriesLinked
  <1>15. Bounds'
    BY <1>1, <1>4 DEF Bounds
  <1>16. QED
    BY <1>9, <1>10, <1>11, <1>12, <1>14, <1>15 DEF IInv

LEMMA OpenFailsKeepsIInv ==
    ASSUME IInv, NEW t \in Task, NEW n \in Name, OpenFails(t, n)
    PROVE  IInv'
  <1>1. Types /\ Bounds
    BY DEF IInv
  <1>2. PICK a \in freeFiles : Failed(t, a)
    BY DEF OpenFails
  <1>3. /\ t \in tasks /\ FreeSlots(t) # {} /\ cached' = cached /\ i_refcnt' = i_refcnt
        /\ dentry' = [dentry EXCEPT ![Root].refcnt = @ + 1]
    BY DEF OpenFails, Calling
  <1>4. /\ dentry' \in [Dentry -> DentryRec]
        /\ dentry'[Root].name = Root
        /\ \A e \in DentryObj : dentry'[e] = dentry[e]
    <2> DEFINE c == [dentry[Root] EXCEPT !.refcnt = dentry[Root].refcnt + 1]
    <2>1. dentry[Root] \in DentryRec
      BY <1>1, Constants DEF Types
    <2>2. dentry[Root].refcnt + 1 \in Int
      BY <2>1, CountIsInt
    <2>3. c \in DentryRec /\ c.name = Root
      BY <1>1, <2>1, <2>2, CountChanges DEF Bounds
    <2>4. dentry' = [dentry EXCEPT ![Root] = c]
      BY <1>3
    <2> HIDE DEF c
    <2>5. QED
      BY <1>1, <2>3, <2>4, Constants DEF Types
  <1>5. QED
    BY <1>1, <1>2, <1>3, <1>4, FailedKeepsIInv DEF Types

LEMMA OpenPathKeepsIInv ==
    ASSUME IInv, NEW t \in Task, OpenPath(t)
    PROVE  IInv'
  <1>1. Types /\ Bounds
    BY DEF IInv
  <1>2. CASE dentry[Root].refcnt = 2
    BY <1>2, StoppingKeepsIInv DEF OpenPath, Halt, slots, cache
  <1>3. CASE dentry[Root].refcnt # 2
    <2>1. PICK a \in freeFiles : Failed(t, a)
      BY <1>3 DEF OpenPath
    <2>2. /\ t \in tasks /\ FreeSlots(t) # {} /\ cached' = cached
          /\ dentry' = [dentry EXCEPT ![Root] = Unlinked(dentry[Root])]
          /\ i_refcnt' = [i_refcnt EXCEPT ![Root] = @ - 1]
      BY <1>1, <1>3 DEF OpenPath, Calling, Types
    <2>3. /\ Unlinked(dentry[Root]) \in
                DentryRec
          /\ Unlinked(dentry[Root]).name = Root
      <3>1. dentry[Root] \in DentryRec /\ dentry[Root].name = Root
        BY <1>1, Constants DEF Types, Bounds
      <3>2. dentry[Root].refcnt - 2 \in Int
        BY <3>1, CountIsInt
      <3>3. QED
        BY <3>1, <3>2 DEF Unlinked, DentryRec
    <2>4. /\ dentry' \in [Dentry -> DentryRec]
          /\ dentry'[Root].name = Root
          /\ \A e \in DentryObj : dentry'[e] = dentry[e]
      BY <1>1, <2>2, <2>3, Constants DEF Types
    <2>5. /\ i_refcnt' \in [Name \cup {Root} -> Int]
          /\ \A m \in Name : i_refcnt'[m] = i_refcnt[m]
      BY <1>1, <2>2, Constants DEF Types
    <2>6. QED
      BY <2>1, <2>2, <2>4, <2>5, FailedKeepsIInv
  <1>4. QED
    BY <1>2, <1>3

-----------------------------------------------------------------------------
\* Nobody else has the file open, so close finds a dentry with one file object
\* and takes it off the list.
LEMMA CloseKeepsIInv ==
    ASSUME IInv, NEW t \in Task, NEW fd \in Fd, Close(t, fd), "shared" \notin Usage
    PROVE  IInv'
  <1> DEFINE a == filp[t][fd]
             n == held[t][fd]
             d == file[filp[t][fd]].dentry
  <1>1. Types /\ SlotsFilled /\ Reached /\ FilesReached /\ DentriesReached
        /\ DentriesLinked /\ DentriesDiffer /\ Bounds
    BY DEF IInv
  <1>2. t \in tasks /\ n # Null /\ \A s \in Descriptor : Used(s) = d => s = <<t, fd>>
    BY DEF Close, Using, FileOf
  <1>3. /\ a \in FileObj /\ a \notin freeFiles /\ d \in cached \ {Root} /\ dentry[d].name = n
        /\ n \in Name
    BY <1>1, <1>2 DEF Reached, Types
  <1>4. \A u \in Task, g \in Fd :
            held[u][g] # Null /\ file[filp[u][g]].dentry = d => u = t /\ g = fd
    <2> SUFFICES ASSUME NEW u \in Task, NEW g \in Fd, held[u][g] # Null,
                        file[filp[u][g]].dentry = d
                 PROVE  u = t /\ g = fd
      OBVIOUS
    <2> DEFINE s == <<u, g>>
    <2>1. u \in tasks
      BY <1>1 DEF SlotsFilled
    <2>2. s \in Descriptor /\ Used(s) = d
      BY <2>1 DEF Descriptor, Used, FileObject
    <2>3. s = <<t, fd>>
      BY <1>2, <2>2
    <2>4. QED
      BY <2>3
  <1>5. Users(d) = {a}
    <2>1. \A b \in Users(d) : b = a
      <3> SUFFICES ASSUME NEW b \in Users(d) PROVE b = a
        OBVIOUS
      <3>1. PICK u \in Task, g \in Fd : held[u][g] # Null /\ filp[u][g] = b
        BY <1>1 DEF FilesReached, Users
      <3>2. u = t /\ g = fd
        BY <1>4, <3>1 DEF Users
      <3>3. QED
        BY <3>1, <3>2
    <2>2. a \in Users(d)
      BY <1>3 DEF Users
    <2>3. QED
      BY <2>1, <2>2
  <1>6. /\ dentry[d].inode = n /\ dentry[d].parent = Root /\ dentry[d].refcnt = 2
        /\ i_refcnt[n] >= 2 /\ i_size[n] >= 0
    <2>1. Cardinality(Users(d)) = 1
      BY <1>5, FS_Singleton
    <2>2. QED
      BY <1>1, <1>3, <2>1 DEF DentriesLinked
  <1>7. /\ dentry' = [dentry EXCEPT ![Root].refcnt = @ - 1, ![d] = Unlinked(dentry[d])]
        /\ i_refcnt' = [i_refcnt EXCEPT ![n] = @ - 2]
        /\ cached' = cached \ {d} /\ freeFiles' = freeFiles \cup {a}
        /\ held' = [held EXCEPT ![t][fd] = Null]
        /\ UNCHANGED <<tasks, filp, file, i_size>>
    <2>1. dentry[d].refcnt # 0 /\ dentry[d].parent # Null
      BY <1>6, Constants
    <2>2. QED
      BY <1>3, <1>6, <2>1 DEF Close, DentryOf, FileOf
  <1>8. d \in Dentry /\ d \in DentryObj /\ cached \ {Root} \subseteq DentryObj
    BY <1>1, <1>3 DEF Types, Dentry
  <1> HIDE DEF a, n, d
  <1>9. /\ dentry' \in [Dentry -> DentryRec] /\ dentry'[Root].name = Root
        /\ \A e \in DentryObj : e # d => dentry'[e] = dentry[e]
    <2>1. dentry \in [Dentry -> DentryRec] /\ dentry[Root].name = Root
      BY <1>1 DEF Types, Bounds
    <2>2. dentry[Root] \in DentryRec /\ dentry[d] \in DentryRec
      BY <1>8, <2>1, Constants
    <2>3. dentry[Root].refcnt \in Int /\ dentry[d].refcnt \in Int
      BY <2>2, CountIsInt
    <2>4. Unlinked(dentry[d]) \in DentryRec
      BY <2>2, <2>3 DEF Unlinked, DentryRec
    <2> DEFINE k == -1
    <2>5. k \in Int /\ dentry[Root].refcnt - 1 = dentry[Root].refcnt + k
      BY <2>3
    <2> HIDE DEF k
    <2>6. dentry' = [dentry EXCEPT ![Root].refcnt = @ + k, ![d] = Unlinked(dentry[d])]
      BY <1>7, <2>5
    <2>7. /\ dentry' \in [Dentry -> DentryRec]
          /\ dentry'[Root].name = dentry[Root].name
          /\ \A e \in DentryObj : e # d => dentry'[e] = dentry[e]
      BY <1>8, <2>1, <2>4, <2>5, <2>6, RootAndOne
    <2>8. QED
      BY <2>1, <2>7
  <1>10. \A u \in Task, g \in Fd :
            held'[u][g] = IF u = t /\ g = fd THEN Null ELSE held[u][g]
    BY <1>1, <1>7 DEF Types
  <1>11. /\ i_refcnt' \in [Name \cup {Root} -> Int] /\ i_refcnt'[n] = i_refcnt[n] - 2
         /\ \A m \in Name : m # n => i_refcnt'[m] = i_refcnt[m]
    BY <1>1, <1>3, <1>7 DEF Types
  <1>12. Types'
    <2>1. held' \in [Task -> [Fd -> Name \cup {Null}]]
      BY <1>1, <1>7 DEF Types
    <2>2. QED
      BY <1>1, <1>3, <1>7, <1>9, <1>11, <2>1 DEF Types
  <1>13. SlotsFilled'
    BY <1>1, <1>7, <1>10 DEF SlotsFilled
  <1>14. Reached'
    <2> SUFFICES ASSUME NEW u \in Task, NEW g \in Fd, held'[u][g] # Null
                 PROVE  /\ filp'[u][g] \in FileObj \ freeFiles'
                        /\ file'[filp'[u][g]].dentry \in cached' \ {Root}
                        /\ dentry'[file'[filp'[u][g]].dentry].name = held'[u][g]
                        /\ Inside(file'[filp'[u][g]].pos, i_size'[held'[u][g]])
      BY DEF Reached
    <2>1. held'[u][g] = held[u][g] /\ held[u][g] # Null /\ ~(u = t /\ g = fd)
      BY <1>10
    <2>2. file[filp[u][g]].dentry # d
      BY <1>4, <2>1
    <2>3. /\ filp[u][g] \in FileObj \ freeFiles
          /\ file[filp[u][g]].dentry \in cached \ {Root}
          /\ dentry[file[filp[u][g]].dentry].name = held[u][g]
          /\ Inside(file[filp[u][g]].pos, i_size[held[u][g]])
      BY <1>1, <2>1 DEF Reached
    <2>4. filp[u][g] # a
      BY <2>2 DEF a, d
    <2>5. dentry'[file[filp[u][g]].dentry] = dentry[file[filp[u][g]].dentry]
      BY <1>8, <1>9, <2>2, <2>3
    <2>6. QED
      BY <1>7, <2>1, <2>2, <2>3, <2>4, <2>5
  <1>15. FilesReached'
    <2> SUFFICES ASSUME NEW b \in FileObj \ freeFiles'
                 PROVE  \E u \in Task, g \in Fd : held'[u][g] # Null /\ filp[u][g] = b
      BY <1>7 DEF FilesReached
    <2>1. PICK u \in Task, g \in Fd : held[u][g] # Null /\ filp[u][g] = b
      BY <1>1, <1>7 DEF FilesReached
    <2>2. ~(u = t /\ g = fd)
      BY <1>7, <2>1 DEF a
    <2>3. QED
      BY <1>10, <2>1, <2>2
  <1>16. DentriesReached'
    <2> SUFFICES ASSUME NEW e \in cached' \ {Root}
                 PROVE  \E b \in FileObj \ freeFiles' : file[b].dentry = e
      BY <1>7 DEF DentriesReached
    <2>1. PICK b \in FileObj \ freeFiles : file[b].dentry = e
      BY <1>1, <1>7 DEF DentriesReached
    <2>2. b # a
      BY <1>7, <2>1 DEF a, d
    <2>3. QED
      BY <1>7, <2>1, <2>2
  <1>17. DentriesLinked'
    <2> SUFFICES ASSUME NEW e \in cached' \ {Root}
                 PROVE  /\ dentry'[e].name \in Name /\ dentry'[e].inode = dentry'[e].name
                        /\ dentry'[e].parent = Root
                        /\ dentry'[e].refcnt = 1 + Cardinality(Users(e)')
                        /\ i_refcnt'[dentry'[e].name] >= 2 /\ i_size'[dentry'[e].name] >= 0
      BY DEF DentriesLinked
    <2>1. e \in cached \ {Root} /\ e # d
      BY <1>7
    <2>2. dentry'[e] = dentry[e]
      BY <1>8, <1>9, <2>1
    <2>3. dentry[e].name # n
      BY <1>1, <1>3, <2>1 DEF DentriesDiffer
    <2>4. Users(e)' = Users(e)
      <3>1. file[a].dentry # e
        BY <2>1 DEF a, d
      <3>2. QED
        BY <1>7, <3>1 DEF Users
    <2>5. QED
      BY <1>1, <1>7, <1>11, <2>1, <2>2, <2>3, <2>4 DEF DentriesLinked
  <1>18. DentriesDiffer'
    BY <1>1, <1>7, <1>8, <1>9 DEF DentriesDiffer
  <1>19. Bounds'
    <2> SUFFICES ASSUME NEW m \in Name PROVE i_refcnt'[m] >= 0 /\ i_size[m] >= -1
      BY <1>7, <1>9 DEF Bounds
    <2>1. i_refcnt[n] \in Int /\ i_refcnt[n] >= 2
      BY <1>1, <1>3, <1>6 DEF Types, n
    <2>2. QED
      BY <1>1, <1>11, <2>1 DEF Bounds
  <1>20. QED
    BY <1>12, <1>13, <1>14, <1>15, <1>16, <1>17, <1>18, <1>19 DEF IInv

-----------------------------------------------------------------------------
\* A call moves the position of a descriptor's file object, and files only grow.
LEMMA MoveKeepsIInv ==
    ASSUME IInv, NEW t \in Task, NEW fd \in Fd, held[t][fd] # Null,
           NEW x \in Int, Inside(x, i_size'[held[t][fd]]),
           file' = [file EXCEPT ![filp[t][fd]].pos = x],
           i_size' \in [Name -> Int], \A m \in Name : i_size'[m] >= i_size[m],
           UNCHANGED <<tasks, filp, freeFiles, dentry, cached, i_refcnt, held>>
    PROVE  IInv'
  <1> DEFINE a == filp[t][fd]
  <1>1. Types /\ SlotsFilled /\ Reached /\ FilesReached /\ DentriesReached
        /\ DentriesLinked /\ DentriesDiffer /\ Bounds
    BY DEF IInv
  <1>2. /\ a \in FileObj /\ file[a] \in FileRec
        /\ dentry[file[a].dentry].name = held[t][fd]
    BY <1>1 DEF Reached, Types
  <1>3. file' = [file EXCEPT ![a] = [file[a] EXCEPT !.pos = x]]
    OBVIOUS
  <1> HIDE DEF a
  <1>4. /\ file' \in [FileObj -> FileRec]
        /\ file'[a].dentry = file[a].dentry /\ file'[a].pos = x
        /\ \A b \in FileObj : b # a => file'[b] = file[b]
    <2>1. /\ [file[a] EXCEPT !.pos = x] \in FileRec
          /\ [file[a] EXCEPT !.pos = x].dentry = file[a].dentry
          /\ [file[a] EXCEPT !.pos = x].pos = x
      BY <1>2, PosChanges
    <2>2. file \in [FileObj -> FileRec]
      BY <1>1 DEF Types
    <2> DEFINE r == [file[a] EXCEPT !.pos = x]
    <2>3. r \in FileRec /\ r.dentry = file[a].dentry /\ r.pos = x /\ file' = [file EXCEPT ![a] = r]
      BY <1>3, <2>1
    <2> HIDE DEF r
    <2>4. QED
      BY <1>2, <2>2, <2>3
  <1>5. \A b \in FileObj : file'[b].dentry = file[b].dentry
    BY <1>4
  <1>6. Types' /\ SlotsFilled'
    BY <1>1, <1>4 DEF Types, SlotsFilled
  <1>7. Reached'
    <2> SUFFICES ASSUME NEW u \in Task, NEW g \in Fd, held'[u][g] # Null
                 PROVE  /\ filp'[u][g] \in FileObj \ freeFiles'
                        /\ file'[filp'[u][g]].dentry \in cached' \ {Root}
                        /\ dentry'[file'[filp'[u][g]].dentry].name = held'[u][g]
                        /\ Inside(file'[filp'[u][g]].pos, i_size'[held'[u][g]])
      BY DEF Reached
    <2> DEFINE b == filp[u][g]
               m == held[u][g]
    <2>1. /\ b \in FileObj \ freeFiles /\ file[b].dentry \in cached \ {Root}
          /\ dentry[file[b].dentry].name = m /\ Inside(file[b].pos, i_size[m])
      BY <1>1 DEF Reached
    <2>2. m \in Name /\ filp'[u][g] = b /\ held'[u][g] = m
      BY <1>1 DEF Types
    <2>3. i_size[m] \in Int /\ i_size'[m] \in Int /\ i_size'[m] >= i_size[m]
      BY <1>1, <2>2 DEF Types
    <2> HIDE DEF b, m
    <2>4. Inside(file'[b].pos, i_size'[m])
      <3>1. CASE b = a
        <4>1. m = held[t][fd]
          BY <1>2, <2>1, <3>1
        <4>2. QED
          BY <1>4, <3>1, <4>1
      <3>2. CASE b # a
        <4>1. file'[b] = file[b]
          BY <1>4, <2>1, <3>2
        <4>2. file[b].pos \in Int
          BY <1>1, <2>1 DEF Types, FileRec
        <4>3. QED
          BY <2>1, <2>3, <4>1, <4>2, Growing
      <3>3. QED
        BY <3>1, <3>2
    <2>5. QED
      BY <1>5, <2>1, <2>2, <2>4
  <1>8. FilesReached' /\ DentriesReached' /\ DentriesDiffer'
    BY <1>1, <1>5 DEF FilesReached, DentriesReached, DentriesDiffer
  <1>9. \A d : Users(d)' = Users(d)
    BY <1>5 DEF Users
  <1>10. DentriesLinked'
    <2> SUFFICES ASSUME NEW d \in cached \ {Root}
                 PROVE  /\ dentry[d].name \in Name /\ dentry[d].inode = dentry[d].name
                        /\ dentry[d].parent = Root
                        /\ dentry[d].refcnt = 1 + Cardinality(Users(d)')
                        /\ i_refcnt[dentry[d].name] >= 2 /\ i_size'[dentry[d].name] >= 0
      BY DEF DentriesLinked
    <2>1. /\ dentry[d].name \in Name /\ i_size[dentry[d].name] >= 0
          /\ dentry[d].inode = dentry[d].name /\ dentry[d].parent = Root
          /\ dentry[d].refcnt = 1 + Cardinality(Users(d)) /\ i_refcnt[dentry[d].name] >= 2
      BY <1>1 DEF DentriesLinked
    <2>2. i_size[dentry[d].name] \in Int /\ i_size'[dentry[d].name] \in Int
      BY <1>1, <2>1 DEF Types
    <2>3. QED
      BY <1>9, <2>1, <2>2
  <1>11. Bounds'
    <2> SUFFICES ASSUME NEW m \in Name PROVE i_size'[m] >= -1
      BY <1>1 DEF Bounds
    <2>1. i_size[m] \in Int /\ i_size'[m] \in Int /\ i_size[m] >= -1
      BY <1>1 DEF Types, Bounds
    <2>2. QED
      BY <2>1
  <1>12. QED
    BY <1>6, <1>7, <1>8, <1>10, <1>11 DEF IInv

\* What a descriptor leads to, for the calls that use it.
LEMMA DescriptorLeads ==
    ASSUME IInv, NEW t \in Task, NEW fd \in Fd, held[t][fd] # Null
    PROVE  LET n == held[t][fd] IN
           /\ DentryOf(t, fd).inode = n /\ n \in Name
           /\ i_size[n] \in Nat /\ FileOf(t, fd).pos \in Int
  <1> DEFINE a == filp[t][fd]
             n == held[t][fd]
             d == file[a].dentry
  <1>1. Types /\ Reached /\ DentriesLinked
    BY DEF IInv
  <1>2. /\ a \in FileObj /\ d \in cached \ {Root} /\ dentry[d].name = n
        /\ file[a].pos \in Int
    BY <1>1 DEF Reached, Types, FileRec
  <1>3. n \in Name /\ dentry[d].inode = n /\ i_size[n] >= 0
    BY <1>1, <1>2 DEF DentriesLinked
  <1>4. i_size[n] \in Int
    BY <1>1, <1>3 DEF Types
  <1>5. DentryOf(t, fd).inode = dentry[d].inode /\ FileOf(t, fd).pos = file[a].pos
    BY DEF DentryOf, FileOf
  <1> HIDE DEF a, n, d
  <1>6. i_size[n] \in Nat /\ file[a].pos \in Int
    BY <1>2, <1>3, <1>4
  <1>7. QED
    BY <1>3, <1>5, <1>6 DEF n

LEMMA LseekKeepsIInv ==
    ASSUME IInv, NEW t \in Task, NEW fd \in Fd, NEW whence, NEW x \in -1 .. MaxSize,
           Lseek(t, fd, whence, x)
    PROVE  IInv'
  <1>1. held[t][fd] # Null
    BY DEF Lseek, Using
  <1> DEFINE n == held[t][fd]
  <1>2. DentryOf(t, fd).inode = n /\ n \in Name
    BY <1>1, DescriptorLeads
  <1>3. n # Null
    BY <1>2, Constants
  <1>4. /\ Inside(x, i_size[n]) /\ file' = [file EXCEPT ![filp[t][fd]].pos = x]
        /\ UNCHANGED <<tasks, filp, freeFiles, dentry, cached, i_refcnt, i_size, held>>
    BY <1>2, <1>3 DEF Lseek, Inside, cache, slots
  <1>5. /\ i_size' \in [Name -> Int] /\ \A m \in Name : i_size'[m] >= i_size[m]
        /\ Inside(x, i_size'[n]) /\ x \in Int
    BY <1>4, OpenAssumption DEF IInv, Types
  <1>6. QED
    BY <1>1, <1>4, <1>5, MoveKeepsIInv

LEMMA ReadKeepsIInv ==
    ASSUME IInv, NEW t \in Task, NEW fd \in Fd, NEW count \in 1 .. MaxSize,
           Read(t, fd, count)
    PROVE  IInv'
  <1>1. held[t][fd] # Null
    BY DEF Read, Using
  <1> DEFINE n == held[t][fd]
             pos == FileOf(t, fd).pos
             x == IF pos + count > i_size[n] THEN i_size[n] ELSE pos + count
  <1>2. /\ DentryOf(t, fd).inode = n /\ n \in Name
        /\ i_size[n] \in Nat /\ pos \in Int
    BY <1>1, DescriptorLeads
  <1>3. n # Null
    BY <1>2, Constants
  <1>4. CASE pos < 0 \/ pos > i_size[n]
    <2>1. \E why : Halt(why)
      BY <1>2, <1>3, <1>4 DEF Read
    <2>2. QED
      BY <2>1, StoppingKeepsIInv DEF Halt, slots, cache
  <1>5. CASE ~(pos < 0 \/ pos > i_size[n])
    <2>1. /\ file' = [file EXCEPT ![filp[t][fd]].pos = x]
          /\ UNCHANGED <<tasks, filp, freeFiles, dentry, cached, i_refcnt, i_size, held>>
      BY <1>2, <1>3, <1>5 DEF Read, cache, slots
    <2>2. x \in Nat /\ x <= i_size[n]
      BY <1>2, <1>5, OpenAssumption
    <2> HIDE DEF x
    <2>3. /\ i_size' \in [Name -> Int] /\ \A m \in Name : i_size'[m] >= i_size[m]
          /\ Inside(x, i_size'[n]) /\ x \in Int
      BY <1>2, <2>1, <2>2 DEF IInv, Types, Inside
    <2>4. QED
      BY <1>1, <2>1, <2>3, MoveKeepsIInv
  <1>6. QED
    BY <1>4, <1>5

LEMMA WriteKeepsIInv ==
    ASSUME IInv, NEW t \in Task, NEW fd \in Fd, NEW count \in 1 .. MaxSize,
           Write(t, fd, count)
    PROVE  IInv'
  <1>1. held[t][fd] # Null
    BY DEF Write, Using
  <1> DEFINE n == held[t][fd]
             pos == FileOf(t, fd).pos
             x == pos + count
  <1>2. /\ DentryOf(t, fd).inode = n /\ n \in Name
        /\ i_size[n] \in Nat /\ pos \in Int
    BY <1>1, DescriptorLeads
  <1>3. n # Null
    BY <1>2, Constants
  <1>4. CASE \E why : Halt(why)
    BY <1>4, StoppingKeepsIInv DEF Halt, slots, cache
  <1>5. CASE ~\E why : Halt(why)
    <2>1. /\ pos >= 0 /\ file' = [file EXCEPT ![filp[t][fd]].pos = x]
          /\ i_size' = [i_size EXCEPT ![n] = IF x > @ THEN x ELSE @]
          /\ UNCHANGED <<tasks, filp, freeFiles, dentry, cached, i_refcnt, held>>
      <3>1. \A why : ~Halt(why)
        BY <1>5
      <3>2. PICK far \in BOOLEAN :
            IF pos < 0 THEN Halt("assert pos")
            ELSE IF n = Null THEN Halt("assert inode")
            ELSE IF far /\ pos > i_size[n] THEN Halt("zone too big")
            ELSE /\ pos + count <= MaxSize
                 /\ file' = [file EXCEPT ![filp[t][fd]].pos = pos + count]
                 /\ i_size' = [i_size EXCEPT ![n] = IF pos + count > @ THEN pos + count ELSE @]
                 /\ UNCHANGED <<freeFiles, cache, slots, halted>>
        BY <1>2, Zenon DEF Write
      <3>3. ~(pos < 0)
        BY <3>1, <3>2, Zenon
      <3>4. pos >= 0
        BY <1>2, <3>3
      <3>5. QED
        BY <1>3, <3>1, <3>2, <3>3, <3>4, Zenon DEF cache, slots
    <2>2. x \in Nat /\ x \in Int
      BY <1>2, <2>1, OpenAssumption
    <2> HIDE DEF x
    <2>3. /\ i_size' \in [Name -> Int] /\ \A m \in Name : i_size'[m] >= i_size[m]
          /\ x <= i_size'[n] /\ i_size'[n] \in Int
      <3>1. i_size \in [Name -> Int]
        BY DEF IInv, Types
      <3> HIDE DEF n
      <3>2. QED
        BY <1>2, <2>1, <2>2, <3>1
    <2>4. Inside(x, i_size'[n])
      BY <2>2, <2>3 DEF Inside
    <2>5. QED
      BY <1>1, <2>1, <2>2, <2>3, <2>4, MoveKeepsIInv
  <1>6. QED
    BY <1>4, <1>5

\* The child has its parent's descriptors, and nothing that was not in use
\* before.
LEMMA ForkKeepsIInv ==
    ASSUME IInv, NEW t \in Task, NEW c \in Task, Fork(t, c)
    PROVE  IInv'
  <1>1. Types /\ SlotsFilled /\ Reached /\ FilesReached /\ DentriesReached
        /\ DentriesLinked /\ DentriesDiffer /\ Bounds
    BY DEF IInv
  <1>2. /\ t \in tasks /\ c \notin tasks /\ tasks' = tasks \cup {c}
        /\ filp' = [filp EXCEPT ![c] = filp[t]] /\ held' = [held EXCEPT ![c] = held[t]]
        /\ UNCHANGED <<file, freeFiles, dentry, cached, i_refcnt, i_size>>
    BY DEF Fork, cache
  <1>3. \A u \in Task, fd \in Fd :
            /\ filp'[u][fd] = IF u = c THEN filp[t][fd] ELSE filp[u][fd]
            /\ held'[u][fd] = IF u = c THEN held[t][fd] ELSE held[u][fd]
    BY <1>1, <1>2 DEF Types
  <1>4. Types'
    BY <1>1, <1>2 DEF Types
  <1>5. SlotsFilled'
    BY <1>1, <1>2, <1>3 DEF SlotsFilled
  <1>6. Reached'
    <2> SUFFICES ASSUME NEW u \in Task, NEW g \in Fd, held'[u][g] # Null
                 PROVE  /\ filp'[u][g] \in FileObj \ freeFiles'
                        /\ file'[filp'[u][g]].dentry \in cached' \ {Root}
                        /\ dentry'[file'[filp'[u][g]].dentry].name = held'[u][g]
                        /\ Inside(file'[filp'[u][g]].pos, i_size'[held'[u][g]])
      BY DEF Reached
    <2>1. PICK w \in Task : filp'[u][g] = filp[w][g] /\ held'[u][g] = held[w][g]
      <3>1. CASE u = c
        BY <1>3, <3>1
      <3>2. CASE u # c
        BY <1>3, <3>2
      <3>3. QED
        BY <3>1, <3>2
    <2>2. /\ filp[w][g] \in FileObj \ freeFiles
          /\ file[filp[w][g]].dentry \in cached \ {Root}
          /\ dentry[file[filp[w][g]].dentry].name = held[w][g]
          /\ Inside(file[filp[w][g]].pos, i_size[held[w][g]])
      BY <1>1, <2>1 DEF Reached
    <2>3. QED
      BY <1>2, <2>1, <2>2
  <1>7. FilesReached'
    <2> SUFFICES ASSUME NEW b \in FileObj \ freeFiles'
                 PROVE  \E u \in Task, g \in Fd : held'[u][g] # Null /\ filp'[u][g] = b
      BY DEF FilesReached
    <2>1. PICK u \in Task, g \in Fd : held[u][g] # Null /\ filp[u][g] = b
      BY <1>1, <1>2 DEF FilesReached
    <2>2. u # c
      BY <1>1, <1>2, <2>1 DEF SlotsFilled
    <2>3. QED
      BY <1>3, <2>1, <2>2
  <1>8. DentriesReached' /\ DentriesDiffer' /\ Bounds'
    BY <1>1, <1>2 DEF DentriesReached, DentriesDiffer, Bounds
  <1>9. \A d : Users(d)' = Users(d)
    BY <1>2 DEF Users
  <1>10. DentriesLinked'
    BY <1>1, <1>2, <1>9 DEF DentriesLinked
  <1>11. QED
    BY <1>4, <1>5, <1>6, <1>7, <1>8, <1>10 DEF IInv

LEMMA NextKeepsIInv ==
    ASSUME IInv, [Next]_vars, "shared" \notin Usage
    PROVE  IInv'
  <1>1. CASE UNCHANGED vars
    BY <1>1, StoppingKeepsIInv DEF vars
  <1>2. ASSUME NEW t \in Task, NEW n \in Name,
               OpenHit(t, n) \/ OpenMiss(t, n) \/ OpenFails(t, n)
        PROVE  IInv'
    BY <1>2, HitKeepsIInv, MissKeepsIInv, OpenFailsKeepsIInv
  <1>3. ASSUME NEW t \in Task, OpenPath(t) \/ OpenStops(t) PROVE IInv'
    <2>1. CASE OpenPath(t)
      BY <2>1, OpenPathKeepsIInv
    <2>2. CASE OpenStops(t)
      BY <2>2, StoppingKeepsIInv DEF OpenStops, Halt, slots, cache
    <2>3. QED
      BY <1>3, <2>1, <2>2
  <1>4. ASSUME NEW t \in Task, NEW fd \in Fd, Close(t, fd) PROVE IInv'
    BY <1>4, CloseKeepsIInv
  <1>5. /\ \A t \in Task, fd \in Fd, count \in 1 .. MaxSize :
                Read(t, fd, count) \/ Write(t, fd, count) => IInv'
        /\ \A t \in Task, fd \in Fd, whence \in {"set", "end"}, pos \in -1 .. MaxSize :
                Lseek(t, fd, whence, pos) => IInv'
    BY LseekKeepsIInv, ReadKeepsIInv, WriteKeepsIInv
  <1>6. ASSUME NEW t \in Task, NEW c \in Task, Fork(t, c) PROVE IInv'
    BY <1>6, ForkKeepsIInv
  <1>7. QED
    BY <1>1, <1>2, <1>3, <1>4, <1>5, <1>6 DEF Next

-----------------------------------------------------------------------------
LEMMA Invariant == ASSUME "shared" \notin Usage PROVE Spec => []IInv
  <1>1. IInv /\ [Next]_vars => IInv'
    BY NextKeepsIInv
  <1>2. QED
    BY InitIInv, <1>1, PTL DEF Spec

\* A descriptor belongs to a live task and leads to an object of each kind.
LEMMA DescriptorSlots ==
    ASSUME IInv
    PROVE  /\ \A s \in Descriptor : s[1] \in Task /\ s[2] \in Fd /\ held[s[1]][s[2]] # Null
           /\ \A t \in Task, fd \in Fd : held[t][fd] # Null => <<t, fd>> \in Descriptor
  <1>1. Types /\ SlotsFilled
    BY DEF IInv
  <1>2. ASSUME NEW t \in Task, NEW fd \in Fd, held[t][fd] # Null
        PROVE  <<t, fd>> \in Descriptor
    BY <1>1, <1>2 DEF Descriptor, SlotsFilled
  <1>3. ASSUME NEW s \in Descriptor
        PROVE  s[1] \in Task /\ s[2] \in Fd /\ held[s[1]][s[2]] # Null
    BY <1>1 DEF Descriptor, Types
  <1>4. QED
    BY <1>2, <1>3

\* Nobody closes a file that another descriptor has open: then a descriptor
\* leads to the file it was opened for until its task closes it, although the
\* slots of sys_open and the objects of the slabs are used again and again.
THEOREM DescriptorsLeadToTheirFiles ==
    ASSUME "shared" \notin Usage PROVE Spec => []DescriptorsKeepTheirFile
  <1>1. IInv => DescriptorsKeepTheirFile
    <2> SUFFICES ASSUME IInv, NEW s \in Descriptor
                 PROVE  /\ filp[s[1]][s[2]] \notin freeFiles
                        /\ file[filp[s[1]][s[2]]].dentry \in cached
                        /\ dentry[file[filp[s[1]][s[2]]].dentry].inode = held[s[1]][s[2]]
                        /\ dentry[file[filp[s[1]][s[2]]].dentry].name = held[s[1]][s[2]]
                        /\ i_refcnt[held[s[1]][s[2]]] > 0
      BY DEF DescriptorsKeepTheirFile, Used, FileObject
    <2> DEFINE n == held[s[1]][s[2]]
               a == filp[s[1]][s[2]]
               d == file[a].dentry
    <2>1. s[1] \in Task /\ s[2] \in Fd /\ n # Null
      BY DescriptorSlots
    <2>2. a \in FileObj \ freeFiles /\ d \in cached \ {Root} /\ dentry[d].name = n
      BY <2>1 DEF IInv, Reached
    <2>3. n \in Name /\ dentry[d].inode = n /\ i_refcnt[n] >= 2
      BY <2>2 DEF IInv, DentriesLinked
    <2>4. i_refcnt[n] \in Int
      BY <2>3 DEF IInv, Types
    <2> HIDE DEF n, a, d
    <2>5. i_refcnt[n] > 0
      BY <2>3, <2>4
    <2>6. QED
      BY <2>2, <2>3, <2>5 DEF n, a, d
  <1>2. QED
    BY Invariant, <1>1, PTL

\* ... no position is behind the end of its file if no caller seeks there, which
\* sys_lseek does not prevent,
THEOREM PositionsStayInFiles ==
    ASSUME "shared" \notin Usage, "beyond" \notin Usage
    PROVE  Spec => []PositionsInFile
  <1>1. IInv => PositionsInFile
    BY DescriptorSlots DEF IInv, Reached, Inside, PositionsInFile, FileObject
  <1>2. QED
    BY Invariant, <1>1, PTL

\* ... so that every read returns under that usage (sys_read),
THEOREM ReadsReturn ==
    ASSUME "shared" \notin Usage, "beyond" \notin Usage
    PROVE  Spec => []ReadsEnd
  <1>1. Init => ReadsEnd
    BY DEF Init, ReadsEnd
  <1>2. IInv /\ ReadsEnd /\ [Next]_vars => ReadsEnd'
    <2> SUFFICES ASSUME IInv, ReadsEnd, [Next]_vars PROVE ReadsEnd'
      OBVIOUS
    <2>1. CASE UNCHANGED vars
      BY <2>1 DEF vars, ReadsEnd
    <2>2. ASSUME NEW t \in Task, NEW n \in Name,
                 OpenHit(t, n) \/ OpenMiss(t, n) \/ OpenFails(t, n)
          PROVE  ReadsEnd'
      BY <2>2 DEF ReadsEnd, OpenHit, OpenMiss, OpenFails, Enter
    <2>3. ASSUME NEW t \in Task, OpenPath(t) \/ OpenStops(t) PROVE ReadsEnd'
      BY <2>3 DEF ReadsEnd, OpenPath, OpenStops, Halt
    <2>4. ASSUME NEW t \in Task, NEW fd \in Fd, Close(t, fd) PROVE ReadsEnd'
      BY <2>4 DEF ReadsEnd, Close, Halt
    <2>5. ASSUME NEW t \in Task, NEW fd \in Fd, NEW whence \in {"set", "end"},
                 NEW pos \in -1 .. MaxSize, Lseek(t, fd, whence, pos)
          PROVE  ReadsEnd'
      BY <2>5 DEF ReadsEnd, Lseek, Halt
    <2>6. ASSUME NEW t \in Task, NEW fd \in Fd, NEW count \in 1 .. MaxSize,
                 Write(t, fd, count)
          PROVE  ReadsEnd'
      BY <2>6 DEF ReadsEnd, Write, Halt
    <2>7. ASSUME NEW t \in Task, NEW fd \in Fd, NEW count \in 1 .. MaxSize,
                 Read(t, fd, count)
          PROVE  ReadsEnd'
      <3> DEFINE a == filp[t][fd]
                 n == dentry[file[a].dentry].inode
      <3>1. held[t][fd] # Null
        BY <2>7 DEF Read, Using
      <3>2. /\ file[a].dentry \in cached \ {Root}
            /\ dentry[file[a].dentry].name = held[t][fd]
            /\ file[a].pos \in 0 .. i_size[held[t][fd]]
        BY <3>1 DEF IInv, Reached, Inside
      <3>3. n = held[t][fd] /\ n \in Name
        BY <3>2 DEF IInv, DentriesLinked
      <3>4. ~(file[a].pos > i_size[n])
        BY <3>2, <3>3 DEF IInv, Types
      <3>5. QED
        BY <2>7, <3>4 DEF ReadsEnd, Read, Halt, FileOf, DentryOf
    <2>8. ASSUME NEW t \in Task, NEW c \in Task, Fork(t, c) PROVE ReadsEnd'
      BY <2>8 DEF ReadsEnd, Fork
    <2>9. QED
      BY <2>1, <2>2, <2>3, <2>4, <2>5, <2>6, <2>7, <2>8 DEF Next
  <1>3. QED
    BY <1>1, <1>2, Invariant, PTL DEF Spec

\* ... and no sequence of opens, failed opens, forks and closes loses a file
\* object, a dentry or a count.
THEOREM NothingIsLost ==
    ASSUME "shared" \notin Usage PROVE Spec => []CachesHoldOpenFiles
  <1>1. IInv => CachesHoldOpenFiles
    <2> SUFFICES ASSUME IInv PROVE CachesHoldOpenFiles
      OBVIOUS
    <2>1. FileObj \ freeFiles = {FileObject(s) : s \in Descriptor}
      <3>1. \A s \in Descriptor : FileObject(s) \in FileObj \ freeFiles
        BY DescriptorSlots DEF IInv, Reached, FileObject
      <3>2. ASSUME NEW a \in FileObj \ freeFiles PROVE \E s \in Descriptor : FileObject(s) = a
        <4>1. PICK t \in Task, fd \in Fd : held[t][fd] # Null /\ filp[t][fd] = a
          BY DEF IInv, FilesReached
        <4> DEFINE s == <<t, fd>>
        <4>2. s \in Descriptor /\ FileObject(s) = a
          BY <4>1, DescriptorSlots DEF FileObject
        <4>3. QED
          BY <4>2
      <3>3. QED
        BY <3>1, <3>2
    <2>2. freeFiles \subseteq FileObj
      BY DEF IInv, Types
    <2>3. freeFiles = FileObj \ {FileObject(s) : s \in Descriptor}
      BY <2>1, <2>2
    <2>4. cached \ {Root} = {Used(s) : s \in Descriptor}
      <3>1. \A s \in Descriptor : Used(s) \in cached \ {Root}
        BY DescriptorSlots DEF IInv, Reached, Used, FileObject
      <3>2. ASSUME NEW d \in cached \ {Root} PROVE \E s \in Descriptor : Used(s) = d
        <4>1. PICK a \in FileObj \ freeFiles : file[a].dentry = d
          BY DEF IInv, DentriesReached
        <4>2. PICK s \in Descriptor : FileObject(s) = a
          BY <2>1
        <4>3. QED
          BY <4>1, <4>2 DEF Used
      <3>3. QED
        BY <3>1, <3>2
    <2>5. \A d \in cached \ {Root} : dentry[d].refcnt = 1 + Cardinality(Users(d))
      BY DEF IInv, DentriesLinked
    <2>6. QED
      BY <2>3, <2>4, <2>5 DEF CachesHoldOpenFiles, Users
  <1>2. QED
    BY Invariant, <1>1, PTL
=============================================================================
