------------------------------ MODULE VmProofs ------------------------------
(* Isolation of forked tasks, for every number of tasks, pages and frames: *)
(* who may write a frame, what a frame is used for, and that faults change *)
(* nothing a task can read.                                                *)
EXTENDS Vm, FiniteSetTheorems, TLAPS

\* A page of low memory is mapped at its own place or has been copied to a frame.
Home ==
    \A t \in Task, o \in Off : pte[t][o] # None =>
        pte[t][o].frame \in Frame \/ (o \in Low /\ pte[t][o].frame = o)

\* A free slot has nothing mapped.
FreeSlotsEmpty ==
    \A t \in Task \ Alive :
        /\ \A o \in Off : pte[t][o] = None
        /\ \A r \in Region : table[t][r] = NoTable

\* The screen stays mapped and writable in every task.
ScreenMapped ==
    \A t \in Alive : pte[t][Screen] = [frame |-> Screen, write |-> TRUE]

\* Only task 0 writes low memory in place.
LowHasOneWriter ==
    \A t \in Task, o \in Low \ {Screen} :
        pte[t][o].write /\ pte[t][o].frame \notin Frame => t = 0

\* The map the kernel works through: an entry for a frame of the allocator leads
\* to that frame, and only task 0's may be written.
KernelMapStays ==
    \A t \in Task, o \in Off : KernelMap(t, o) /\ pte[t][o] # None =>
        pte[t][o].frame = o /\ (pte[t][o].write => t = 0)

\* Every task is task 0 or descends from it.
AllFromInit == 0 \in Alive /\ \A t \in Alive \ {0} : 0 \in ancestors[t]

IInv ==
    /\ TypeOK /\ Home /\ FreeSlotsEmpty /\ ScreenMapped /\ LowHasOneWriter
    /\ KernelMapStays /\ AllFromInit
    /\ OneWriter /\ WritersAreAncestors /\ FramesHaveOneUse

-----------------------------------------------------------------------------
LEMMA Numbers ==
    /\ Frame \subseteq Nat /\ -1 \notin Frame /\ -2 \notin Frame
    /\ 0 \in Task /\ Screen \in Low /\ Screen \notin Frame /\ Screen \in Off /\ Low \subseteq Off /\ Low \subseteq Nat
    /\ Region = {"low", "far"}
  BY VmAssumption DEF Frame, Task, Off, Region

\* Which pages user code uses.
LEMMA UserPages ==
    /\ \A t \in Task : User(t) \subseteq Off /\ Low \ Frame \subseteq User(t)
    /\ \A t \in Task, o \in Off : o \in User(t) <=> ~KernelMap(t, o)
    /\ \A t \in Task \ {0} : Far \subseteq User(t)
    /\ \A t \in Task : Screen \in User(t)
  BY Numbers, VmAssumption DEF User, KernelMap, Off

\* What n calls of alloc_page return for one and for two pages.
LEMMA OneFrame ==
    ASSUME NEW fs \in SUBSET Frame, Cardinality(fs) = 1
    PROVE  First(fs) \in fs /\ Last(fs) = First(fs)
  <1>1. IsFiniteSet(fs)
    <2>1. IsFiniteSet(Frame)
      BY VmAssumption, FS_Interval DEF Frame
    <2>2. QED
      BY <2>1, FS_Subset
  <1>2. PICK x : fs = {x}
    BY <1>1, FS_Singleton
  <1>3. x \in Nat
    BY <1>2, Numbers
  <1>4. QED
    BY <1>2, <1>3 DEF First, Last

LEMMA TwoFrames ==
    ASSUME NEW fs \in SUBSET Frame, Cardinality(fs) = 2
    PROVE  First(fs) \in fs /\ Last(fs) \in fs /\ First(fs) # Last(fs)
  <1>1. IsFiniteSet(fs)
    <2>1. IsFiniteSet(Frame)
      BY VmAssumption, FS_Interval DEF Frame
    <2>2. QED
      BY <2>1, FS_Subset
  <1>2. PICK x \in fs : TRUE
    BY <1>1, FS_EmptySet
  <1> DEFINE rest == fs \ {x}
  <1>3. Cardinality(rest) = 1 /\ IsFiniteSet(rest)
    BY <1>1, <1>2, FS_RemoveElement
  <1>4. PICK y : rest = {y}
    BY <1>3, FS_Singleton
  <1>5. fs = {x, y} /\ x # y
    BY <1>2, <1>4
  <1>6. x \in Nat /\ y \in Nat
    BY <1>5, Numbers
  <1>7. fs = {x, y} /\ x # y /\ x \in Nat /\ y \in Nat
    BY <1>5, <1>6
  <1> HIDE DEF rest
  <1>8. CASE x < y
    <2>1. First(fs) = x /\ Last(fs) = y
      BY <1>7, <1>8 DEF First, Last
    <2>2. QED
      BY <1>7, <2>1
  <1>9. CASE y < x
    <2>1. First(fs) = y /\ Last(fs) = x
      BY <1>7, <1>9 DEF First, Last
    <2>2. QED
      BY <1>7, <2>1
  <1>10. QED
    BY <1>7, <1>8, <1>9

\* Nothing leads to a frame that alloc_page still has.
LEMMA FreshFrame ==
    ASSUME NEW f \in Frame \ Used
    PROVE  /\ \A t \in Task : \A o \in User(t) : pte[t][o].frame # f
           /\ \A t \in Task, r \in Region : table[t][r] # f
           /\ \A t \in Task : page[t] # f
  BY DEF Used, DataFrames, TableFrames, TaskFrames

LEMMA InitIInv == Init => IInv
  <1> SUFFICES ASSUME Init PROVE IInv
    OBVIOUS
  <1>1. Alive = {0}
    BY Numbers DEF Init, Alive, Boot, NoTable
  <1>2. TypeOK
    BY <1>1, Numbers, VmAssumption DEF Init, TypeOK, Entry, None, Boot, NoTable
  <1>3. Home /\ FreeSlotsEmpty /\ ScreenMapped /\ LowHasOneWriter
    BY <1>1, Numbers, VmAssumption
       DEF Init, Home, FreeSlotsEmpty, ScreenMapped, LowHasOneWriter, None
  <1>7. KernelMapStays /\ AllFromInit
    BY <1>1, Numbers, VmAssumption DEF Init, KernelMapStays, KernelMap, AllFromInit, None
  <1>4. OneWriter /\ WritersAreAncestors
    BY Numbers, VmAssumption DEF Init, OneWriter, WritersAreAncestors, None, User, KernelMap
  <1>5. FramesHaveOneUse
    <2>1. DataFrames = {}
      <3> SUFFICES ASSUME NEW t \in Task, NEW o \in User(t), pte[t][o].frame \in Frame
                   PROVE  FALSE
        BY DEF DataFrames
      <3>1. o \in Off /\ ~(t = 0 /\ o \in Frame)
        BY UserPages DEF KernelMap
      <3>2. pte[t][o] = IF t = 0 /\ o \in Low \cup Frame
                        THEN [frame |-> o, write |-> TRUE] ELSE None
        BY <3>1 DEF Init
      <3>3. QED
        BY <3>1, <3>2, Numbers DEF None
    <2>3. TableFrames = {} /\ TaskFrames = {}
      BY Numbers DEF Init, TableFrames, TaskFrames, Boot, NoTable
    <2>2. QED
      BY <2>1, <2>3, Numbers DEF Init, FramesHaveOneUse, Boot, NoTable
  <1>6. QED
    BY <1>2, <1>3, <1>4, <1>5, <1>7 DEF IInv

-----------------------------------------------------------------------------
\* The entries a handler and a fork leave behind, and what holds of them.
LEMMA EntryTypes ==
    ASSUME TypeOK
    PROVE  \A t \in Task, o \in Off :
              /\ pte[t][o] \in Entry \cup {None}
              /\ pte[t][o].write \in BOOLEAN /\ None.write = FALSE
              /\ None.frame \notin Low \cup Frame
              /\ pte[t][o] # None => pte[t][o].frame \in Low \cup Frame
  <1> SUFFICES ASSUME NEW t \in Task, NEW o \in Off
               PROVE  /\ pte[t][o] \in Entry \cup {None}
                      /\ pte[t][o].write \in BOOLEAN /\ None.write = FALSE
                      /\ None.frame \notin Low \cup Frame
                      /\ pte[t][o] # None => pte[t][o].frame \in Low \cup Frame
    OBVIOUS
  <1>1. pte[t][o] \in Entry \cup {None}
    BY DEF TypeOK
  <1>2. None.frame = -1 /\ None.write = FALSE
    BY DEF None
  <1>3. None.frame \notin Low \cup Frame
    BY <1>2, Numbers
  <1>4. pte[t][o].write \in BOOLEAN
    BY <1>1, <1>2 DEF Entry
  <1>5. pte[t][o] # None => pte[t][o].frame \in Low \cup Frame
    BY <1>1 DEF Entry
  <1>6. QED
    BY <1>1, <1>2, <1>3, <1>4, <1>5

LEMMA MappedLow ==
    ASSUME TypeOK
    PROVE  /\ Alive \subseteq Task
           /\ \A t \in Alive, o \in Low : o \in Off /\ pte[t][o] # None /\ pte[t][o] \in Entry
  <1>1. \A t \in Alive, o \in Low : pte[t][o] # None
    BY DEF TypeOK
  <1>2. Alive \subseteq Task
    BY DEF Alive
  <1>3. \A t \in Alive, o \in Low : pte[t][o] \in Entry \cup {None}
    BY <1>2, EntryTypes, Numbers
  <1>4. QED
    BY <1>1, <1>2, <1>3, Numbers

\* A page fault gives a task a page of its own.
LEMMA NewEntry ==
    ASSUME IInv, NEW t \in Alive, NEW o \in User(t) \ {Screen}, NEW f \in Frame \ Used,
           pte' = [pte EXCEPT ![t][o] = [frame |-> f, write |-> TRUE]],
           page' = page, ancestors' = ancestors
    PROVE  /\ pte' \in [Task -> [Off -> Entry \cup {None}]]
           /\ \A u \in Alive', p \in Low : pte'[u][p] # None
           /\ Home' /\ ScreenMapped' /\ LowHasOneWriter' /\ KernelMapStays' /\ AllFromInit'
           /\ OneWriter' /\ WritersAreAncestors'
           /\ DataFrames' \subseteq DataFrames \cup {f}
  <1> DEFINE new == [frame |-> f, write |-> TRUE]
  <1>1. /\ TypeOK /\ Home /\ ScreenMapped /\ LowHasOneWriter /\ OneWriter
        /\ WritersAreAncestors /\ KernelMapStays /\ AllFromInit /\ FreeSlotsEmpty
    BY DEF IInv
  <1>2. t \in Task /\ Alive' = Alive /\ o \in Off /\ ~KernelMap(t, o)
    BY UserPages DEF Alive
  <1>3. \A u \in Task, p \in Off :
            pte'[u][p] = IF u = t /\ p = o THEN new ELSE pte[u][p]
    BY <1>1, <1>2 DEF TypeOK
  <1>4. \A u \in Task : \A p \in User(u) : pte[u][p].frame # f
    BY FreshFrame
  <1>14. \A u \in Task, p \in Off :
            pte[u][p].frame = f /\ pte[u][p].write => u = 0 /\ KernelMap(u, p)
    <2> SUFFICES ASSUME NEW u \in Task, NEW p \in Off,
                        pte[u][p].frame = f, pte[u][p].write
                 PROVE  u = 0 /\ KernelMap(u, p)
      OBVIOUS
    <2>1. KernelMap(u, p) /\ pte[u][p] # None
      BY <1>1, <1>4, UserPages, EntryTypes
    <2>2. QED
      BY <1>1, <2>1 DEF KernelMapStays
  <1>5. new \in Entry /\ new # None /\ new.frame = f /\ new.write
    BY DEF Entry, None
  <1>6. pte' \in [Task -> [Off -> Entry \cup {None}]]
    BY <1>1, <1>2, <1>5 DEF TypeOK
  <1> HIDE DEF new
  <1>7. \A u \in Alive', p \in Low : pte'[u][p] # None
    <2> SUFFICES ASSUME NEW u \in Alive, NEW p \in Low PROVE pte'[u][p] # None
      BY <1>2
    <2>1. u \in Task /\ p \in Off /\ pte[u][p] # None
      BY <1>1, MappedLow
    <2>2. pte'[u][p] = IF u = t /\ p = o THEN new ELSE pte[u][p]
      BY <1>3, <2>1
    <2>3. QED
      BY <1>5, <2>1, <2>2, Zenon
  <1>8. Home' /\ LowHasOneWriter'
    BY <1>1, <1>3, <1>5, Numbers DEF Home, LowHasOneWriter
  <1>15. KernelMapStays' /\ AllFromInit'
    BY <1>1, <1>2, <1>3 DEF KernelMapStays, AllFromInit, KernelMap
  <1>9. ScreenMapped'
    <2>1. \A u \in Alive : pte'[u][Screen] = pte[u][Screen]
      BY <1>1, <1>3, MappedLow, Numbers
    <2>2. QED
      BY <1>1, <1>2, <2>1 DEF ScreenMapped
  <1>10. OneWriter'
    <2> SUFFICES ASSUME NEW u \in Task, NEW v \in Task, NEW p \in Off, NEW q \in Off,
                        pte'[u][p].write, pte'[v][q].write,
                        pte'[u][p].frame = pte'[v][q].frame, p # Screen
                 PROVE  \/ u = v /\ p = q
                        \/ u = 0 /\ KernelMap(u, p)
                        \/ v = 0 /\ KernelMap(v, q)
      BY DEF OneWriter, KernelMap
    <2>1. CASE u = t /\ p = o
      BY <2>1, <1>3, <1>14, <1>5
    <2>2. CASE v = t /\ q = o
      BY <2>2, <1>3, <1>14, <1>5
    <2>3. CASE ~(u = t /\ p = o) /\ ~(v = t /\ q = o)
      BY <2>3, <1>1, <1>3 DEF OneWriter
    <2>4. QED
      BY <2>1, <2>2, <2>3
  <1>11. WritersAreAncestors'
    <2> SUFFICES ASSUME NEW u \in Task, NEW v \in Task, NEW p \in User(u), NEW q \in Off,
                        u # v, q # Screen, pte'[u][p] # None,
                        pte'[u][p].frame = pte'[v][q].frame, pte'[v][q].write
                 PROVE  v \in ancestors[u]
      BY DEF WritersAreAncestors, User, KernelMap
    <2>0. p \in Off
      BY UserPages
    <2>1. CASE u = t /\ p = o
      <3>1. v = 0
        BY <2>1, <1>3, <1>14, <1>5, <2>0
      <3>2. QED
        BY <2>1, <3>1, <1>1 DEF AllFromInit
    <2>2. CASE v = t /\ q = o
      BY <2>0, <2>2, <1>3, <1>4, <1>5
    <2>3. CASE ~(u = t /\ p = o) /\ ~(v = t /\ q = o)
      BY <2>0, <2>3, <1>1, <1>3 DEF WritersAreAncestors
    <2>4. QED
      BY <2>1, <2>2, <2>3
  <1>12. DataFrames' \subseteq DataFrames \cup {f}
    <2> SUFFICES ASSUME NEW u \in Task, NEW p \in User(u), pte'[u][p].frame \in Frame
                 PROVE  pte'[u][p].frame \in DataFrames \cup {f}
      BY DEF DataFrames, User, KernelMap
    <2>1. p \in Off
      BY UserPages
    <2>2. QED
      BY <1>3, <1>5, <2>1 DEF DataFrames
  <1>13. QED
    BY <1>6, <1>7, <1>8, <1>9, <1>10, <1>11, <1>12, <1>15

\* share_vma: the child sees the frames of its parent and may write none of
\* them but the screen.
LEMMA ChildEntries ==
    ASSUME IInv, NEW t \in Alive, NEW c \in Task \ Alive, NEW f \in Frame,
           pte' = [pte EXCEPT ![c] = [o \in Off |-> IF o \in Low
                                            THEN Shared(pte[t])[o] ELSE @[o]]],
           page' = [page EXCEPT ![c] = f],
           ancestors' = [ancestors EXCEPT ![c] = ancestors[t] \cup {t}]
    PROVE  /\ pte' \in [Task -> [Off -> Entry \cup {None}]]
           /\ \A u \in Alive', p \in Low : pte'[u][p] # None
           /\ Alive' = Alive \cup {c}
           /\ Home' /\ ScreenMapped' /\ LowHasOneWriter' /\ KernelMapStays' /\ AllFromInit'
           /\ OneWriter' /\ WritersAreAncestors'
           /\ DataFrames' \subseteq DataFrames
  <1>1. /\ TypeOK /\ Home /\ ScreenMapped /\ LowHasOneWriter /\ OneWriter
        /\ WritersAreAncestors /\ FreeSlotsEmpty /\ KernelMapStays /\ AllFromInit
    BY DEF IInv
  <1>2. t \in Task /\ t # c /\ Alive' = Alive \cup {c}
    <2>1. f # NoTable
      BY Numbers DEF NoTable
    <2>2. QED
      BY <1>1, <2>1 DEF Alive, TypeOK
  <1>3. \A u \in Task \ {c}, p \in Off : pte'[u][p] = pte[u][p]
    BY <1>1 DEF TypeOK
  <1>4. \A p \in Far : pte'[c][p] = None
    <2>1. \A p \in Far : p \in Off /\ p \notin Low
      BY VmAssumption DEF Off
    <2>2. QED
      BY <1>1, <2>1 DEF TypeOK, FreeSlotsEmpty
  <1>5. \A p \in Low : /\ pte'[c][p] = [frame |-> pte[t][p].frame, write |-> p = Screen]
                       /\ pte[t][p] \in Entry
    <2> TAKE p \in Low
    <2>1. pte[t][p] \in Entry
      BY <1>1, MappedLow
    <2>2. pte'[c][p] = [pte[t][p] EXCEPT !.write = p = Screen]
      BY <1>1, Numbers DEF TypeOK, Shared
    <2>3. QED
      BY <2>1, <2>2 DEF Entry
  <1>6. /\ \A u \in Task, p \in Off : pte[u][p].write \in BOOLEAN
        /\ None.write = FALSE /\ None.frame \notin Low \cup Frame
    BY <1>1, EntryTypes, Numbers
  <1>50. \A p \in Low : /\ pte'[c][p] \in Entry /\ pte'[c][p] # None
                        /\ pte'[c][p].frame = pte[t][p].frame
                        /\ pte'[c][p].write = (p = Screen)
    <2> TAKE p \in Low
    <2>1. pte[t][p].frame \in Low \cup Frame
      BY <1>5 DEF Entry
    <2>2. /\ pte'[c][p].frame = pte[t][p].frame
          /\ pte'[c][p].write = (p = Screen)
      <3> DEFINE e(w) == [frame |-> pte[t][p].frame, write |-> w]
      <3>1. \A w \in BOOLEAN : e(w).frame = pte[t][p].frame /\ e(w).write = w
        OBVIOUS
      <3>2. pte'[c][p] = e(p = Screen) /\ (p = Screen) \in BOOLEAN
        BY <1>5, Zenon
      <3> HIDE DEF e
      <3>3. QED
        BY <3>1, <3>2, Zenon
    <2>3. pte'[c][p] \in Entry
      <3>1. (p = Screen) \in BOOLEAN
        OBVIOUS
      <3>2. [frame |-> pte[t][p].frame, write |-> p = Screen] \in Entry
        BY <2>1, <3>1, Zenon DEF Entry
      <3>3. QED
        BY <1>5, <3>2, Zenon
    <2>4. pte'[c][p] # None
      BY <1>6, <2>1, <2>2
    <2>5. QED
      BY <2>2, <2>3, <2>4
  <1>7. pte' \in [Task -> [Off -> Entry \cup {None}]]
    <2>1. \A p \in Off : pte'[c][p] \in Entry \cup {None}
      BY <1>4, <1>50 DEF Off
    <2>2. pte' = [pte EXCEPT ![c] = pte'[c]]
      BY <1>1 DEF TypeOK
    <2>3. pte'[c] = [p \in Off |-> pte'[c][p]]
      BY <1>1 DEF TypeOK
    <2>4. pte'[c] \in [Off -> Entry \cup {None}]
      BY <2>1, <2>3
    <2>5. QED
      BY <1>1, <2>2, <2>4 DEF TypeOK
  <1>8. \A u \in Alive', p \in Low : pte'[u][p] # None
    <2> SUFFICES ASSUME NEW u \in Alive \cup {c}, NEW p \in Low PROVE pte'[u][p] # None
      BY <1>2
    <2>1. CASE u = c
      BY <1>50, <2>1
    <2>2. CASE u # c
      <3>1. u \in Task \ {c} /\ p \in Off /\ pte[u][p] # None
        BY <1>1, <2>2, MappedLow
      <3>2. QED
        BY <1>3, <3>1
    <2>3. QED
      BY <2>1, <2>2
  <1>9. Home'
    <2> SUFFICES ASSUME NEW u \in Task, NEW p \in Off, pte'[u][p] # None
                 PROVE  pte'[u][p].frame \in Frame \/ (p \in Low /\ pte'[u][p].frame = p)
      BY DEF Home
    <2>1. CASE u = c
      <3>1. p \in Low
        BY <1>4, <2>1 DEF Off
      <3>2. pte[t][p] # None
        BY <1>2, <1>1, <3>1 DEF TypeOK
      <3>3. QED
        BY <1>1, <1>2, <1>50, <2>1, <3>1, <3>2, Numbers DEF Home
    <2>2. CASE u # c
      BY <1>1, <1>3, <2>2 DEF Home
    <2>3. QED
      BY <2>1, <2>2
  <1>10. ScreenMapped'
    <2>1. pte'[c][Screen] = [frame |-> Screen, write |-> TRUE]
      <3>1. Screen \in Low
        BY VmAssumption
      <3>2. pte[t][Screen].frame = Screen
        BY <1>1 DEF ScreenMapped
      <3>3. QED
        BY <1>5, <3>1, <3>2
    <2>2. QED
      BY <1>1, <1>2, <1>3, <2>1, Numbers DEF ScreenMapped, Alive
  <1>11. LowHasOneWriter'
    <2>1. \A p \in Low \ {Screen} : ~pte'[c][p].write
      BY <1>50
    <2>2. QED
      BY <1>1, <1>3, <2>1, Numbers DEF LowHasOneWriter
  <1>12. \A p \in Off : pte'[c][p].write => p = Screen
    BY <1>4, <1>50, <1>6 DEF Off
  <1>17. KernelMapStays'
    <2> SUFFICES ASSUME NEW u \in Task, NEW p \in Off, KernelMap(u, p), pte'[u][p] # None
                 PROVE  pte'[u][p].frame = p /\ (pte'[u][p].write => u = 0)
      BY DEF KernelMapStays, KernelMap
    <2>1. CASE u = c
      <3>1. p \in Low /\ p \in Frame
        BY <1>4, <2>1 DEF Off, KernelMap
      <3>2. KernelMap(t, p) /\ pte[t][p] # None
        BY <3>1, <1>1, MappedLow DEF KernelMap
      <3>3. pte[t][p].frame = p
        BY <1>1, <1>2, <3>2 DEF KernelMapStays
      <3>4. pte'[c][p].frame = p /\ ~pte'[c][p].write
        BY <1>50, <1>12, <3>1, <3>3, Numbers
      <3>5. QED
        BY <2>1, <3>4
    <2>2. CASE u # c
      BY <1>1, <1>3, <2>2 DEF KernelMapStays
    <2>3. QED
      BY <2>1, <2>2
  <1>18. AllFromInit'
    <2>1. \A u \in Task : ancestors'[u] = IF u = c THEN ancestors[t] \cup {t} ELSE ancestors[u]
      BY <1>1 DEF TypeOK
    <2>2. QED
      BY <1>1, <1>2, <2>1 DEF AllFromInit, Alive
  <1>13. OneWriter'
    <2> SUFFICES ASSUME NEW u \in Task, NEW v \in Task, NEW p \in Off, NEW q \in Off,
                        pte'[u][p].write, pte'[v][q].write,
                        pte'[u][p].frame = pte'[v][q].frame, p # Screen
                 PROVE  \/ u = v /\ p = q
                        \/ u = 0 /\ KernelMap(u, p)
                        \/ v = 0 /\ KernelMap(v, q)
      BY DEF OneWriter, KernelMap
    <2>1. u # c
      BY <1>12
    <2>2. v # c
      <3> SUFFICES ASSUME v = c PROVE FALSE
        OBVIOUS
      <3>1. q = Screen /\ pte'[u][p].frame = Screen
        <4>1. pte'[c][Screen] = [frame |-> Screen, write |-> TRUE]
          BY <1>2, <1>10 DEF ScreenMapped
        <4>2. pte'[c][Screen].frame = Screen
          BY <4>1
        <4>3. QED
          BY <1>12, <4>2
      <3>2. pte'[u][p] # None
        BY <1>6
      <3>3. QED
        BY <1>9, <3>1, <3>2, VmAssumption, Numbers DEF Home
    <2>3. QED
      BY <1>1, <1>3, <2>1, <2>2 DEF OneWriter
  <1>14. WritersAreAncestors'
    <2> SUFFICES ASSUME NEW u \in Task, NEW v \in Task, NEW p \in User(u), NEW q \in Off,
                        u # v, q # Screen, pte'[u][p] # None,
                        pte'[u][p].frame = pte'[v][q].frame, pte'[v][q].write
                 PROVE  v \in ancestors'[u]
      BY DEF WritersAreAncestors, User, KernelMap
    <2>0. p \in Off /\ ~KernelMap(u, p)
      BY UserPages
    <2>1. v # c /\ pte'[v][q] = pte[v][q]
      BY <1>3, <1>12
    <2>2. CASE u = c
      <3>1. p \in Low /\ p \in User(t)
        BY <1>2, <1>4, <2>0, <2>2, UserPages DEF Off, KernelMap
      <3>2. ancestors'[c] = ancestors[t] \cup {t}
        BY <1>1 DEF TypeOK
      <3>3. pte[t][p] # None /\ pte[t][p].frame = pte[v][q].frame
        BY <1>1, <1>50, <2>1, <2>2, <3>1, MappedLow
      <3>4. v = t \/ v \in ancestors[t]
        BY <1>1, <1>2, <2>1, <3>1, <3>3, Numbers DEF WritersAreAncestors
      <3>5. QED
        BY <2>2, <3>2, <3>4
    <2>3. CASE u # c
      <3>1. ancestors'[u] = ancestors[u]
        BY <1>1, <2>3 DEF TypeOK
      <3>2. QED
        BY <1>1, <1>3, <2>0, <2>1, <2>3, <3>1 DEF WritersAreAncestors
    <2>4. QED
      BY <2>2, <2>3
  <1>15. DataFrames' \subseteq DataFrames
    <2> SUFFICES ASSUME NEW u \in Task, NEW p \in User(u), pte'[u][p].frame \in Frame
                 PROVE  pte'[u][p].frame \in DataFrames
      BY DEF DataFrames, User, KernelMap
    <2>0. p \in Off /\ ~KernelMap(u, p)
      BY UserPages
    <2>1. CASE u = c
      <3>1. p \in Low /\ p \in User(t) /\ pte'[u][p].frame = pte[t][p].frame
        BY <1>2, <1>4, <1>50, <1>6, <2>0, <2>1, UserPages DEF Off, KernelMap
      <3>2. QED
        BY <1>2, <3>1, Numbers DEF DataFrames
    <2>2. CASE u # c
      BY <1>3, <2>0, <2>2 DEF DataFrames
    <2>3. QED
      BY <2>1, <2>2
  <1>16. QED
    BY <1>2, <1>7, <1>8, <1>9, <1>10, <1>11, <1>13, <1>14, <1>15, <1>17, <1>18

-----------------------------------------------------------------------------
LEMMA ForkKeepsIInv ==
    ASSUME IInv, NEW t \in Task, NEW c \in Task, Fork(t, c), halted' = "no"
    PROVE  IInv'
  <1>1. t \in Alive /\ c \in Task \ Alive /\ halted = "no"
    BY DEF Fork
  <1>2. PICK fs \in SUBSET Frame :
            /\ Allocated(2, fs)
            /\ page' = [page EXCEPT ![c] = First(fs)]
            /\ table' = [table EXCEPT ![c]["low"] = Last(fs)]
            /\ pte' = [pte EXCEPT ![c] = [o \in Off |-> IF o \in Low
                                            THEN Shared(pte[t])[o] ELSE @[o]]]
            /\ ancestors' = [ancestors EXCEPT ![c] = ancestors[t] \cup {t}]
            /\ UNCHANGED <<data, halted>>
    BY DEF Fork, Panic
  <1> DEFINE f == First(fs)
             g == Last(fs)
  <1>3. f \in Frame \ Used /\ g \in Frame \ Used /\ f # g
    BY <1>2, TwoFrames DEF Allocated
  <1>4. TypeOK /\ FreeSlotsEmpty /\ FramesHaveOneUse
    BY DEF IInv
  <1>5. /\ page' = [page EXCEPT ![c] = f]
        /\ table' = [table EXCEPT ![c]["low"] = g]
    BY <1>2
  <1> HIDE DEF f, g
  <1>6. /\ pte' \in [Task -> [Off -> Entry \cup {None}]]
        /\ \A u \in Alive', p \in Low : pte'[u][p] # None
        /\ Alive' = Alive \cup {c}
        /\ Home' /\ ScreenMapped' /\ LowHasOneWriter' /\ KernelMapStays' /\ AllFromInit'
        /\ OneWriter' /\ WritersAreAncestors'
        /\ DataFrames' \subseteq DataFrames
    BY <1>1, <1>2, <1>3, <1>5, ChildEntries
  <1>7. TypeOK'
    <2>1. ancestors' \in [Task -> SUBSET Task]
      BY <1>2, <1>4 DEF TypeOK
    <2>2. /\ page' \in [Task -> Frame \cup {NoTable, Boot}]
          /\ table' \in [Task -> [Region -> Frame \cup {NoTable, Boot}]]
      BY <1>3, <1>4, <1>5, Numbers DEF TypeOK
    <2>3. QED
      BY <1>2, <1>4, <1>6, <2>1, <2>2 DEF TypeOK
  <1>8. FreeSlotsEmpty'
    <2> SUFFICES ASSUME NEW u \in Task, u \notin Alive, u # c
                 PROVE  /\ \A o \in Off : pte'[u][o] = None
                        /\ \A r \in Region : table'[u][r] = NoTable
      BY <1>6 DEF FreeSlotsEmpty
    <2>1. pte'[u] = pte[u] /\ table'[u] = table[u]
      BY <1>2, <1>4 DEF TypeOK
    <2>2. QED
      BY <1>4, <2>1 DEF FreeSlotsEmpty
  <1>9. FramesHaveOneUse'
    <2>1. \A u \in Task, r \in Region :
            table'[u][r] = IF u = c /\ r = "low" THEN g ELSE table[u][r]
      BY <1>4, <1>5, Numbers DEF TypeOK
    <2>2. \A u \in Task : page'[u] = IF u = c THEN f ELSE page[u]
      BY <1>4, <1>5 DEF TypeOK
    <2>3. TableFrames' \subseteq TableFrames \cup {g}
      BY <2>1 DEF TableFrames
    <2>4. TaskFrames' \subseteq TaskFrames \cup {f}
      BY <2>2 DEF TaskFrames
    <2>5. f \notin DataFrames \cup TableFrames \cup TaskFrames
      BY <1>3 DEF Used
    <2>6. g \notin DataFrames \cup TableFrames \cup TaskFrames
      BY <1>3 DEF Used
    <2>7. /\ DataFrames' \cap (TableFrames' \cup TaskFrames') = {}
          /\ TableFrames' \cap TaskFrames' = {}
      BY <1>3, <1>4, <1>6, <2>3, <2>4, <2>5, <2>6 DEF FramesHaveOneUse
    <2>8. \A u, v \in Task, r, s \in Region :
            table'[u][r] \in Frame /\ table'[u][r] = table'[v][s] => u = v /\ r = s
      BY <1>3, <1>4, <2>1, FreshFrame DEF FramesHaveOneUse
    <2>9. \A u, v \in Task : page'[u] \in Frame /\ page'[u] = page'[v] => u = v
      BY <1>3, <1>4, <2>2, FreshFrame DEF FramesHaveOneUse
    <2>10. QED
      BY <2>7, <2>8, <2>9 DEF FramesHaveOneUse
  <1>10. QED
    BY <1>6, <1>7, <1>8, <1>9 DEF IInv

\* A handler that maps one new frame, and perhaps a new page table.
LEMMA MappingKeepsIInv ==
    ASSUME IInv, NEW t \in Alive, NEW o \in User(t) \ {Screen}, NEW f \in Frame \ Used,
           pte' = [pte EXCEPT ![t][o] = [frame |-> f, write |-> TRUE]],
           page' = page, ancestors' = ancestors, halted' = halted,
           data' \in [Low \cup Frame -> Value],
           \/ table' = table
           \/ \E r \in Region, g \in (Frame \ Used) \ {f} :
                table' = [table EXCEPT ![t][r] = g]
    PROVE  IInv'
  <1>1. TypeOK /\ FreeSlotsEmpty /\ FramesHaveOneUse /\ t \in Task /\ Alive' = Alive
    BY DEF IInv, Alive
  <1>2. /\ pte' \in [Task -> [Off -> Entry \cup {None}]]
        /\ \A u \in Alive', p \in Low : pte'[u][p] # None
        /\ Home' /\ ScreenMapped' /\ LowHasOneWriter' /\ KernelMapStays' /\ AllFromInit'
        /\ OneWriter' /\ WritersAreAncestors'
        /\ DataFrames' \subseteq DataFrames \cup {f}
    BY NewEntry
  <1>3. f \notin DataFrames \cup TableFrames \cup TaskFrames
    BY DEF Used
  <1>4. TaskFrames' = TaskFrames
    BY DEF TaskFrames
  <1>5. \A u \in Task \ Alive, p \in Off : pte'[u][p] = None
    BY <1>1 DEF TypeOK, FreeSlotsEmpty
  <1>6. CASE table' = table
    <2>1. TypeOK'
      BY <1>1, <1>2, <1>6 DEF TypeOK
    <2>2. FreeSlotsEmpty'
      BY <1>1, <1>5, <1>6 DEF FreeSlotsEmpty
    <2>3. TableFrames' = TableFrames
      BY <1>6 DEF TableFrames
    <2>4. FramesHaveOneUse'
      BY <1>1, <1>2, <1>3, <1>4, <1>6, <2>3 DEF FramesHaveOneUse
    <2>5. QED
      BY <1>2, <2>1, <2>2, <2>4 DEF IInv
  <1>7. ASSUME NEW r \in Region, NEW g \in (Frame \ Used) \ {f},
               table' = [table EXCEPT ![t][r] = g]
        PROVE  IInv'
    <2>1. table' \in [Task -> [Region -> Frame \cup {NoTable, Boot}]]
      BY <1>1, <1>7 DEF TypeOK
    <2>2. TypeOK'
      BY <1>1, <1>2, <2>1 DEF TypeOK
    <2>3. \A u \in Task, s \in Region :
            table'[u][s] = IF u = t /\ s = r THEN g ELSE table[u][s]
      BY <1>1, <1>7 DEF TypeOK
    <2>4. FreeSlotsEmpty'
      BY <1>1, <1>5, <2>3 DEF FreeSlotsEmpty
    <2>5. g \notin DataFrames \cup TableFrames \cup TaskFrames
      BY DEF Used
    <2>6. TableFrames' \subseteq TableFrames \cup {g}
      BY <2>3 DEF TableFrames
    <2>7. /\ DataFrames' \cap (TableFrames' \cup TaskFrames') = {}
          /\ TableFrames' \cap TaskFrames' = {}
      BY <1>1, <1>2, <1>3, <1>4, <2>5, <2>6 DEF FramesHaveOneUse
    <2>8. \A u, v \in Task, s, q \in Region :
            table'[u][s] \in Frame /\ table'[u][s] = table'[v][q] => u = v /\ s = q
      BY <1>1, <2>3, FreshFrame DEF FramesHaveOneUse
    <2>9. FramesHaveOneUse'
      BY <1>1, <2>7, <2>8 DEF FramesHaveOneUse
    <2>10. QED
      BY <1>2, <2>2, <2>4, <2>9 DEF IInv
  <1>8. QED
    BY <1>6, <1>7

LEMMA NoPageKeepsIInv ==
    ASSUME IInv, NEW t \in Task, NEW o \in Far, NoPageFault(t, o), halted' = "no"
    PROVE  IInv'
  <1> DEFINE r == RegionOf(o)
             n == IF table[t][r] = NoTable THEN 2 ELSE 1
  <1>1. t \in Alive /\ halted' = halted
    BY DEF NoPageFault
  <1>2. PICK fs \in SUBSET Frame :
            /\ Allocated(n, fs)
            /\ table' = [table EXCEPT ![t][r] = IF @ = NoTable THEN First(fs) ELSE @]
            /\ pte' = [pte EXCEPT ![t][o] = [frame |-> Last(fs), write |-> TRUE]]
            /\ UNCHANGED <<data, page, ancestors, halted>>
    BY DEF NoPageFault, Panic
  <1>3. o \in User(t) \ {Screen} /\ r \in Region
    <2>1. t \in Task \ {0} /\ o # Screen
      BY VmAssumption DEF NoPageFault
    <2>2. o \in User(t)
      BY <2>1, UserPages
    <2>3. QED
      BY <2>1, <2>2 DEF RegionOf, Region
  <1>4. data' \in [Low \cup Frame -> Value] /\ TypeOK
    BY <1>2 DEF IInv, TypeOK
  <1>5. Last(fs) \in Frame \ Used
    BY <1>2, OneFrame, TwoFrames DEF Allocated
  <1>6. CASE table[t][r] = NoTable
    <2>1. First(fs) \in (Frame \ Used) \ {Last(fs)}
      BY <1>2, <1>6, TwoFrames DEF Allocated
    <2>2. table' = [table EXCEPT ![t][r] = First(fs)]
      BY <1>2, <1>6
    <2>3. QED
      BY <1>1, <1>2, <1>3, <1>4, <1>5, <2>1, <2>2, MappingKeepsIInv
  <1>7. CASE table[t][r] # NoTable
    <2>1. table' = table
      BY <1>2, <1>3, <1>4, <1>7 DEF TypeOK
    <2>2. QED
      BY <1>1, <1>2, <1>3, <1>4, <1>5, <2>1, MappingKeepsIInv
  <1>8. QED
    BY <1>6, <1>7

LEMMA WpKeepsIInv ==
    ASSUME IInv, NEW t \in Task, NEW o \in User(t), WpFault(t, o), halted' = "no"
    PROVE  IInv'
  <1>1. t \in Alive /\ pte[t][o] # None /\ ~pte[t][o].write /\ halted' = halted
    BY DEF WpFault
  <1>2. PICK f \in Frame :
            /\ pte[t][o].frame < LOW_MEM
            /\ Allocated(1, {f})
            /\ data' = [data EXCEPT ![f] = data[pte[t][o].frame]]
            /\ pte' = [pte EXCEPT ![t][o] = [frame |-> f, write |-> TRUE]]
            /\ UNCHANGED <<table, page, ancestors, halted>>
    BY DEF WpFault, Panic
  <1>3. f \in Frame \ Used
    BY <1>2 DEF Allocated
  <1>4. o # Screen
    <2>1. pte[t][Screen] = [frame |-> Screen, write |-> TRUE]
      BY <1>1 DEF IInv, ScreenMapped
    <2>2. pte[t][Screen].write
      BY <2>1
    <2>3. QED
      BY <1>1, <2>2
  <1>5. data' \in [Low \cup Frame -> Value]
    <2>1. TypeOK /\ pte[t][o].frame \in Low \cup Frame
      BY <1>1, EntryTypes, UserPages DEF IInv
    <2>2. QED
      BY <1>2, <2>1 DEF TypeOK
  <1>6. QED
    BY <1>1, <1>2, <1>3, <1>4, <1>5, MappingKeepsIInv

\* A step that changes no entry and no table.
LEMMA SameTables ==
    ASSUME IInv, TypeOK',
           \A t \in Task : page'[t] = page[t] /\ ancestors'[t] = ancestors[t],
           \A t \in Task, o \in Off : pte'[t][o] = pte[t][o],
           \A t \in Task, r \in Region : table'[t][r] = table[t][r]
    PROVE  IInv'
  <1>1. Alive' = Alive
    BY DEF Alive
  <1>2. Home' /\ LowHasOneWriter' /\ KernelMapStays' /\ AllFromInit'
    <2>1. Home'
      BY DEF IInv, Home
    <2>4. KernelMapStays' /\ AllFromInit'
      BY <1>1 DEF IInv, KernelMapStays, KernelMap, AllFromInit, Alive
    <2>2. LowHasOneWriter'
      BY Numbers DEF IInv, LowHasOneWriter
    <2>3. QED
      BY <2>1, <2>2, <2>4
  <1>3. FreeSlotsEmpty'
    BY <1>1 DEF IInv, FreeSlotsEmpty
  <1>4. ScreenMapped'
    BY <1>1, Numbers DEF IInv, ScreenMapped, Alive
  <1>5. OneWriter'
    BY DEF IInv, OneWriter, KernelMap
  <1>6. WritersAreAncestors'
    BY DEF IInv, WritersAreAncestors, User, KernelMap
  <1>7. FramesHaveOneUse'
    <2>1. DataFrames' = DataFrames
      <3>1. \A t \in Task : {pte'[t][o].frame : o \in User(t)}
                           = {pte[t][o].frame : o \in User(t)}
        BY UserPages
      <3>2. QED
        BY <3>1 DEF DataFrames, User, KernelMap
    <2>2. TableFrames' = TableFrames
      BY DEF TableFrames
    <2>3. TaskFrames' = TaskFrames
      BY DEF TaskFrames
    <2>4. QED
      BY <2>1, <2>2, <2>3 DEF IInv, FramesHaveOneUse
  <1>8. QED
    BY <1>2, <1>3, <1>4, <1>5, <1>6, <1>7 DEF IInv

LEMMA StoreKeepsIInv ==
    ASSUME IInv, NEW t \in Task, NEW o \in User(t), NEW v \in Value, Store(t, o, v)
    PROVE  IInv'
  <1>1. TypeOK'
    BY DEF Store, IInv, TypeOK, Alive
  <1>2. /\ \A u \in Task : page'[u] = page[u] /\ ancestors'[u] = ancestors[u]
        /\ \A u \in Task, p \in Off : pte'[u][p] = pte[u][p]
        /\ \A u \in Task, r \in Region : table'[u][r] = table[u][r]
    BY DEF Store
  <1>3. QED
    BY <1>1, <1>2, SameTables

\* A panic, or the loop of do_wp_page.
LEMMA StopKeepsIInv ==
    ASSUME IInv, UNCHANGED <<pte, table, data, page, ancestors>>,
           halted' \in {"no", "out of memory", "no wp page"}
    PROVE  IInv'
  <1>1. TypeOK'
    BY DEF IInv, TypeOK, Alive
  <1>2. /\ \A u \in Task : page'[u] = page[u] /\ ancestors'[u] = ancestors[u]
        /\ \A u \in Task, p \in Off : pte'[u][p] = pte[u][p]
        /\ \A u \in Task, r \in Region : table'[u][r] = table[u][r]
    OBVIOUS
  <1>3. QED
    BY <1>1, <1>2, SameTables

LEMMA NextKeepsIInv == IInv /\ [Next]_vars => IInv'
  <1> SUFFICES ASSUME IInv, [Next]_vars PROVE IInv'
    OBVIOUS
  <1>1. ASSUME NEW t \in Task, NEW c \in Task, Fork(t, c) PROVE IInv'
    <2>1. CASE halted' = "no"
      BY <1>1, <2>1, ForkKeepsIInv
    <2>2. CASE halted' # "no"
      BY <1>1, <2>2, StopKeepsIInv DEF Fork, Panic
    <2>3. QED
      BY <2>1, <2>2
  <1>2. ASSUME NEW t \in Task, NEW o \in Far, NoPageFault(t, o) PROVE IInv'
    <2>1. CASE halted' = "no"
      BY <1>2, <2>1, NoPageKeepsIInv
    <2>2. CASE halted' # "no"
      BY <1>2, <2>2, StopKeepsIInv DEF NoPageFault, Panic
    <2>3. QED
      BY <2>1, <2>2
  <1>3. ASSUME NEW t \in Task, NEW o \in User(t), WpFault(t, o) PROVE IInv'
    <2>1. CASE halted' = "no"
      BY <1>3, <2>1, WpKeepsIInv
    <2>2. CASE halted' # "no"
      BY <1>3, <2>2, StopKeepsIInv DEF WpFault, Panic
    <2>3. QED
      BY <2>1, <2>2
  <1>4. ASSUME NEW t \in Task, NEW o \in User(t), NEW v \in Value, Store(t, o, v) PROVE IInv'
    BY <1>4, StoreKeepsIInv
  <1>5. CASE UNCHANGED vars
    <2>1. halted \in {"no", "out of memory", "no wp page"}
      BY DEF IInv, TypeOK
    <2>2. QED
      BY <1>5, <2>1, StopKeepsIInv DEF vars
  <1>6. QED
    BY <1>1, <1>2, <1>3, <1>4, <1>5 DEF Next, Stopped

LEMMA InvariantIInv == Spec => []IInv
  BY InitIInv, NextKeepsIInv, PTL DEF Spec

\* Whatever is forked and copied, a frame that a task may write is in no other
\* entry that may be written, but for the map of all memory the kernel works
\* through, which stays task 0's alone (share_vma, do_no_page, do_wp_page).
THEOREM FramesHaveOneWriter == Spec => []OneWriter
  <1>1. IInv => OneWriter
    BY DEF IInv
  <1>2. QED
    BY <1>1, InvariantIInv, PTL

\* The entries of the map of all memory lead to the frames head.asm entered, and
\* share_vma never hands out a copy of them that may be written.
THEOREM KernelMapIsPrivate == Spec => []KernelMapStays
  <1>1. IInv => KernelMapStays
    BY DEF IInv
  <1>2. QED
    BY <1>1, InvariantIInv, PTL

\* What a task sees is changed by itself or by one it descends from, never by
\* its children or by a task it is not related to.
THEOREM ChildrenCannotDisturb == Spec => []WritersAreAncestors
  <1>1. IInv => WritersAreAncestors
    BY DEF IInv
  <1>2. QED
    BY <1>1, InvariantIInv, PTL

\* No frame that user code has for a page is also a page table or the page of a
\* task struct.
THEOREM FramesAreSeparate == Spec => []FramesHaveOneUse
  <1>1. IInv => FramesHaveOneUse
    BY DEF IInv
  <1>2. QED
    BY <1>1, InvariantIInv, PTL

-----------------------------------------------------------------------------
LEMMA FaultStep ==
    ASSUME IInv, Next, pte' # pte, NEW u \in Task, NEW p \in User(u), pte[u][p] # None
    PROVE  View(u, p)' = View(u, p)
  <1>1. TypeOK /\ FreeSlotsEmpty /\ p \in Off
    BY UserPages DEF IInv
  <1>2. ASSUME pte'[u][p] = pte[u][p], data'[pte[u][p].frame] = data[pte[u][p].frame]
        PROVE  View(u, p)' = View(u, p)
    BY <1>2 DEF View
  <1>3. ASSUME NEW t \in Task, NEW c \in Task, Fork(t, c)
        PROVE  View(u, p)' = View(u, p)
    <2>1. c \in Task \ Alive /\ u # c
      BY <1>1, <1>3 DEF Fork, FreeSlotsEmpty
    <2>2. pte'[u] = pte[u] /\ data' = data
      BY <1>1, <1>3, <2>1 DEF Fork, Panic, TypeOK
    <2>3. QED
      BY <1>2, <2>2
  <1>4. ASSUME NEW t \in Task, NEW o \in Far, NoPageFault(t, o)
        PROVE  View(u, p)' = View(u, p)
    <2>1. ~(u = t /\ p = o) /\ data' = data
      BY <1>4 DEF NoPageFault, Panic
    <2>2. \/ pte' = pte
          \/ \E f : pte' = [pte EXCEPT ![t][o] = [frame |-> f, write |-> TRUE]]
      BY <1>4 DEF NoPageFault, Panic
    <2>3. pte'[u][p] = pte[u][p]
      <3>1. CASE pte' = pte
        BY <3>1
      <3>2. ASSUME NEW f, pte' = [pte EXCEPT ![t][o] = [frame |-> f, write |-> TRUE]]
            PROVE  pte'[u][p] = pte[u][p]
        BY <1>1, <2>1, <3>2 DEF TypeOK
      <3>3. QED
        BY <2>2, <3>1, <3>2
    <2>4. QED
      BY <1>2, <2>1, <2>3
  <1>5. ASSUME NEW t \in Task, NEW o \in User(t), WpFault(t, o)
        PROVE  View(u, p)' = View(u, p)
    <2>1. PICK f \in Frame :
            /\ pte[t][o].frame < LOW_MEM
            /\ Allocated(1, {f})
            /\ data' = [data EXCEPT ![f] = data[pte[t][o].frame]]
            /\ pte' = [pte EXCEPT ![t][o] = [frame |-> f, write |-> TRUE]]
      BY <1>5 DEF WpFault, Panic
    <2>6. o \in Off
      BY UserPages
    <2>2. f \in Frame \ Used /\ pte[u][p].frame # f
      BY <2>1, FreshFrame DEF Allocated
    <2>3. CASE u = t /\ p = o
      <3>1. pte'[u][p] = [frame |-> f, write |-> TRUE]
        BY <1>1, <2>1, <2>3, <2>6 DEF TypeOK
      <3>2. pte'[u][p].frame = f /\ pte'[u][p] # None
        <4>1. f # None.frame
          BY Numbers DEF None
        <4>2. QED
          BY <3>1, <4>1
      <3>3. data'[f] = data[pte[u][p].frame]
        BY <1>1, <2>1, <2>3 DEF TypeOK
      <3>4. QED
        BY <3>2, <3>3 DEF View
    <2>4. CASE ~(u = t /\ p = o)
      <3>1. pte'[u][p] = pte[u][p]
        BY <1>1, <2>1, <2>4, <2>6 DEF TypeOK
      <3>2. data'[pte[u][p].frame] = data[pte[u][p].frame]
        <4>1. pte[u][p].frame \in Low \cup Frame
          BY <1>1, EntryTypes
        <4>2. QED
          BY <1>1, <2>1, <2>2, <4>1 DEF TypeOK
      <3>3. QED
        BY <1>2, <3>1, <3>2
    <2>5. QED
      BY <2>3, <2>4
  <1>6. QED
    BY <1>3, <1>4, <1>5 DEF Next, Store, Stopped, vars

\* do_no_page and do_wp_page change what is mapped and never what is read.
THEOREM FaultsChangeNothing == Spec => FaultsInvisible
  <1> DEFINE A == pte' # pte =>
        \A t \in Task : \A o \in User(t) : pte[t][o] # None => View(t, o)' = View(t, o)
  <1>1. IInv /\ [Next]_vars => [A]_vars
    BY FaultStep DEF vars
  <1>2. QED
    BY <1>1, InvariantIInv, PTL DEF Spec, FaultsInvisible
=============================================================================
