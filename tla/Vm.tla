--------------------------------- MODULE Vm ---------------------------------
(***************************************************************************)
(* Address spaces of forked tasks: share_vma, do_no_page and do_wp_page of *)
(* mm/memory.c, the memory part of do_fork, and the stores of user code.   *)
(*                                                                         *)
(* All tasks live in one set of page tables, a task at linear address      *)
(* pid * 64 MB.  An entry belongs to a task and a page of its space, in    *)
(* the first 4 MB, which fork shares (Low), or above (Far).  Task 0 has    *)
(* every physical page, those of the page allocator too, at the page of    *)
(* the same number, present, writable and open to user mode; the kernel    *)
(* works through these entries, and fork copies those of the first 4 MB.   *)
(*                                                                         *)
(* User code obeys the write bit; which task runs is up to the clock.  It  *)
(* is assumed of task 0, and of task 0 only, that its user code keeps to   *)
(* its pages below LOW_MEM, where init and its stack are: nothing in the   *)
(* tables stops it from writing to any frame, or to the tables.  A forked  *)
(* task cannot reach its copies of those entries: set_desc_base cuts the   *)
(* limit of its segments to 1 MB (head.c:37).  That limit keeps it from    *)
(* Far as well; the model lets forked tasks use Far, as they would with    *)
(* the limit that fork means to set, so that do_no_page is checked too.    *)
(***************************************************************************)
EXTENDS Integers, FiniteSets

CONSTANTS
    NR_TASK,
    Low, Far,       \* pages of a task's space
    Screen,         \* the page of entry 144
    LOW_MEM,        \* first page of the page allocator,
    HIGH_MEMORY,    \* and the last one
    Value, Junk     \* contents of a page; what is in a frame not yet written

Task == 0 .. NR_TASK - 1
Off == Low \cup Far
Frame == LOW_MEM .. HIGH_MEMORY
Region == {"low", "far"}
RegionOf(o) == IF o \in Low THEN "low" ELSE "far"

ASSUME VmAssumption ==
    /\ NR_TASK \in Nat \ {0} /\ LOW_MEM \in Nat /\ HIGH_MEMORY \in Nat
    /\ Low \subseteq 0 .. HIGH_MEMORY /\ Low \cap Far = {}
    /\ Screen \in Low /\ Screen < LOW_MEM
    /\ Junk \in Value

VARIABLES
    pte,        \* entry: frame and write bit, or None
    table,      \* the page table of a region, or NoTable
    data,       \* contents of each frame
    page,       \* the page of each task's struct, NoTable for a free slot
    ancestors,  \* history: who forked a task, who forked that one, ...
    halted      \* "no", or why the kernel spins

vars == <<pte, table, data, page, ancestors, halted>>

None == [frame |-> -1, write |-> FALSE]
NoTable == -1
Boot == -2      \* tables and task struct that are part of the kernel image

Alive == {t \in Task : page[t] # NoTable}

\* The entries of head.asm for the frames of the page allocator, and the
\* copies of them that forks make.
KernelMap(t, o) == o \in Frame /\ (t = 0 \/ o \in Low)

\* The pages user code uses.
User(t) == {o \in Off : ~KernelMap(t, o)}

\* Frames alloc_page has handed out; nothing gives one back.
DataFrames ==
    {f \in Frame : \E t \in Task : \E o \in User(t) : pte[t][o].frame = f}
TableFrames == {table[t][r] : t \in Task, r \in Region} \cap Frame
TaskFrames == {page[t] : t \in Task} \cap Frame
Used == DataFrames \cup TableFrames \cup TaskFrames

Entry == [frame : Low \cup Frame, write : BOOLEAN]

TypeOK ==
    /\ pte \in [Task -> [Off -> Entry \cup {None}]]
    /\ table \in [Task -> [Region -> Frame \cup {NoTable, Boot}]]
    /\ data \in [Low \cup Frame -> Value]
    /\ page \in [Task -> Frame \cup {NoTable, Boot}]
    /\ ancestors \in [Task -> SUBSET Task]
    /\ halted \in {"no", "out of memory", "no wp page"}
    /\ \A t \in Alive, o \in Low : pte[t][o] # None

\* _func_setup_paging maps the first 16 MB, all of physical memory.
Init ==
    /\ pte = [t \in Task |-> [o \in Off |->
                IF t = 0 /\ o \in Low \cup Frame THEN [frame |-> o, write |-> TRUE]
                ELSE None]]
    /\ table = [t \in Task |-> [r \in Region |-> IF t = 0 THEN Boot ELSE NoTable]]
    /\ data = [f \in Low \cup Frame |-> Junk]
    /\ page = [t \in Task |-> IF t = 0 THEN Boot ELSE NoTable]
    /\ ancestors = [t \in Task |-> {}]
    /\ halted = "no"

-----------------------------------------------------------------------------
\* alloc_page returns the lowest free frame; n calls in a row return these.
Allocated(n, fs) ==
    /\ Cardinality(fs) = n /\ fs \subseteq Frame \ Used
    /\ \A f \in fs, g \in (Frame \ Used) \ fs : f < g

OutOfMemory(n) == Cardinality(Frame \ Used) < n

Panic ==
    /\ halted' = "out of memory"
    /\ UNCHANGED <<pte, table, data, page, ancestors>>

First(fs) == CHOOSE f \in fs : \A g \in fs : f <= g
Last(fs) == CHOOSE f \in fs : \A g \in fs : f >= g

\* mutant: the write bit is kept
Shared_writable(entries) == entries

\* The entries share_vma writes: a copy without the write bit, which the
\* screen's entry gets back.
Shared(entries) == [o \in Low |-> [entries[o] EXCEPT !.write = o = Screen]]

\* The memory part of do_fork: a page for the task, a table for share_vma.
\* It looks at the region of the first 4 MB only.
Fork(t, c) ==
    /\ halted = "no" /\ t \in Alive
    /\ c \notin Alive /\ \A d \in Task \ Alive : c <= d
    /\ \/ \E fs \in SUBSET Frame :
            /\ Allocated(2, fs)
            /\ page' = [page EXCEPT ![c] = First(fs)]
            /\ table' = [table EXCEPT ![c]["low"] = Last(fs)]
            /\ pte' = [pte EXCEPT ![c] = [o \in Off |-> IF o \in Low
                                            THEN Shared(pte[t])[o] ELSE @[o]]]
            /\ ancestors' = [ancestors EXCEPT ![c] = ancestors[t] \cup {t}]
            /\ UNCHANGED <<data, halted>>
       \/ OutOfMemory(2) /\ Panic

\* mutant: one frame serves as table and as page
NoPageFault_one_frame(t, o) ==
    /\ halted = "no" /\ t \in Alive /\ pte[t][o] = None /\ t # 0
    /\ \/ \E fs \in SUBSET Frame :
            /\ Allocated(1, fs)
            /\ table' = [table EXCEPT ![t][RegionOf(o)] =
                            IF @ = NoTable THEN First(fs) ELSE @]
            /\ pte' = [pte EXCEPT ![t][o] = [frame |-> Last(fs), write |-> TRUE]]
            /\ UNCHANGED <<data, page, ancestors, halted>>
       \/ OutOfMemory(1) /\ Panic

\* do_no_page: a table for the region if there is none, and a page, which is
\* not cleared.
NoPageFault(t, o) ==
    LET n == IF table[t][RegionOf(o)] = NoTable THEN 2 ELSE 1 IN
    /\ halted = "no" /\ t \in Alive /\ pte[t][o] = None /\ t # 0
    /\ \/ \E fs \in SUBSET Frame :
            /\ Allocated(n, fs)
            /\ table' = [table EXCEPT ![t][RegionOf(o)] =
                            IF @ = NoTable THEN First(fs) ELSE @]
            /\ pte' = [pte EXCEPT ![t][o] = [frame |-> Last(fs), write |-> TRUE]]
            /\ UNCHANGED <<data, page, ancestors, halted>>
       \/ OutOfMemory(n) /\ Panic

\* mutants: the page is not copied; the write bit is set without a copy
WpFault_no_copy(t, o) ==
    /\ halted = "no" /\ t \in Alive /\ pte[t][o] # None /\ ~pte[t][o].write
    /\ \/ /\ pte[t][o].frame < LOW_MEM
          /\ \/ \E f \in Frame :
                  /\ Allocated(1, {f})
                  /\ pte' = [pte EXCEPT ![t][o] = [frame |-> f, write |-> TRUE]]
                  /\ UNCHANGED <<table, data, page, ancestors, halted>>
             \/ OutOfMemory(1) /\ Panic
       \/ /\ pte[t][o].frame >= LOW_MEM
          /\ halted' = "no wp page"
          /\ UNCHANGED <<pte, table, data, page, ancestors>>
WpFault_remove_wp(t, o) ==
    /\ halted = "no" /\ t \in Alive /\ pte[t][o] # None /\ ~pte[t][o].write
    /\ pte' = [pte EXCEPT ![t][o].write = TRUE]
    /\ UNCHANGED <<table, data, page, ancestors, halted>>

\* do_wp_page: a page of low memory is copied; for any other the kernel spins.
WpFault(t, o) ==
    /\ halted = "no" /\ t \in Alive /\ pte[t][o] # None /\ ~pte[t][o].write
    /\ \/ /\ pte[t][o].frame < LOW_MEM
          /\ \/ \E f \in Frame :
                  /\ Allocated(1, {f})
                  /\ data' = [data EXCEPT ![f] = data[pte[t][o].frame]]
                  /\ pte' = [pte EXCEPT ![t][o] = [frame |-> f, write |-> TRUE]]
                  /\ UNCHANGED <<table, page, ancestors, halted>>
             \/ OutOfMemory(1) /\ Panic
       \/ /\ pte[t][o].frame >= LOW_MEM
          /\ halted' = "no wp page"
          /\ UNCHANGED <<pte, table, data, page, ancestors>>

\* A store of user code to a page it may write.
Store(t, o, v) ==
    /\ halted = "no" /\ t \in Alive /\ pte[t][o].write
    /\ data' = [data EXCEPT ![pte[t][o].frame] = v]
    /\ UNCHANGED <<pte, table, page, ancestors, halted>>

Stopped == halted # "no" /\ UNCHANGED vars

Next ==
    \/ \E t, c \in Task : Fork(t, c)
    \/ \E t \in Task, o \in Far : NoPageFault(t, o)
    \/ \E t \in Task : \E o \in User(t) : WpFault(t, o)
    \/ \E t \in Task, v \in Value : \E o \in User(t) : Store(t, o, v)
    \/ Stopped

Spec == Init /\ [][Next]_vars

-----------------------------------------------------------------------------
(* Properties. *)

\* Two entries that may both be written never lead to the same frame, after
\* any sequence of forks and faults.  The screen is shared on purpose, and the
\* map the kernel works through leads to every frame; fork copies that map, and
\* the copies can never be written.
OneWriter ==
    \A t, u \in Task, o, p \in Off :
        /\ pte[t][o].write /\ pte[u][p].write
        /\ pte[t][o].frame = pte[u][p].frame
        /\ o # Screen
        => \/ t = u /\ o = p
           \/ t = 0 /\ KernelMap(t, o)
           \/ u = 0 /\ KernelMap(u, p)

\* A page of a task is never changed by its children or by unrelated tasks: the
\* frame behind a page of a task can be written by another task only if it is
\* an ancestor.
WritersAreAncestors ==
    \A t, u \in Task, p \in Off : \A o \in User(t) :
        /\ t # u /\ p # Screen
        /\ pte[t][o] # None /\ pte[t][o].frame = pte[u][p].frame /\ pte[u][p].write
        => u \in ancestors[t]

\* A frame serves one purpose: a page that user code uses is never also a page
\* table or the struct and kernel stack of a task, and two tables or two tasks
\* never share one.  (The kernel's own map leads to all of them.)
FramesHaveOneUse ==
    /\ DataFrames \cap (TableFrames \cup TaskFrames) = {}
    /\ TableFrames \cap TaskFrames = {}
    /\ \A t, u \in Task, r, s \in Region :
        table[t][r] \in Frame /\ table[t][r] = table[u][s] => t = u /\ r = s
    /\ \A t, u \in Task : page[t] \in Frame /\ page[t] = page[u] => t = u

View(t, o) == IF pte[t][o] = None THEN Junk ELSE data[pte[t][o].frame]

\* Page faults and forks are invisible: no task finds another content in a page
\* it has, whoever forks and whoever takes a copy.
FaultsInvisible ==
    [][pte' # pte =>
        \A t \in Task : \A o \in User(t) :
            pte[t][o] # None => View(t, o)' = View(t, o)]_vars

\* do_fork shares the memory and "set[s] write-protect" (syscall_impl.c:44): a
\* page that two tasks see cannot be written by either of them.
SharedIsProtected ==
    \A t, u \in Task : \A o \in User(t), p \in User(u) :
        /\ t # u /\ p # Screen
        /\ pte[t][o] # None /\ pte[t][o].frame = pte[u][p].frame
        => ~pte[u][p].write
=============================================================================
