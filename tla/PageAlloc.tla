----------------------------- MODULE PageAlloc -----------------------------
(***************************************************************************)
(* The physical page allocator of mm/memory.c: mem_map, alloc_pages and    *)
(* free_pages.  Pages are numbered from 0 (physical address LOW_MEM).      *)
(* Kernel code runs with interrupts off from the gate to the iretd, so a   *)
(* call is one step.  The callers (slab.c, fork, the page-fault handlers,  *)
(* fs.c) are represented by the runs of pages they currently own: they     *)
(* free a run once, with the address and the order they got.               *)
(***************************************************************************)
EXTENDS Integers, FiniteSets

CONSTANTS
    NR_PAGES,       \* length of mem_map: TOTAL_MEM >> 12
    FirstPage,      \* mmi(mem_start) of kmain's mem_init call
    LastPage,       \* mmi(mem_end)
    MaxOrder        \* bound: largest order a caller asks for

Page == 0 .. NR_PAGES - 1
Order == 0 .. MaxOrder
Managed == FirstPage .. LastPage    \* pages mem_init hands to the allocator
\* mutant: the mark of a reserved page does not fit the unsigned char
RESERVED_PAGE_wide == 256
RESERVED_PAGE == 100

\* unsigned char mem_map[]: arithmetic wraps at 256
Byte == 0 .. 255

\* mem_init's assert (mem_start < mem_end < LOW_MEM + TOTAL_MEM), and shifts
\* of 1 that stay positive.
ASSUME PagesAssumption ==
    /\ NR_PAGES \in Nat \ {0} /\ MaxOrder \in Nat
    /\ FirstPage \in Page /\ LastPage \in Page /\ FirstPage <= LastPage
    /\ \A k \in Order : 2^k \in Nat \ {0}

VARIABLES
    mem_map,    \* [Page -> Byte]: use count of each page
    runs,       \* runs handed out and not yet given back (held by callers)
    halted      \* "no", or the panic/assert the kernel spins in

vars == <<mem_map, runs, halted>>

Run == [start : Page, order : Order]
Pages(r) == r.start .. r.start + 2^r.order - 1

TypeOK ==
    /\ mem_map \in [Page -> Byte]
    /\ runs \in SUBSET Run
    /\ halted \in {"no", "out of memory", "bad free"}

Init ==
    /\ mem_map = [p \in Page |-> IF p \in Managed THEN 0 ELSE RESERVED_PAGE]
    /\ runs = {}
    /\ halted = "no"

-----------------------------------------------------------------------------
\* mutant: the loop stops before the last page of the request is looked at
FreeRun_short(s, n) ==
    /\ s + n <= NR_PAGES
    /\ \A p \in s .. s + n - 2 : mem_map[p] = 0

\* The n pages from s on are free.
FreeRun(s, n) ==
    /\ s + n <= NR_PAGES
    /\ \A p \in s .. s + n - 1 : mem_map[p] = 0

\* First fit: s is the lowest start of n consecutive free pages.
FirstFit(s, n) ==
    /\ FreeRun(s, n)
    /\ \A t \in Page : FreeRun(t, n) => s <= t

\* Its two asserts cannot fail and are left out: the marking loop meets the
\* entries the scan has just counted as free, and with kmain's mem_init, whose
\* mem_end is the last byte of a page, every managed page passes
\* LOW_MEM <= page < HIGH_MEMORY.
AllocPages(k) ==
    LET n == 2^k IN
    /\ halted = "no"
    /\ \/ \E s \in Page :
            /\ FirstFit(s, n)
            /\ mem_map' = [p \in Page |-> IF p \in s .. s + n - 1
                                          THEN (mem_map[p] + 1) % 256
                                          ELSE mem_map[p]]
            /\ runs' = runs \cup {[start |-> s, order |-> k]}
            /\ UNCHANGED halted
       \/ /\ \A s \in Page : ~FreeRun(s, n)
          /\ halted' = "out of memory"
          /\ UNCHANGED <<mem_map, runs>>

\* mutant: one page of the run is not given back (loop ends at require > 1)
FreePages_one_less(r) ==
    /\ halted = "no" /\ r.start + 2^r.order < NR_PAGES
    /\ mem_map' = [p \in Page |-> IF p \in Pages(r) \ {r.start + 2^r.order - 1}
                                  THEN (mem_map[p] - 1) % 256 ELSE mem_map[p]]
    /\ runs' = runs \ {r}
    /\ UNCHANGED halted

\* The assert demands start + require < NR_PAGES, one less than what
\* alloc_pages hands out; assert(mem_map[start] >= 0) cannot fail on an
\* unsigned char and has no effect.
FreePages(r) ==
    LET n == 2^r.order IN
    /\ halted = "no"
    /\ \/ /\ r.start + n < NR_PAGES
          /\ mem_map' = [p \in Page |-> IF p \in Pages(r)
                                        THEN (mem_map[p] - 1) % 256
                                        ELSE mem_map[p]]
          /\ runs' = runs \ {r}
          /\ UNCHANGED halted
       \/ /\ ~(r.start + n < NR_PAGES)
          /\ halted' = "bad free"
          /\ UNCHANGED <<mem_map, runs>>

\* A failed assert or panic spins with interrupts off: nothing runs after it.
Stopped == halted # "no" /\ UNCHANGED vars

Next ==
    \/ \E k \in Order : AllocPages(k)
    \/ \E r \in runs : FreePages(r)
    \/ Stopped

Spec == Init /\ [][Next]_vars

-----------------------------------------------------------------------------
(* The scan of alloc_pages as it is written: one pass over mem_map that    *)
(* counts the free pages just behind index i, stopping when the count      *)
(* reaches the request.                                                    *)
Accum[i \in Page] ==
    IF mem_map[i] # 0 THEN 0
    ELSE IF i = 0 THEN 1 ELSE Accum[i - 1] + 1

\* Index the loop breaks at, NR_PAGES if it runs to the end.
ScanStop(n) ==
    IF \E i \in Page : Accum[i] = n
    THEN CHOOSE i \in Page : Accum[i] = n /\ \A j \in 0 .. i - 1 : Accum[j] # n
    ELSE NR_PAGES

\* mutant: the start is taken one page too low (no ++i after the marking loop)
ScanStart_low(n) == ScanStop(n) - n

\* First page of the run the loop found.
ScanStart(n) == ScanStop(n) - n + 1

-----------------------------------------------------------------------------
(* Properties. *)

\* Two runs that alloc_pages has handed out and nobody has freed never share
\* a page, whatever the orders and the sequence of alloc_pages/free_pages.
RunsDisjoint ==
    \A r, q \in runs : r # q => Pages(r) \cap Pages(q) = {}

\* mem_map counts exactly the pages of live runs: an allocated page is marked
\* once, a page given back is free again (nothing leaks over any history), and
\* the reserved pages outside mem_init's range are never handed out.
MapCountsRuns ==
    \A p \in Page :
        mem_map[p] = IF p \notin Managed THEN RESERVED_PAGE
                     ELSE IF \E r \in runs : p \in Pages(r) THEN 1 ELSE 0

\* The counting loop of alloc_pages finds the lowest run of free pages that is
\* long enough, and runs off the end only if there is none: in every reachable
\* mem_map it agrees with the definition of first fit.
ScanIsFirstFit ==
    \A k \in Order :
        \/ ScanStop(2^k) \in Page /\ FirstFit(ScanStart(2^k), 2^k)
        \/ ScanStop(2^k) = NR_PAGES /\ \A s \in Page : ~FreeRun(s, 2^k)

=============================================================================
