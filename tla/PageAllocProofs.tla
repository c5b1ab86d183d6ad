-------------------------- MODULE PageAllocProofs --------------------------
(* For every size of mem_map and every largest order: the counts are bytes, *)
(* live runs never overlap, mem_map counts exactly their pages, and the     *)
(* scan of alloc_pages is first fit.                                        *)
EXTENDS PageAlloc, WellFoundedInduction, TLAPS

\* What the three invariants need of each other: whether a page is free is
\* known from the live runs only because mem_map counts them, and a released
\* page ends free only because no other live run holds it and because it is
\* not a reserved one.
RunsManaged == \A r \in runs : Pages(r) \subseteq Managed

IInv == TypeOK /\ RunsDisjoint /\ RunsManaged /\ MapCountsRuns

\* A run of free pages that alloc_pages picks lies in the managed range and
\* meets no live run.
LEMMA FreeRunIsFresh ==
    ASSUME IInv, NEW n \in Nat \ {0}, NEW s \in Page, FreeRun(s, n)
    PROVE  /\ s .. s + n - 1 \subseteq Page
           /\ s .. s + n - 1 \subseteq Managed
           /\ \A r \in runs : Pages(r) \cap (s .. s + n - 1) = {}
  <1> USE PagesAssumption DEF IInv, FreeRun
  <1>1. s .. s + n - 1 \subseteq Page
    BY DEF Page
  <1>2. ASSUME NEW p \in s .. s + n - 1
        PROVE  p \in Managed /\ \A r \in runs : p \notin Pages(r)
    <2>1. p \in Page /\ mem_map[p] = 0
      BY <1>1, <1>2
    <2>2. QED
      BY <2>1 DEF MapCountsRuns, RESERVED_PAGE
  <1>3. QED
    BY <1>1, <1>2

\* A live run lies in the managed range.
LEMMA RunPages ==
    ASSUME TypeOK, NEW r \in runs
    PROVE  /\ r.start \in Page /\ r.order \in Order
           /\ 2^r.order \in Nat \ {0}
  BY PagesAssumption DEF TypeOK, Run

LEMMA InitIInv == Init => IInv
  <1> SUFFICES ASSUME Init PROVE IInv
    OBVIOUS
  <1>1. TypeOK
    BY PagesAssumption DEF Init, TypeOK, Byte, RESERVED_PAGE
  <1>2. RunsDisjoint /\ RunsManaged /\ MapCountsRuns
    BY DEF Init, RunsDisjoint, RunsManaged, MapCountsRuns
  <1>3. QED
    BY <1>1, <1>2 DEF IInv

LEMMA AllocKeepsIInv ==
    ASSUME IInv, NEW k \in Order, AllocPages(k)
    PROVE  IInv'
  <1> DEFINE n == 2^k
  <1>1. n \in Nat \ {0}
    BY PagesAssumption
  <1> HIDE DEF n
  <1>2. CASE halted' = "out of memory" /\ UNCHANGED <<mem_map, runs>>
    BY <1>2 DEF IInv, TypeOK, RunsDisjoint, RunsManaged, MapCountsRuns, Pages
  <1>3. ASSUME NEW s \in Page, FirstFit(s, n),
               mem_map' = [p \in Page |-> IF p \in s .. s + n - 1
                                          THEN (mem_map[p] + 1) % 256
                                          ELSE mem_map[p]],
               runs' = runs \cup {[start |-> s, order |-> k]},
               halted' = halted
        PROVE  IInv'
    <2> DEFINE new == [start |-> s, order |-> k]
    <2>1. FreeRun(s, n) /\ new \in Run /\ Pages(new) = s .. s + n - 1
      BY <1>3 DEF FirstFit, Run, Pages, n
    <2>2. /\ Pages(new) \subseteq Page
          /\ Pages(new) \subseteq Managed
          /\ \A r \in runs : Pages(r) \cap Pages(new) = {}
      BY <1>1, <2>1, FreeRunIsFresh
    <2>3. \A p \in Pages(new) : mem_map'[p] = 1
      <3> SUFFICES ASSUME NEW p \in Pages(new) PROVE mem_map'[p] = 1
        OBVIOUS
      <3>1. p \in Page /\ mem_map[p] = 0 /\ p \in s .. s + n - 1
        BY <2>1, <2>2 DEF FreeRun
      <3>2. QED
        BY <3>1, <1>3
    <2>4. \A p \in Page \ Pages(new) : mem_map'[p] = mem_map[p]
      BY <1>3, <2>1
    <2> HIDE DEF new
    <2>5. runs' = runs \cup {new}
      BY <1>3 DEF new
    <2>6. TypeOK'
      <3>1. mem_map' \in [Page -> Byte]
        <4>1. \A p \in Page : mem_map'[p] \in Byte
          <5>1. 1 \in Byte
            BY DEF Byte
          <5>2. \A p \in Page : mem_map[p] \in Byte
            BY DEF IInv, TypeOK
          <5>3. QED
            BY <2>3, <2>4, <5>1, <5>2
        <4>2. DOMAIN mem_map' = Page /\ mem_map' = [p \in Page |-> mem_map'[p]]
          BY <1>3
        <4>3. QED
          BY <4>1, <4>2
      <3>2. QED
        BY <3>1, <2>1, <2>5, <1>3 DEF IInv, TypeOK
    <2>7. RunsDisjoint' /\ RunsManaged'
      <3>1. \A r : Pages(r)' = Pages(r)
        BY DEF Pages
      <3>2. QED
        BY <2>2, <2>5, <3>1 DEF IInv, RunsDisjoint, RunsManaged, Pages
    <2>8. MapCountsRuns'
      <3> SUFFICES ASSUME NEW p \in Page
                   PROVE  mem_map'[p] = IF p \notin Managed THEN RESERVED_PAGE
                            ELSE IF \E r \in runs' : p \in Pages(r) THEN 1 ELSE 0
        BY DEF MapCountsRuns, Pages
      <3>1. CASE p \in Pages(new)
        BY <3>1, <2>2, <2>3, <2>5
      <3>2. CASE p \notin Pages(new)
        BY <3>2, <2>4, <2>5 DEF IInv, MapCountsRuns
      <3>3. QED
        BY <3>1, <3>2
    <2>9. QED
      BY <2>6, <2>7, <2>8 DEF IInv
  <1>4. QED
    BY <1>2, <1>3 DEF AllocPages, n

LEMMA FreeKeepsIInv ==
    ASSUME IInv, NEW r \in runs, FreePages(r)
    PROVE  IInv'
  <1>1. CASE halted' = "bad free" /\ UNCHANGED <<mem_map, runs>>
    BY <1>1 DEF IInv, TypeOK, RunsDisjoint, RunsManaged, MapCountsRuns, Pages
  <1>2. CASE /\ r.start + 2^r.order < NR_PAGES
             /\ mem_map' = [p \in Page |-> IF p \in Pages(r)
                                           THEN (mem_map[p] - 1) % 256
                                           ELSE mem_map[p]]
             /\ runs' = runs \ {r}
             /\ halted' = halted
    <2>1. /\ r.start \in Page /\ r.order \in Order
          /\ 2^r.order \in Nat \ {0}
      BY RunPages DEF IInv
    <2>2. Pages(r) \subseteq Page
      BY <1>2, <2>1, PagesAssumption DEF Pages, Page
    <2>3. \A p \in Pages(r) : p \in Managed /\ mem_map'[p] = 0
      <3> SUFFICES ASSUME NEW p \in Pages(r)
                   PROVE  p \in Managed /\ mem_map'[p] = 0
        OBVIOUS
      <3>1. p \in Page /\ p \in Managed /\ mem_map[p] = 1
        BY <2>2 DEF IInv, RunsManaged, MapCountsRuns
      <3>2. QED
        BY <3>1, <1>2
    <2>4. \A p \in Page \ Pages(r) : mem_map'[p] = mem_map[p]
      BY <1>2
    <2>5. \A q \in runs' : q \in runs /\ Pages(q) \cap Pages(r) = {}
      BY <1>2 DEF IInv, RunsDisjoint
    <2>6. TypeOK'
      <3>1. 0 \in Byte
        BY DEF Byte
      <3>2. \A p \in Page : mem_map'[p] \in Byte
        BY <2>3, <2>4, <3>1 DEF IInv, TypeOK
      <3>3. mem_map' = [p \in Page |-> mem_map'[p]]
        BY <1>2
      <3>4. QED
        BY <3>2, <3>3, <1>2 DEF IInv, TypeOK
    <2>7. RunsDisjoint' /\ RunsManaged'
      BY <1>2 DEF IInv, RunsDisjoint, RunsManaged, Pages
    <2>8. MapCountsRuns'
      <3> SUFFICES ASSUME NEW p \in Page
                   PROVE  mem_map'[p] = IF p \notin Managed THEN RESERVED_PAGE
                            ELSE IF \E q \in runs' : p \in Pages(q) THEN 1 ELSE 0
        BY DEF MapCountsRuns, Pages
      <3>1. CASE p \in Pages(r)
        BY <3>1, <2>3, <2>5
      <3>2. CASE p \notin Pages(r)
        <4>1. (\E q \in runs' : p \in Pages(q)) <=> (\E q \in runs : p \in Pages(q))
          BY <3>2, <1>2
        <4>2. QED
          BY <3>2, <4>1, <2>4 DEF IInv, MapCountsRuns
      <3>3. QED
        BY <3>1, <3>2
    <2>9. QED
      BY <2>6, <2>7, <2>8 DEF IInv
  <1>3. QED
    BY <1>1, <1>2 DEF FreePages

LEMMA NextKeepsIInv == IInv /\ [Next]_vars => IInv'
  <1> SUFFICES ASSUME IInv, [Next]_vars PROVE IInv'
    OBVIOUS
  <1>1. ASSUME NEW k \in Order, AllocPages(k) PROVE IInv'
    BY <1>1, AllocKeepsIInv
  <1>2. ASSUME NEW r \in runs, FreePages(r) PROVE IInv'
    BY <1>2, FreeKeepsIInv
  <1>3. CASE UNCHANGED vars
    BY <1>3 DEF vars, IInv, TypeOK, RunsDisjoint, RunsManaged, MapCountsRuns, Pages
  <1>4. QED
    BY <1>1, <1>2, <1>3 DEF Next, Stopped

\* mem_map always holds bytes and the live runs are well formed: the counter
\* of a page (unsigned char mem_map[]) never wraps under callers that free
\* what they own.
THEOREM TypeCorrect == Spec => []TypeOK
  <1>1. IInv => TypeOK
    BY DEF IInv
  <1>2. QED
    BY <1>1, InitIInv, NextKeepsIInv, PTL DEF Spec

\* alloc_pages never hands out a page that a caller still owns, for every
\* number of pages, every order and every history of calls.
THEOREM AllocatedRunsDisjoint == Spec => []RunsDisjoint
  <1>1. IInv => RunsDisjoint
    BY DEF IInv
  <1>2. QED
    BY <1>1, InitIInv, NextKeepsIInv, PTL DEF Spec

\* mem_map counts exactly the pages that callers own: free_pages leaks
\* nothing and never frees a reserved page.
THEOREM MapIsExact == Spec => []MapCountsRuns
  <1>1. IInv => MapCountsRuns
    BY DEF IInv
  <1>2. QED
    BY <1>1, InitIInv, NextKeepsIInv, PTL DEF Spec

-----------------------------------------------------------------------------
(* The scan.  Accum is defined by recursion; what it is for every page is  *)
(* shown with the least page at which it would be something else.          *)

\* The least number principle.
LEMMA Smallest ==
    ASSUME NEW S \in SUBSET Nat, S # {}
    PROVE  \E m \in S : \A k \in S : m <= k
  <1> DEFINE R == OpToRel(<, Nat)
  <1>1. IsWellFoundedOn(R, Nat)
    BY NatLessThanWellFounded
  <1>2. \A x, y \in Nat : x < y => <<x, y>> \in R
    BY DEF OpToRel
  <1> HIDE DEF R
  <1>3. PICK m \in S : \A k \in S : <<k, m>> \notin R
    BY <1>1, WFMin
  <1>4. \A k \in S : ~(k < m)
    BY <1>2, <1>3
  <1>5. QED
    BY <1>4

\* b is the last used page at or before page i, -1 if there is none.
Behind(b, i) ==
    /\ b \in -1 .. i
    /\ b # -1 => mem_map[b] # 0
    /\ \A p \in b + 1 .. i : mem_map[p] = 0

Last(i) == CHOOSE b \in -1 .. i : Behind(b, i)

\* There is such a page, found by going back from i.
LEMMA LastExists ==
    ASSUME NEW i \in Page
    PROVE  Behind(Last(i), i)
  <1> DEFINE S == {d \in 0 .. i + 1 : i - d = -1 \/ mem_map[i - d] # 0}
  <1>1. i \in Nat
    BY PagesAssumption DEF Page
  <1>2. i + 1 \in S /\ S \subseteq Nat
    BY <1>1
  <1>3. PICK d \in S : \A e \in S : d <= e
    BY <1>2, Smallest
  <1>4. /\ d \in 0 .. i + 1 /\ i - d \in -1 .. i
        /\ i - d # -1 => mem_map[i - d] # 0
    BY <1>1
  <1>5. ASSUME NEW p \in (i - d) + 1 .. i PROVE mem_map[p] = 0
    <2>1. i - p \in 0 .. i + 1 /\ i - p < d /\ i - (i - p) = p /\ p # -1
      BY <1>1, <1>4
    <2>2. i - p \notin S
      BY <1>3, <1>4, <2>1
    <2>3. QED
      BY <2>1, <2>2
  <1>6. Behind(i - d, i)
    BY <1>4, <1>5 DEF Behind
  <1>7. QED
    BY <1>4, <1>6 DEF Last

\* And only one.
LEMMA LastIs ==
    ASSUME NEW i \in Page, NEW b, Behind(b, i)
    PROVE  Last(i) = b
  <1> PICK a : a = Last(i)
    OBVIOUS
  <1>1. Behind(a, i)
    BY LastExists
  <1>2. i \in Nat /\ a \in Int /\ b \in Int
    BY <1>1, PagesAssumption DEF Page, Behind
  <1>3. ~(a < b)
    BY <1>1, <1>2 DEF Behind
  <1>4. ~(b < a)
    BY <1>1, <1>2 DEF Behind
  <1>5. QED
    BY <1>2, <1>3, <1>4

\* A used page is a new last one, a free page leaves the last one as it was.
LEMMA LastSteps ==
    ASSUME NEW i \in Page
    PROVE  /\ Last(i) \in -1 .. i
           /\ mem_map[i] # 0 => Last(i) = i
           /\ mem_map[i] = 0 /\ i = 0 => Last(i) = -1
           /\ mem_map[i] = 0 /\ i # 0 => i - 1 \in Page /\ Last(i) = Last(i - 1)
  <1>1. i \in Nat /\ i < NR_PAGES /\ NR_PAGES \in Nat
    BY PagesAssumption DEF Page
  <1>2. Last(i) \in -1 .. i
    BY LastExists DEF Behind
  <1>3. ASSUME mem_map[i] # 0 PROVE Last(i) = i
    <2>1. Behind(i, i)
      BY <1>1, <1>3 DEF Behind
    <2>2. QED
      BY <2>1, LastIs
  <1>4. ASSUME mem_map[i] = 0, i = 0 PROVE Last(i) = -1
    <2>1. Behind(-1, i)
      BY <1>1, <1>4 DEF Behind
    <2>2. QED
      BY <2>1, LastIs
  <1>5. ASSUME mem_map[i] = 0, i # 0 PROVE i - 1 \in Page /\ Last(i) = Last(i - 1)
    <2>1. i - 1 \in Page
      BY <1>1, <1>5 DEF Page
    <2> PICK b : b = Last(i - 1)
      OBVIOUS
    <2>2. Behind(b, i - 1)
      BY <2>1, LastExists
    <2>3. b \in -1 .. i /\ \A p \in b + 1 .. i : p = i \/ p \in b + 1 .. i - 1
      BY <1>1, <2>2 DEF Behind
    <2>4. Behind(b, i)
      BY <1>5, <2>2, <2>3 DEF Behind
    <2>5. QED
      BY <2>1, <2>4, LastIs
  <1>6. QED
    BY <1>2, <1>3, <1>4, <1>5

\* The counter of the loop, defined by recursion over the pages, is the number
\* of free pages since the last used one.
LEMMA AccumIs ==
    \A i \in Page : Accum[i] = i - Last(i)
  <1> DEFINE Rec(f) == [i \in Page |-> IF mem_map[i] # 0 THEN 0
                                       ELSE IF i = 0 THEN 1 ELSE f[i - 1] + 1]
             g == [i \in Page |-> i - Last(i)]
  <1>1. g = Rec(g)
    <2> SUFFICES ASSUME NEW i \in Page
                 PROVE  g[i] = IF mem_map[i] # 0 THEN 0
                               ELSE IF i = 0 THEN 1 ELSE g[i - 1] + 1
      OBVIOUS
    <2>1. i \in Int
      BY DEF Page
    <2>2. QED
      BY <2>1, LastSteps
  <1>2. Accum = CHOOSE f : f = Rec(f)
    BY DEF Accum
  <1>3. Accum = Rec(Accum)
    BY <1>1, <1>2
  <1>4. SUFFICES ASSUME NEW j \in Page, Accum[j] # j - Last(j)
                 PROVE  FALSE
    OBVIOUS
  <1> DEFINE S == {i \in Page : Accum[i] # i - Last(i)}
  <1>5. S \subseteq Nat /\ j \in S
    BY <1>4, PagesAssumption DEF Page
  <1>6. PICK i \in S : \A k \in S : i <= k
    BY <1>5, Smallest
  <1>7. i \in Page /\ i \in Nat /\ Accum[i] # i - Last(i)
    BY <1>5
  <1>8. Accum[i] = IF mem_map[i] # 0 THEN 0
                   ELSE IF i = 0 THEN 1 ELSE Accum[i - 1] + 1
    BY <1>3, <1>7
  <1>9. mem_map[i] = 0 /\ i # 0
    BY <1>7, <1>8, LastSteps
  <1>10. i - 1 \in Page /\ Last(i) = Last(i - 1) /\ Last(i) \in Int
    BY <1>7, <1>9, LastSteps
  <1>11. Accum[i - 1] = (i - 1) - Last(i - 1)
    BY <1>6, <1>7, <1>10
  <1>12. QED
    BY <1>7, <1>8, <1>9, <1>10, <1>11

\* Where the free pages before a page are n exactly, the run of n begins behind
\* the last used page.
LEMMA ScanCounts ==
    ASSUME NEW i \in Page, NEW n \in Nat \ {0}, Accum[i] = n
    PROVE  /\ i - n + 1 \in Page
           /\ FreeRun(i - n + 1, n)
  <1> PICK b : b = Last(i)
    OBVIOUS
  <1>1. i - b = n /\ Behind(b, i)
    BY AccumIs, LastExists
  <1>2. i \in Nat /\ i < NR_PAGES /\ NR_PAGES \in Nat /\ b \in Int
    BY <1>1, PagesAssumption DEF Page, Behind
  <1>3. i - n + 1 = b + 1 /\ (b + 1) + n - 1 = i
    BY <1>1, <1>2
  <1>4. \A p \in b + 1 .. i : mem_map[p] = 0
    BY <1>1 DEF Behind
  <1>5. b + 1 \in Page /\ b + 1 + n <= NR_PAGES
    BY <1>1, <1>2 DEF Page, Behind
  <1>6. FreeRun(b + 1, n)
    BY <1>3, <1>4, <1>5 DEF FreeRun
  <1>7. QED
    BY <1>3, <1>5, <1>6

\* A run of n free pages makes the counter reach n at its end or before it: the
\* counter goes up by one at a time, from the last used page on.
LEMMA ScanReaches ==
    ASSUME NEW s \in Page, NEW n \in Nat \ {0}, FreeRun(s, n)
    PROVE  \E j \in Page : j <= s + n - 1 /\ Accum[j] = n
  <1> DEFINE e == s + n - 1
  <1>1. /\ s \in Nat /\ NR_PAGES \in Nat /\ e \in Page /\ e \in Nat
        /\ \A p \in s .. e : mem_map[p] = 0
    BY PagesAssumption DEF Page, FreeRun
  <1> PICK b : b = Last(e)
    OBVIOUS
  <1>2. Behind(b, e) /\ b \in Int /\ -1 <= b /\ b <= e
    <2>1. Behind(b, e)
      BY <1>1, LastExists
    <2>2. QED
      BY <2>1, <1>1 DEF Behind
  <1> HIDE DEF e
  <1>3. b < s
    BY <1>1, <1>2 DEF Behind
  <1>4. b + n \in Page /\ b + n <= e /\ b <= b + n /\ b + n \in Int
    BY <1>1, <1>2, <1>3 DEF Page, e
  <1>5. Behind(b, b + n)
    BY <1>2, <1>4, <1>1 DEF Behind
  <1>6. Last(b + n) = b
    BY <1>4, <1>5, LastIs
  <1>7. Accum[b + n] = n
    BY <1>2, <1>4, <1>6, AccumIs
  <1>8. QED
    BY <1>4, <1>7 DEF e

\* The first page at which the counter is n ends the lowest run of n free pages.
LEMMA ScanFinds ==
    ASSUME NEW n \in Nat \ {0}
    PROVE  \/ ScanStop(n) \in Page /\ FirstFit(ScanStart(n), n)
           \/ ScanStop(n) = NR_PAGES /\ \A s \in Page : ~FreeRun(s, n)
  <1> DEFINE S == {i \in Page : Accum[i] = n}
  <1>1. S \in SUBSET Nat
    BY PagesAssumption DEF Page
  <1>2. CASE S = {}
    <2>1. ScanStop(n) = NR_PAGES
      BY <1>2 DEF ScanStop
    <2>2. \A s \in Page : ~FreeRun(s, n)
      BY <1>2, ScanReaches
    <2>3. QED
      BY <2>1, <2>2
  <1>3. CASE S # {}
    <2>1. PICK m \in S : \A k \in S : m <= k
      BY <1>1, <1>3, Smallest
    <2> DEFINE First(i) == i \in Page /\ Accum[i] = n /\ \A j \in 0 .. i - 1 : Accum[j] # n
    <2>2. First(m)
      <3>1. m \in Page /\ m \in Nat /\ Accum[m] = n
        BY <1>1
      <3>2. ASSUME NEW j \in 0 .. m - 1 PROVE Accum[j] # n
        <4>1. j \in Page /\ j < m
          BY <3>1, PagesAssumption DEF Page
        <4>2. j \notin S
          BY <2>1, <3>1, <4>1
        <4>3. QED
          BY <4>1, <4>2
      <3>3. QED
        BY <3>1, <3>2
    <2>3. ScanStop(n) = CHOOSE i \in Page : Accum[i] = n /\ \A j \in 0 .. i - 1 : Accum[j] # n
      BY <2>2 DEF ScanStop
    <2> PICK i : i = ScanStop(n)
      OBVIOUS
    <2>4. First(i)
      BY <2>2, <2>3
    <2>5. i \in Page /\ i \in Nat /\ i - n + 1 \in Page /\ FreeRun(i - n + 1, n)
      BY <2>4, ScanCounts, PagesAssumption DEF Page
    <2>6. ASSUME NEW t \in Page, FreeRun(t, n) PROVE i - n + 1 <= t
      <3>1. PICK j \in Page : j <= t + n - 1 /\ Accum[j] = n
        BY <2>6, ScanReaches
      <3>2. j \in Nat /\ t \in Nat
        BY PagesAssumption DEF Page
      <3>3. ~(j < i)
        BY <2>4, <2>5, <3>1, <3>2
      <3>4. QED
        BY <2>5, <3>1, <3>2, <3>3
    <2>7. FirstFit(ScanStart(n), n)
      BY <2>5, <2>6 DEF FirstFit, ScanStart
    <2>8. QED
      BY <2>5, <2>7
  <1>4. QED
    BY <1>2, <1>3

\* The counting loop of alloc_pages finds the lowest run that is long enough
\* and misses none, in every state, for every size of mem_map and every order.
THEOREM ScanFindsFirstFit == Spec => []ScanIsFirstFit
  <1>1. ScanIsFirstFit
    BY ScanFinds, PagesAssumption DEF ScanIsFirstFit
  <1>2. QED
    BY <1>1, PTL
=============================================================================
