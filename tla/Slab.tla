-------------------------------- MODULE Slab --------------------------------
(***************************************************************************)
(* The slab allocator of mm/slab.c over the page allocator.  A slab is one *)
(* page of equal objects with a free list of object numbers; a cache keeps *)
(* its slabs on three lists.  The caches themselves are objects of the     *)
(* cache Root.  A call runs with interrupts off and is one step, except    *)
(* for kmem_cache_destroy, which is a step for each page it gives back.    *)
(*                                                                         *)
(* Callers free an object once.  The asserts of __check_slab follow from   *)
(* FreeListExact, so no action has a branch for them.                      *)
(***************************************************************************)
EXTENDS Integers, FiniteSets, SequencesExt

CONSTANTS
    NR_PAGES, FirstPage, LastPage, MaxOrder,    \* of PageAlloc
    Root,           \* &cache_cache
    RootCnt,        \* objects in a slab of Root
    Counts,         \* objects in a slab of the caches that callers create
    NoSlab, NoCache

VARIABLES
    mem_map, runs, halted,  \* of PageAlloc
    slab,           \* the struct slab at the end of each page, or NoSlab
    cache,          \* the struct kmem_cache at each address
    cache_chain,    \* caches on this list
    held,           \* objects handed out and not yet freed
    destroying,     \* cache in the loop of kmem_cache_destroy, or NoCache
    panicked        \* kmem_cache_destroy refused a cache

pages == <<mem_map, runs, halted>>
vars == <<pages, slab, cache, cache_chain, held, destroying, panicked>>

PageLevel == INSTANCE PageAlloc
Page == PageLevel!Page
PageOf(o) == o[1]
Whole(p) == [start |-> p, order |-> 0]

ASSUME SlabAssumption ==
    /\ MaxOrder \in Nat /\ RootCnt \in Nat \ {0} /\ Counts \subseteq Nat \ {0}
    /\ Root \notin Page \X Nat /\ NoCache \notin {Root} \cup (Page \X Nat)

ObjNr == UNION {0 .. n - 1 : n \in Counts \cup {RootCnt}}
Object == Page \X ObjNr
Cache == {Root} \cup (Page \X (0 .. RootCnt - 1))
BUFCTL_END == -1

SlabRec == [cache : Cache, inuse : Nat, free : ObjNr \cup {BUFCTL_END},
            bufctl : UNION {[0 .. n - 1 -> ObjNr \cup {BUFCTL_END}]
                                : n \in Counts \cup {RootCnt}}]
ASSUME NoSlabAssumption == NoSlab \notin SlabRec

CacheRec == [objcnt : Nat, partial : Seq(Page), full : Seq(Page), free : Seq(Page)]

TypeOK ==
    /\ slab \in [Page -> SlabRec \cup {NoSlab}]
    /\ cache \in [Cache -> CacheRec]
    /\ cache_chain \in SUBSET Cache
    /\ held \in SUBSET Object
    /\ destroying \in Cache \cup {NoCache}
    /\ panicked \in BOOLEAN

NewCache(n) == [objcnt |-> n, partial |-> <<>>, full |-> <<>>, free |-> <<>>]

\* cache_init up to the creation of the generic caches, which is Create.
Init ==
    /\ PageLevel!Init
    /\ slab = [p \in Page |-> NoSlab]
    /\ cache = [c \in Cache |-> NewCache(IF c = Root THEN RootCnt ELSE 0)]
    /\ cache_chain = {Root}
    /\ held = {}
    /\ destroying = NoCache /\ panicked = FALSE

-----------------------------------------------------------------------------
(* Slabs and lists. *)

\* A list without the entry p, which is on it once or not at all.
list_del(q, p) ==
    LET at == {i \in DOMAIN q : q[i] = p}
    IN IF at = {} THEN q ELSE RemoveAt(q, CHOOSE i \in at : TRUE)

\* p leaves the list it is on.
Unlinked(r, p) ==
    [r EXCEPT !.partial = list_del(@, p),
              !.full = list_del(@, p),
              !.free = list_del(@, p)]

\* _create_slab.  The list of free slabs it is put on is left at once.
FreshSlab(c) ==
    LET n == cache[c].objcnt IN
    [cache |-> c, inuse |-> 0, free |-> 0,
     bufctl |-> [i \in 0 .. n - 1 |-> IF i = n - 1 THEN BUFCTL_END ELSE i + 1]]

\* The slab kmem_cache_alloc takes an object from: a partial one before a free
\* one, the head of the list, and a new page only if both lists are empty.
Pick(c, p, s) ==
    \/ /\ cache[c].partial # <<>>
       /\ p = Head(cache[c].partial) /\ s = slab[p]
       /\ UNCHANGED pages
    \/ /\ cache[c].partial = <<>> /\ cache[c].free # <<>>
       /\ p = Head(cache[c].free) /\ s = slab[p]
       /\ UNCHANGED pages
    \/ /\ cache[c].partial = <<>> /\ cache[c].free = <<>>
       /\ PageLevel!AllocPages(0) /\ halted' = "no"
       /\ runs' = runs \cup {Whole(p)} /\ Whole(p) \notin runs
       /\ s = FreshSlab(c)

\* The slab after _slab_alloc, and its cache with the slab on the right list.
Taken(s) == [s EXCEPT !.free = s.bufctl[s.free], !.inuse = @ + 1]

\* mutant: a slab stays on the partial list when its last object is taken
Relisted_partial(c, p, s) == [Unlinked(cache[c], p) EXCEPT !.partial = <<p>> \o @]

Relisted(c, p, s) ==
    LET r == Unlinked(cache[c], p) IN
    IF s.free = BUFCTL_END THEN [r EXCEPT !.full = <<p>> \o @]
    ELSE [r EXCEPT !.partial = <<p>> \o @]

\* mutant: slab->free is set before it is copied into the link
Returned_swapped(s, i) == [s EXCEPT !.bufctl[i] = i, !.free = i, !.inuse = @ - 1]

\* The slab after _slab_free.
Returned(s, i) == [s EXCEPT !.bufctl[i] = s.free, !.free = i, !.inuse = @ - 1]

-----------------------------------------------------------------------------
(* The operations. *)

Running == halted = "no" /\ ~panicked /\ destroying = NoCache

\* kmem_cache_alloc by a caller, kmalloc.
Alloc(c) ==
    /\ Running /\ c \in cache_chain \ {Root}
    /\ \E p \in Page, s \in {slab[q] : q \in Page} \cup {FreshSlab(c)} :
        /\ Pick(c, p, s)
        /\ slab' = [slab EXCEPT ![p] = Taken(s)]
        /\ cache' = [cache EXCEPT ![c] = Relisted(c, p, Taken(s))]
        /\ held' = held \cup {<<p, s.free>>}
    /\ UNCHANGED <<cache_chain, destroying, panicked>>

\* kmem_cache_createx: the new cache is an object of Root.
Create(n) ==
    /\ Running
    /\ \E p \in Page, s \in {slab[q] : q \in Page} \cup {FreshSlab(Root)} :
        /\ Pick(Root, p, s)
        /\ slab' = [slab EXCEPT ![p] = Taken(s)]
        /\ cache' = [cache EXCEPT ![Root] = Relisted(Root, p, Taken(s)),
                                  ![<<p, s.free>>] = NewCache(n)]
        /\ cache_chain' = cache_chain \cup {<<p, s.free>>}
        /\ held' = held \cup {<<p, s.free>>}
    /\ UNCHANGED <<destroying, panicked>>

\* alloc_page panics when a new slab is needed and no page is left.
NoPage(c) ==
    /\ Running /\ c \in cache_chain
    /\ cache[c].partial = <<>> /\ cache[c].free = <<>>
    /\ PageLevel!AllocPages(0) /\ halted' # "no"
    /\ UNCHANGED <<slab, cache, cache_chain, held, destroying, panicked>>

\* kmem_cache_free, kfree: the slab is found from the address.
Free(o) ==
    LET p == PageOf(o)
        s == Returned(slab[p], o[2])
        c == s.cache
        r == Unlinked(cache[c], p)
    IN
    /\ Running /\ c # Root
    /\ slab' = [slab EXCEPT ![p] = s]
    /\ cache' = [cache EXCEPT ![c] =
                    IF s.inuse = 0 THEN [r EXCEPT !.free = <<p>> \o @]
                    ELSE [r EXCEPT !.partial = <<p>> \o @]]
    /\ held' = held \ {o}
    /\ UNCHANGED <<pages, cache_chain, destroying, panicked>>

\* mutant: full slabs are forgotten
DestroyStart_partial_only(c) ==
    /\ Running /\ c \in cache_chain \ {Root}
    /\ IF cache[c].partial # <<>>
       THEN panicked' = TRUE /\ UNCHANGED destroying
       ELSE destroying' = c /\ UNCHANGED panicked
    /\ UNCHANGED <<pages, slab, cache, cache_chain, held>>

\* kmem_cache_destroy, up to its loop.
DestroyStart(c) ==
    /\ Running /\ c \in cache_chain \ {Root}
    /\ IF cache[c].partial # <<>> \/ cache[c].full # <<>>
       THEN panicked' = TRUE /\ UNCHANGED destroying
       ELSE destroying' = c /\ UNCHANGED panicked
    /\ UNCHANGED <<pages, slab, cache, cache_chain, held>>

\* mutant: list_del is missing
DestroySlab_no_del ==
    /\ halted = "no" /\ destroying # NoCache /\ cache[destroying].free # <<>>
    /\ LET p == Head(cache[destroying].free) IN
        /\ PageLevel!FreePages(Whole(p))
        /\ slab' = [slab EXCEPT ![p] = NoSlab]
    /\ UNCHANGED <<cache, cache_chain, held, destroying, panicked>>

\* _destroy_slab of the first free slab.
DestroySlab ==
    /\ halted = "no" /\ destroying # NoCache /\ cache[destroying].free # <<>>
    /\ LET p == Head(cache[destroying].free) IN
        /\ PageLevel!FreePages(Whole(p))
        /\ slab' = [slab EXCEPT ![p] = NoSlab]
        /\ cache' = [cache EXCEPT ![destroying] = Unlinked(@, p)]
    /\ UNCHANGED <<cache_chain, held, destroying, panicked>>

\* The cache leaves the chain; its struct is not given back to Root.
DestroyEnd ==
    /\ halted = "no" /\ destroying # NoCache /\ cache[destroying].free = <<>>
    /\ cache_chain' = cache_chain \ {destroying}
    /\ destroying' = NoCache
    /\ UNCHANGED <<pages, slab, cache, held, panicked>>

\* A panic spins with interrupts off.
Stopped == (halted # "no" \/ panicked) /\ UNCHANGED vars

Next ==
    \/ \E c \in cache_chain : Alloc(c) \/ NoPage(c) \/ DestroyStart(c)
    \/ \E n \in Counts : Create(n)
    \/ \E o \in held : Free(o)
    \/ DestroySlab \/ DestroyEnd
    \/ Stopped

Spec == Init /\ [][Next]_vars

-----------------------------------------------------------------------------
(* Properties. *)

\* The free list of page p, followed n links from slab->free.
Link(p, n) ==
    LET s == slab[p]
        walk[k \in 0 .. n] ==
            IF k = 0 THEN s.free
            ELSE IF walk[k - 1] = BUFCTL_END THEN BUFCTL_END
            ELSE s.bufctl[walk[k - 1]]
    IN walk[n]

\* In any order of allocation and release the free list of a slab visits
\* exactly the objects nobody holds, each once, and ends: no object has two
\* owners, none is lost, and the walk of __check_slab terminates and agrees
\* with inuse.
FreeListExact ==
    \A p \in Page : slab[p] # NoSlab =>
        LET n == cache[slab[p].cache].objcnt
            inUse == {i \in 0 .. n - 1 : <<p, i>> \in held}
        IN /\ slab[p].inuse = Cardinality(inUse)
           /\ {Link(p, k) : k \in 0 .. n - slab[p].inuse - 1} = (0 .. n - 1) \ inUse
           /\ Link(p, n - slab[p].inuse) = BUFCTL_END

\* Every slab is on exactly one list of its cache, once, and on the one its
\* fill demands; so allocation never takes from a full slab and a destroy never
\* frees the page of an object in use.
OnRightList ==
    \A c \in cache_chain :
        LET r == cache[c]
            mine == {p \in Page : slab[p] # NoSlab /\ slab[p].cache = c}
            empty == {p \in mine : slab[p].inuse = 0}
            fullUp == {p \in mine : slab[p].inuse = r.objcnt}
        IN /\ ToSet(r.free) = empty
           /\ ToSet(r.full) = fullUp
           /\ ToSet(r.partial) = mine \ (empty \cup fullUp)
           /\ Len(r.free) + Len(r.full) + Len(r.partial) = Cardinality(mine)

\* The allocator owns exactly the pages of its slabs, a page with an object in
\* use is never given back, and every slab belongs to a cache on the chain.
PagesOwned ==
    halted = "no" =>
        /\ runs = {Whole(p) : p \in {q \in Page : slab[q] # NoSlab}}
        /\ \A o \in held : slab[PageOf(o)] # NoSlab
        /\ \A p \in Page : slab[p] # NoSlab => slab[p].cache \in cache_chain

\* The allocator is a well-behaved client of the page allocator: it frees a
\* page once, and only a page it got.
UsesPageAlloc == PageLevel!Spec
=============================================================================
