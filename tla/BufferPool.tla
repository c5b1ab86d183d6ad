---------------------------- MODULE BufferPool -----------------------------
(***************************************************************************)
(* The buffer cache (kernel/blk_drv/buffer.c), the request table it draws  *)
(* on (ll_rw_blk.c) and the outcome of a transfer (hd.c), with the order   *)
(* of the two buffer lists left open: cached is the set of buffers on      *)
(* cached_list, the others are on free_list, and bread takes any of the    *)
(* buffers the lists offer.  BufferCache adds the lists.                   *)
(*                                                                         *)
(* The kernel runs with interrupts off and the driver polls, so bread,     *)
(* bwrite and brelease are one step each.  Clients are handles: a handle   *)
(* is the pointer bread returned, used for stores until it is released     *)
(* once.  There is one device, so a block stands for a pair of b_dev and   *)
(* b_blocknr.                                                              *)
(***************************************************************************)
EXTENDS Integers, FiniteSets

CONSTANTS
    NR_BUFFERS,     \* buffers between buffer_init's start and end
    NR_REQUEST,     \* slots of request[]
    Blk, Val, Handle,
    NoBlk, NoBuf,
    Junk,           \* content that no client stored
    Outcomes,       \* what a transfer may do, subset of TransferOutcome
    BootWords       \* values of the words buffer_init leaves uninitialised

Buf == 1 .. NR_BUFFERS
SlotNr == 0 .. NR_REQUEST - 1
Content == Val \cup {Junk}

\* ok:   the sectors are transferred;
\* busy: the drive stays busy, hd_rdwt returns -1 and nobody looks at it;
\* dead: the driver panics ("controller not ready", "writing error"), a write
\*       possibly after the first of the two sectors (so does a power failure
\*       in the middle of the transfer).
TransferOutcome == {"ok", "busy", "dead"}

ASSUME PoolAssumption ==
    /\ NR_BUFFERS \in Nat \ {0} /\ NR_REQUEST \in Nat \ {0}
    /\ Blk # {} /\ NoBlk \notin Blk /\ NoBuf \notin Buf /\ Junk \notin Val
    /\ Outcomes \subseteq TransferOutcome /\ "ok" \in Outcomes
    /\ BootWords \subseteq {0, 1} /\ 0 \in BootWords
    /\ IsFiniteSet(Handle)

VARIABLES
    disk,           \* [Blk -> Content]
    request,        \* slots of request[] whose dev is not -1
    cached,         \* buffers on cached_list; the others are on free_list
    b_blocknr, b_uptodate, b_dirty, b_count, b_data,
    hbuf, hblk,     \* per handle: the buffer it points to, the block asked for
    halted          \* "no", or the panic/assert the kernel spins in

heads == <<b_blocknr, b_uptodate, b_dirty, b_count, b_data>>
handles == <<hbuf, hblk>>
vars == <<disk, request, cached, heads, handles, halted>>

Stops == {"cache pool full", "b_count", "too many requests", "drive"}

TypeOK ==
    /\ disk \in [Blk -> Content]
    /\ request \in SUBSET SlotNr
    /\ cached \in SUBSET Buf
    /\ b_blocknr \in [Buf -> Blk \cup {NoBlk}]
    /\ b_uptodate \in [Buf -> {0, 1}]
    /\ b_dirty \in [Buf -> {0, 1}]
    /\ b_count \in [Buf -> Nat]
    /\ b_data \in [Buf -> Content]
    /\ hbuf \in [Handle -> Buf \cup {NoBuf}]
    /\ hblk \in [Handle -> Blk \cup {NoBlk}]
    /\ halted \in {"no"} \cup Stops

-----------------------------------------------------------------------------
\* buffer_init and blk_dev_init over an undefined memory: b_count and b_dirty
\* are not written, b_uptodate is.
Init ==
    /\ disk \in [Blk -> Val]
    /\ request = {}
    /\ cached = {}
    /\ b_blocknr = [x \in Buf |-> NoBlk]
    /\ b_uptodate = [x \in Buf |-> 0]
    /\ b_dirty \in [Buf -> BootWords]
    /\ b_count \in [Buf -> BootWords]
    /\ b_data = [x \in Buf |-> Junk]
    /\ hbuf = [h \in Handle |-> NoBuf]
    /\ hblk = [h \in Handle |-> NoBlk]
    /\ halted = "no"

PowerCycle ==
    /\ request' = {}
    /\ cached' = {}
    /\ b_blocknr' = [x \in Buf |-> NoBlk]
    /\ b_uptodate' = [x \in Buf |-> 0]
    /\ b_dirty' \in [Buf -> BootWords]
    /\ b_count' \in [Buf -> BootWords]
    /\ b_data' = [x \in Buf |-> Junk]
    /\ hbuf' = [h \in Handle |-> NoBuf]
    /\ hblk' = [h \in Handle |-> NoBlk]
    /\ halted' = "no"
    /\ UNCHANGED disk

Halt(why) == halted' = why /\ UNCHANGED <<request, cached, heads, handles>>

-----------------------------------------------------------------------------
\* add_request: the lowest empty slot, for a write not in the first third.
\* The slot keeps its dev after the transfer; only a reboot empties it.
EmptySlots(rw) ==
    {i \in SlotNr : i \notin request /\ (rw = "write" => i >= NR_REQUEST \div 3)}

AddRequest(rw) ==
    \E i \in EmptySlots(rw) :
        /\ \A j \in EmptySlots(rw) : i <= j
        /\ request' = request \cup {i}

\* mutant: only a buffer that is in use counts as a hit
Hits_in_use(blk) ==
    {x \in cached : b_uptodate[x] = 1 /\ b_blocknr[x] = blk /\ b_count[x] > 0}

Hits(blk) == {x \in cached : b_uptodate[x] = 1 /\ b_blocknr[x] = blk}

\* mutant: the eviction loop does not look at b_count
Unused_any == cached

\* Cached buffers without a holder: bread moves them all to an empty free_list.
Unused == {x \in cached : b_count[x] = 0}
Free == Buf \ cached

\* mutant: a hit does not count the new holder
BreadHit_no_count(h, blk) ==
    /\ halted = "no" /\ hblk[h] = NoBlk
    /\ \E x \in Hits(blk) :
        /\ hbuf' = [hbuf EXCEPT ![h] = x]
        /\ hblk' = [hblk EXCEPT ![h] = blk]
    /\ UNCHANGED <<disk, request, cached, heads, halted>>

BreadHit(h, blk) ==
    /\ halted = "no" /\ hblk[h] = NoBlk
    /\ \E x \in Hits(blk) :
        /\ b_count' = [b_count EXCEPT ![x] = @ + 1]
        /\ hbuf' = [hbuf EXCEPT ![h] = x]
        /\ hblk' = [hblk EXCEPT ![h] = blk]
    /\ UNCHANGED <<disk, request, cached, b_blocknr, b_uptodate, b_dirty,
                   b_data, halted>>

\* x becomes the buffer of blk; the read fills it or, with the drive busy,
\* leaves what it held; either way it counts as up to date.
Fill(h, blk, x) ==
    /\ AddRequest("read")
    /\ cached' = (IF Free = {} THEN cached \ Unused ELSE cached) \cup {x}
    /\ b_count' = [b_count EXCEPT ![x] = 1]
    /\ b_blocknr' = [b_blocknr EXCEPT ![x] = blk]
    /\ \/ b_data' = [b_data EXCEPT ![x] = disk[blk]]
       \/ "busy" \in Outcomes /\ UNCHANGED b_data
    /\ b_uptodate' = [b_uptodate EXCEPT ![x] = 1]
    /\ hbuf' = [hbuf EXCEPT ![h] = x]
    /\ hblk' = [hblk EXCEPT ![h] = blk]
    /\ UNCHANGED <<b_dirty, halted>>

\* bread misses and looks at buffer x: one of free_list, or after the refill
\* of an empty free_list one of cached_list (the loop cursor).
BreadMiss(h, blk, x) ==
    /\ halted = "no" /\ hblk[h] = NoBlk /\ Hits(blk) = {}
    /\ x \in (IF Free = {} THEN cached ELSE Free)
    /\ UNCHANGED disk
    /\ \/ Free = {} /\ Unused = {} /\ Halt("cache pool full")
       \/ /\ Free # {} \/ Unused # {}
          /\ \/ b_count[x] # 0 /\ Halt("b_count")
             \/ /\ b_count[x] = 0
                /\ \/ EmptySlots("read") = {} /\ Halt("too many requests")
                   \/ /\ EmptySlots("read") # {} /\ "dead" \in Outcomes
                      /\ Halt("drive")
                   \/ Fill(h, blk, x)

\* A client stores into b_data and calls bwrite.
Bwrite(h, v) ==
    /\ halted = "no" /\ hblk[h] # NoBlk
    /\ b_data' = [b_data EXCEPT ![hbuf[h]] = v]
    /\ b_dirty' = [b_dirty EXCEPT ![hbuf[h]] = 1]
    /\ UNCHANGED <<disk, request, cached, b_blocknr, b_uptodate, b_count,
                   handles, halted>>

\* mutants: the write-back is missing, the dirty flag is not cleared, it is
\* cleared by every release, the count is dropped twice.
DropReference(h, drops, dirty) ==
    /\ halted = "no" /\ hblk[h] # NoBlk
    /\ b_count' = [b_count EXCEPT ![hbuf[h]] = @ - drops]
    /\ b_dirty' = [b_dirty EXCEPT ![hbuf[h]] = dirty]
    /\ hbuf' = [hbuf EXCEPT ![h] = NoBuf]
    /\ hblk' = [hblk EXCEPT ![h] = NoBlk]
    /\ UNCHANGED <<cached, b_blocknr, b_uptodate, b_data, halted>>
Brelease_no_sync(h) ==
    DropReference(h, 1, 0) /\ UNCHANGED <<disk, request>>
Brelease_keeps_dirty(h) ==
    /\ DropReference(h, 1, b_dirty[hbuf[h]])
    /\ disk' = [disk EXCEPT ![hblk[h]] = b_data[hbuf[h]]]
    /\ UNCHANGED request
Brelease_early_clean(h) ==
    /\ DropReference(h, 1, 0)
    /\ IF b_count[hbuf[h]] = 1 /\ b_dirty[hbuf[h]] = 1
       THEN disk' = [disk EXCEPT ![hblk[h]] = b_data[hbuf[h]]]
       ELSE UNCHANGED disk
    /\ UNCHANGED request
Brelease_twice(h) ==
    /\ DropReference(h, 2, 0)
    /\ disk' = [disk EXCEPT ![hblk[h]] = b_data[hbuf[h]]]
    /\ UNCHANGED request

\* The last release of a dirty buffer writes it back.  The handle's reference
\* is one of those b_count counts, so the assert on b_count holds.
Brelease(h) ==
    LET x == hbuf[h]
        sync == b_count[x] = 1 /\ b_dirty[x] = 1
        drop == /\ b_count' = [b_count EXCEPT ![x] = @ - 1]
                /\ hbuf' = [hbuf EXCEPT ![h] = NoBuf]
                /\ hblk' = [hblk EXCEPT ![h] = NoBlk]
                /\ UNCHANGED <<cached, b_blocknr, b_uptodate, b_data, halted>>
    IN
    /\ halted = "no" /\ hblk[h] # NoBlk
    /\ \/ ~sync /\ drop /\ UNCHANGED <<disk, request, b_dirty>>
       \/ /\ sync /\ EmptySlots("write") = {}
          /\ Halt("too many requests") /\ UNCHANGED disk
       \/ /\ sync /\ EmptySlots("write") # {} /\ "dead" \in Outcomes
          /\ Halt("drive")
          /\ \/ UNCHANGED disk
             \/ disk' = [disk EXCEPT ![b_blocknr[x]] = Junk]
       \/ /\ sync /\ AddRequest("write") /\ drop
          /\ b_dirty' = [b_dirty EXCEPT ![x] = 0]
          /\ \/ disk' = [disk EXCEPT ![b_blocknr[x]] = b_data[x]]
             \/ "busy" \in Outcomes /\ UNCHANGED disk

Next ==
    \/ \E h \in Handle, blk \in Blk : BreadHit(h, blk)
    \/ \E h \in Handle, blk \in Blk, x \in Buf : BreadMiss(h, blk, x)
    \/ \E h \in Handle, v \in Val : Bwrite(h, v)
    \/ \E h \in Handle : Brelease(h)
    \/ PowerCycle

Spec == Init /\ [][Next]_vars

-----------------------------------------------------------------------------
(* Properties. *)

Holders(x) == {h \in Handle : hbuf[h] = x}

\* b_count of a cached buffer is the number of clients that hold it, whatever
\* hits, misses, evictions and releases came before: the buffer.c:59 assert
\* never fails and no reference is lost.
CountIsHolders ==
    \A x \in cached : b_count[x] = Cardinality(Holders(x))

\* While a client holds a buffer, bread never gives that buffer to another
\* block, and it stays on cached_list and up to date.
HeldBufferKeepsBlock ==
    \A h \in Handle : hblk[h] # NoBlk =>
        /\ hbuf[h] \in cached
        /\ b_blocknr[hbuf[h]] = hblk[h]
        /\ b_uptodate[hbuf[h]] = 1

\* A block is never cached in two buffers, so two clients of one block share
\* its data and no stale copy can be hit later.
OneBufferPerBlock ==
    \A x, y \in cached : b_blocknr[x] = b_blocknr[y] => x = y

\* A cached buffer that nobody marked dirty holds what is on disk.  It needs a
\* drive that is never given up on as busy.
CleanMatchesDisk ==
    \A x \in cached : b_dirty[x] = 0 => b_data[x] = disk[b_blocknr[x]]

\* Every dirty cached buffer has a holder whose release will write it: no
\* modified block waits in the cache with nobody left to write it back, so
\* eviction never drops a store.
DirtyOnlyWhileHeld ==
    \A x \in cached : b_dirty[x] = 1 => \E h \in Handle : hbuf[h] = x

\* What a client sees of a block: its cached buffer, else the disk.
View == [blk \in Blk |-> IF \E x \in cached : b_blocknr[x] = blk
                         THEN b_data[CHOOSE x \in cached : b_blocknr[x] = blk]
                         ELSE disk[blk]]

Store == INSTANCE BlockStore WITH
    store <- View, durable <- disk, open <- hblk, up <- halted = "no"

\* The cache is a block store: every handle of a block sees the latest store,
\* and the last brelease of a block makes it survive a power cycle (buffer.c
\* writes back synchronously at b_count 0).
ImplementsBlockStore == Store!Spec

=============================================================================
