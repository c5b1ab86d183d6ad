------------------------- MODULE BufferCacheProofs -------------------------
(* The invariants of the buffer cache for every number of buffers, request *)
(* slots, blocks and clients, first for the pool, in which the lists are   *)
(* sets.  The lists only decide which buffer bread takes: every step of    *)
(* the cache with its lists is a step of the pool, so what is shown of the *)
(* pool holds for it, and it implements the block store.                   *)
EXTENDS BufferCache, FiniteSetTheorems, SequenceTheorems, TLAPS

\* What the invariants need of each other: a buffer on cached_list always has
\* a block and is up to date, so a miss means that the block is in no buffer;
\* a handle points to a buffer exactly while it is open.
CachedValid ==
    \A x \in cached : b_uptodate[x] = 1 /\ b_blocknr[x] \in Blk
ClosedHandles ==
    \A h \in Handle : hblk[h] = NoBlk => hbuf[h] = NoBuf

IInv ==
    /\ TypeOK /\ CachedValid /\ ClosedHandles
    /\ HeldBufferKeepsBlock /\ CountIsHolders
    /\ OneBufferPerBlock /\ DirtyOnlyWhileHeld

-----------------------------------------------------------------------------
\* Facts about the handles that point to a buffer.

LEMMA HoldersFinite ==
    ASSUME NEW x
    PROVE  /\ IsFiniteSet(Holders(x))
           /\ Cardinality(Holders(x)) \in Nat
           /\ Cardinality(Holders(x)) = 0 <=> Holders(x) = {}
  <1>1. Holders(x) \subseteq Handle /\ IsFiniteSet(Handle)
    BY PoolAssumption DEF Holders
  <1>2. IsFiniteSet(Holders(x))
    BY <1>1, FS_Subset
  <1>3. QED
    BY <1>2, FS_CardinalityType, FS_EmptySet

\* An open handle points to a cached buffer that counts it.
LEMMA OpenHandle ==
    ASSUME IInv, NEW h \in Handle, hblk[h] # NoBlk
    PROVE  /\ hbuf[h] \in cached /\ hbuf[h] \in Buf
           /\ hblk[h] \in Blk /\ b_blocknr[hbuf[h]] = hblk[h]
           /\ b_count[hbuf[h]] \in Nat \ {0}
           /\ h \in Holders(hbuf[h])
           /\ b_count[hbuf[h]] = 1 => Holders(hbuf[h]) = {h}
           /\ b_count[hbuf[h]] # 1 => \E g \in Handle \ {h} : hbuf[g] = hbuf[h]
  <1> DEFINE x == hbuf[h]
  <1>1. x \in cached /\ x \in Buf /\ hblk[h] \in Blk /\ b_blocknr[x] = hblk[h]
    BY DEF IInv, HeldBufferKeepsBlock, TypeOK
  <1>2. h \in Holders(x)
    BY DEF Holders
  <1>3. b_count[x] = Cardinality(Holders(x)) /\ b_count[x] \in Nat \ {0}
    BY <1>1, <1>2, HoldersFinite DEF IInv, CountIsHolders
  <1>4. /\ IsFiniteSet(Holders(x) \ {h})
        /\ Cardinality(Holders(x) \ {h}) = b_count[x] - 1
    BY <1>2, <1>3, HoldersFinite, FS_RemoveElement
  <1>5. b_count[x] = 1 => Holders(x) = {h}
    BY <1>2, <1>4, FS_EmptySet
  <1>6. b_count[x] # 1 => Holders(x) \ {h} # {}
    BY <1>3, <1>4, FS_EmptySet
  <1>7. QED
    BY <1>1, <1>2, <1>3, <1>5, <1>6 DEF Holders

\* A buffer whose count is 0 and that bread may take has no holder.
LEMMA UnusedHasNoHolder ==
    ASSUME IInv, NEW x \in Buf, x \in cached => b_count[x] = 0
    PROVE  \A h \in Handle : hbuf[h] # x
  <1>1. CASE x \in cached
    <2>1. Holders(x) = {}
      BY <1>1, HoldersFinite DEF IInv, CountIsHolders
    <2>2. QED
      BY <2>1 DEF Holders
  <1>2. CASE x \notin cached
    BY <1>2, PoolAssumption DEF IInv, ClosedHandles, HeldBufferKeepsBlock
  <1>3. QED
    BY <1>1, <1>2

-----------------------------------------------------------------------------
LEMMA BootWordTypes ==
    ASSUME NEW f \in [Buf -> BootWords]
    PROVE  f \in [Buf -> {0, 1}] /\ f \in [Buf -> Nat]
  <1>1. BootWords \subseteq {0, 1} /\ BootWords \subseteq Nat
    BY PoolAssumption
  <1>2. \A x \in Buf : f[x] \in {0, 1} /\ f[x] \in Nat
    BY <1>1
  <1>3. QED
    BY <1>2

LEMMA InitIInv == Init => IInv
  <1> SUFFICES ASSUME Init PROVE IInv
    OBVIOUS
  <1>1. TypeOK
    <2>1. b_dirty \in [Buf -> {0, 1}] /\ b_count \in [Buf -> Nat]
      BY BootWordTypes DEF Init
    <2>2. disk \in [Blk -> Content] /\ b_data \in [Buf -> Content]
      BY DEF Init, Content
    <2>3. QED
      BY <2>1, <2>2 DEF Init, TypeOK
  <1>2. QED
    BY <1>1 DEF Init, IInv, CachedValid, ClosedHandles, HeldBufferKeepsBlock,
                CountIsHolders, OneBufferPerBlock, DirtyOnlyWhileHeld

LEMMA PowerCycleKeepsIInv ==
    ASSUME IInv, PowerCycle
    PROVE  IInv'
  <1>1. TypeOK'
    <2>1. b_dirty' \in [Buf -> {0, 1}] /\ b_count' \in [Buf -> Nat]
      BY BootWordTypes DEF PowerCycle
    <2>2. b_data' \in [Buf -> Content]
      BY DEF PowerCycle, Content
    <2>3. QED
      BY <2>1, <2>2 DEF PowerCycle, IInv, TypeOK
  <1>2. QED
    BY <1>1 DEF PowerCycle, IInv, CachedValid, ClosedHandles,
                HeldBufferKeepsBlock, CountIsHolders, OneBufferPerBlock,
                DirtyOnlyWhileHeld

\* A stop leaves the memory as it is; only a write it interrupts may change
\* the disk.
LEMMA HaltKeepsIInv ==
    ASSUME IInv, NEW why \in Stops, Halt(why), disk' \in [Blk -> Content]
    PROVE  IInv'
  BY DEF Halt, heads, handles, IInv, TypeOK, CachedValid, ClosedHandles,
         HeldBufferKeepsBlock, CountIsHolders, Holders, OneBufferPerBlock,
         DirtyOnlyWhileHeld

LEMMA BreadHitKeepsIInv ==
    ASSUME IInv, NEW h \in Handle, NEW blk \in Blk, BreadHit(h, blk)
    PROVE  IInv'
  <1> PICK x \in Hits(blk) :
        /\ b_count' = [b_count EXCEPT ![x] = @ + 1]
        /\ hbuf' = [hbuf EXCEPT ![h] = x]
        /\ hblk' = [hblk EXCEPT ![h] = blk]
    BY DEF BreadHit
  <1>1. /\ x \in cached /\ x \in Buf /\ b_uptodate[x] = 1 /\ b_blocknr[x] = blk
        /\ hblk[h] = NoBlk /\ hbuf[h] = NoBuf /\ NoBuf \notin Buf
        /\ UNCHANGED <<disk, request, cached, b_blocknr, b_uptodate, b_dirty,
                       b_data, halted>>
    BY PoolAssumption DEF BreadHit, Hits, IInv, TypeOK, ClosedHandles
  <1>2. TypeOK'
    BY <1>1 DEF IInv, TypeOK
  <1>3. CachedValid' /\ OneBufferPerBlock'
    BY <1>1 DEF IInv, CachedValid, OneBufferPerBlock
  <1>4. ClosedHandles'
    BY <1>1, PoolAssumption DEF IInv, TypeOK, ClosedHandles
  <1>5. HeldBufferKeepsBlock'
    BY <1>1 DEF IInv, TypeOK, HeldBufferKeepsBlock
  <1>6. DirtyOnlyWhileHeld'
    BY <1>1 DEF IInv, TypeOK, DirtyOnlyWhileHeld
  <1>7. CountIsHolders'
    <2> SUFFICES ASSUME NEW y \in cached
                 PROVE  b_count'[y] = Cardinality(Holders(y)')
      BY <1>1 DEF CountIsHolders
    <2>1. CASE y = x
      <3>1. Holders(x)' = Holders(x) \cup {h} /\ h \notin Holders(x)
        BY <1>1 DEF Holders, IInv, TypeOK
      <3>2. Cardinality(Holders(x)') = Cardinality(Holders(x)) + 1
        BY <3>1, HoldersFinite, FS_AddElement
      <3>3. QED
        BY <2>1, <3>2, <1>1 DEF IInv, TypeOK, CountIsHolders
    <2>2. CASE y # x
      <3>1. Holders(y)' = Holders(y)
        BY <1>1, <2>2 DEF Holders, IInv, TypeOK
      <3>2. QED
        BY <2>2, <3>1, <1>1 DEF IInv, TypeOK, CountIsHolders
    <2>3. QED
      BY <2>1, <2>2
  <1>8. QED
    BY <1>2, <1>3, <1>4, <1>5, <1>6, <1>7 DEF IInv

\* The buffer Fill takes has no holder, and no cached buffer has its block.
LEMMA FillKeepsIInv ==
    ASSUME IInv, NEW h \in Handle, NEW blk \in Blk, NEW x \in Buf,
           hblk[h] = NoBlk, Hits(blk) = {}, b_count[x] = 0,
           disk' = disk, Fill(h, blk, x)
    PROVE  IInv'
  <1> USE DEF Fill
  <1>1. /\ \A g \in Handle : hbuf[g] # x
        /\ hbuf[h] = NoBuf /\ NoBuf \notin Buf
    BY UnusedHasNoHolder, PoolAssumption DEF IInv, ClosedHandles
  <1>2. \A y \in cached' \ {x} : y \in cached
    OBVIOUS
  <1>3. \A y \in cached : b_blocknr[y] # blk
    BY DEF Hits, IInv, CachedValid
  <1>4. \A g \in Handle \ {h} : hblk[g] # NoBlk => hbuf[g] \in cached' \ {x}
    <2> SUFFICES ASSUME NEW g \in Handle \ {h}, hblk[g] # NoBlk
                 PROVE  hbuf[g] \in cached'
      BY <1>1
    <2>1. hbuf[g] \in cached /\ b_count[hbuf[g]] # 0
      BY OpenHandle
    <2>2. QED
      BY <2>1 DEF Unused
  <1>5. TypeOK'
    <2>1. request' \in SUBSET SlotNr
      BY DEF AddRequest, EmptySlots, IInv, TypeOK
    <2>2. cached' \in SUBSET Buf
      BY DEF IInv, TypeOK
    <2>3. b_data' \in [Buf -> Content]
      BY DEF IInv, TypeOK
    <2>4. QED
      BY <2>1, <2>2, <2>3 DEF IInv, TypeOK
  <1>6. CachedValid'
    BY <1>2 DEF IInv, TypeOK, CachedValid
  <1>7. ClosedHandles'
    BY PoolAssumption DEF IInv, TypeOK, ClosedHandles
  <1>8. HeldBufferKeepsBlock'
    <2> SUFFICES ASSUME NEW g \in Handle, hblk'[g] # NoBlk
                 PROVE  /\ hbuf'[g] \in cached'
                        /\ b_blocknr'[hbuf'[g]] = hblk'[g]
                        /\ b_uptodate'[hbuf'[g]] = 1
      BY DEF HeldBufferKeepsBlock
    <2>1. CASE g = h
      BY <2>1 DEF IInv, TypeOK
    <2>2. CASE g # h
      <3>1. hblk[g] # NoBlk /\ hbuf'[g] = hbuf[g] /\ hblk'[g] = hblk[g]
        BY <2>2 DEF IInv, TypeOK
      <3>2. hbuf[g] \in cached' \ {x}
        BY <2>2, <3>1, <1>4
      <3>3. QED
        BY <3>1, <3>2 DEF IInv, TypeOK, HeldBufferKeepsBlock
    <2>3. QED
      BY <2>1, <2>2
  <1>9. OneBufferPerBlock'
    BY <1>2, <1>3 DEF IInv, TypeOK, OneBufferPerBlock
  <1>10. DirtyOnlyWhileHeld'
    <2> SUFFICES ASSUME NEW y \in cached', b_dirty[y] = 1
                 PROVE  \E g \in Handle : hbuf'[g] = y
      BY DEF DirtyOnlyWhileHeld
    <2>1. CASE y = x
      BY <2>1 DEF IInv, TypeOK
    <2>2. CASE y # x
      <3>1. PICK g \in Handle : hbuf[g] = y
        BY <1>2, <2>2 DEF IInv, DirtyOnlyWhileHeld
      <3>2. g # h /\ hbuf'[g] = y
        BY <3>1, <1>1 DEF IInv, TypeOK
      <3>3. QED
        BY <3>2
    <2>3. QED
      BY <2>1, <2>2
  <1>11. CountIsHolders'
    <2> SUFFICES ASSUME NEW y \in cached'
                 PROVE  b_count'[y] = Cardinality(Holders(y)')
      BY DEF CountIsHolders
    <2>1. CASE y = x
      <3>1. Holders(x)' = {h}
        BY <1>1 DEF Holders, IInv, TypeOK
      <3>2. QED
        BY <2>1, <3>1, FS_Singleton DEF IInv, TypeOK
    <2>2. CASE y # x
      <3>1. y \in cached /\ y \in Buf
        BY <1>2, <2>2 DEF IInv, TypeOK
      <3>2. Holders(y)' = Holders(y)
        BY <1>1, <2>2, <3>1 DEF Holders, IInv, TypeOK
      <3>3. QED
        BY <2>2, <3>1, <3>2 DEF IInv, TypeOK, CountIsHolders
    <2>3. QED
      BY <2>1, <2>2
  <1>12. QED
    BY <1>5, <1>6, <1>7, <1>8, <1>9, <1>10, <1>11 DEF IInv

LEMMA BreadMissKeepsIInv ==
    ASSUME IInv, NEW h \in Handle, NEW blk \in Blk, NEW x \in Buf,
           BreadMiss(h, blk, x)
    PROVE  IInv'
  <1>1. disk' = disk /\ disk' \in [Blk -> Content]
    BY DEF BreadMiss, IInv, TypeOK
  <1>2. CASE \E why \in Stops : Halt(why)
    BY <1>1, <1>2, HaltKeepsIInv
  <1>3. CASE b_count[x] = 0 /\ Fill(h, blk, x)
    BY <1>1, <1>3, FillKeepsIInv DEF BreadMiss
  <1>4. QED
    BY <1>2, <1>3 DEF BreadMiss, Stops

LEMMA BwriteKeepsIInv ==
    ASSUME IInv, NEW h \in Handle, NEW v \in Val, Bwrite(h, v)
    PROVE  IInv'
  <1>1. hbuf[h] \in Buf /\ hbuf[h] \in cached
    BY OpenHandle DEF Bwrite
  <1>2. TypeOK'
    BY <1>1 DEF Bwrite, handles, IInv, TypeOK, Content
  <1>3. DirtyOnlyWhileHeld'
    BY <1>1 DEF Bwrite, handles, IInv, TypeOK, DirtyOnlyWhileHeld
  <1>4. QED
    BY <1>2, <1>3 DEF Bwrite, handles, IInv, CachedValid, ClosedHandles,
       HeldBufferKeepsBlock, CountIsHolders, Holders, OneBufferPerBlock

\* The release of one handle, with or without the write-back: only the count
\* of its buffer changes, and the buffer is clean if that count becomes 0.
LEMMA DropKeepsIInv ==
    ASSUME IInv, NEW h \in Handle, hblk[h] # NoBlk,
           b_count' = [b_count EXCEPT ![hbuf[h]] = @ - 1],
           hbuf' = [hbuf EXCEPT ![h] = NoBuf],
           hblk' = [hblk EXCEPT ![h] = NoBlk],
           UNCHANGED <<cached, b_blocknr, b_uptodate, b_data, halted>>,
           disk' \in [Blk -> Content], request' \in SUBSET SlotNr,
           b_dirty' \in [Buf -> {0, 1}],
           \A y \in cached \ {hbuf[h]} : b_dirty'[y] = b_dirty[y],
           b_count[hbuf[h]] = 1 => b_dirty'[hbuf[h]] = 0
    PROVE  IInv'
  <1> PICK x \in Buf : x = hbuf[h]
    BY OpenHandle
  <1>1. /\ x \in cached /\ x \in Buf /\ b_count[x] \in Nat \ {0}
        /\ h \in Holders(x)
        /\ b_count[x] # 1 => \E g \in Handle \ {h} : hbuf[g] = x
        /\ NoBuf \notin Buf
    BY OpenHandle, PoolAssumption
  <1>2. TypeOK'
    <2>1. b_count' \in [Buf -> Nat]
      <3>1. b_count[x] - 1 \in Nat
        BY <1>1
      <3>2. QED
        BY <3>1 DEF IInv, TypeOK
    <2>2. hbuf' \in [Handle -> Buf \cup {NoBuf}]
      BY DEF IInv, TypeOK
    <2>3. QED
      BY <2>1, <2>2 DEF IInv, TypeOK
  <1>3. CachedValid' /\ OneBufferPerBlock'
    BY DEF IInv, CachedValid, OneBufferPerBlock
  <1>4. ClosedHandles' /\ HeldBufferKeepsBlock'
    BY DEF IInv, TypeOK, ClosedHandles, HeldBufferKeepsBlock
  <1>5. DirtyOnlyWhileHeld'
    <2> SUFFICES ASSUME NEW y \in cached, b_dirty'[y] = 1
                 PROVE  \E g \in Handle : hbuf'[g] = y
      BY DEF DirtyOnlyWhileHeld
    <2>1. CASE y = x
      <3>1. PICK g \in Handle \ {h} : hbuf[g] = x
        BY <1>1, <2>1
      <3>2. QED
        BY <2>1, <3>1 DEF IInv, TypeOK
    <2>2. CASE y # x
      <3>1. PICK g \in Handle : hbuf[g] = y
        BY <2>2 DEF IInv, DirtyOnlyWhileHeld
      <3>2. QED
        BY <2>2, <3>1 DEF IInv, TypeOK
    <2>3. QED
      BY <2>1, <2>2
  <1>6. CountIsHolders'
    <2> SUFFICES ASSUME NEW y \in cached
                 PROVE  b_count'[y] = Cardinality(Holders(y)')
      BY DEF CountIsHolders
    <2>1. CASE y = x
      <3>1. Holders(x)' = Holders(x) \ {h}
        BY <1>1 DEF Holders, IInv, TypeOK
      <3>2. Cardinality(Holders(x)') = Cardinality(Holders(x)) - 1
        <4>1. IsFiniteSet(Holders(x))
          BY HoldersFinite
        <4>2. Cardinality(Holders(x) \ {h}) = Cardinality(Holders(x)) - 1
          BY <1>1, <4>1, FS_RemoveElement
        <4>3. QED
          BY <3>1, <4>2
      <3>3. QED
        BY <1>1, <2>1, <3>2 DEF IInv, TypeOK, CountIsHolders
    <2>2. CASE y # x
      <3>1. y \in Buf /\ Holders(y)' = Holders(y)
        BY <1>1, <2>2 DEF Holders, IInv, TypeOK
      <3>2. QED
        BY <2>2, <3>1 DEF IInv, TypeOK, CountIsHolders
    <2>3. QED
      BY <2>1, <2>2
  <1>7. QED
    BY <1>2, <1>3, <1>4, <1>5, <1>6 DEF IInv

LEMMA BreleaseKeepsIInv ==
    ASSUME IInv, NEW h \in Handle, Brelease(h)
    PROVE  IInv'
  <1> DEFINE x == hbuf[h]
  <1>1. /\ x \in cached /\ x \in Buf /\ b_blocknr[x] \in Blk
        /\ hblk[h] # NoBlk
    BY OpenHandle DEF Brelease, IInv, CachedValid
  <1>2. disk' \in [Blk -> Content]
    BY <1>1 DEF Brelease, IInv, TypeOK, Content
  <1>3. CASE \E why \in Stops : Halt(why)
    BY <1>2, <1>3, HaltKeepsIInv
  <1>4. ASSUME \/ /\ ~(b_count[x] = 1 /\ b_dirty[x] = 1)
                  /\ UNCHANGED <<request, b_dirty>>
               \/ /\ AddRequest("write")
                  /\ b_dirty' = [b_dirty EXCEPT ![x] = 0],
               b_count' = [b_count EXCEPT ![x] = @ - 1],
               hbuf' = [hbuf EXCEPT ![h] = NoBuf],
               hblk' = [hblk EXCEPT ![h] = NoBlk],
               UNCHANGED <<cached, b_blocknr, b_uptodate, b_data, halted>>
        PROVE  IInv'
    <2>1. request' \in SUBSET SlotNr
      BY <1>4 DEF AddRequest, EmptySlots, IInv, TypeOK
    <2>2. b_dirty' \in [Buf -> {0, 1}]
      BY <1>4 DEF IInv, TypeOK
    <2>3. \A y \in cached \ {x} : b_dirty'[y] = b_dirty[y]
      BY <1>4 DEF IInv, TypeOK
    <2>4. b_count[x] = 1 => b_dirty'[x] = 0
      BY <1>1, <1>4 DEF IInv, TypeOK
    <2>5. QED
      BY <1>1, <1>2, <1>4, <2>1, <2>2, <2>3, <2>4, DropKeepsIInv
  <1>5. QED
    BY <1>3, <1>4 DEF Brelease, Stops

LEMMA NextKeepsIInv == IInv /\ [Next]_vars => IInv'
  <1> SUFFICES ASSUME IInv, [Next]_vars PROVE IInv'
    OBVIOUS
  <1>1. ASSUME NEW h \in Handle, NEW blk \in Blk, BreadHit(h, blk) PROVE IInv'
    BY <1>1, BreadHitKeepsIInv
  <1>2. ASSUME NEW h \in Handle, NEW blk \in Blk, NEW x \in Buf,
               BreadMiss(h, blk, x)
        PROVE  IInv'
    BY <1>2, BreadMissKeepsIInv
  <1>3. ASSUME NEW h \in Handle, NEW v \in Val, Bwrite(h, v) PROVE IInv'
    BY <1>3, BwriteKeepsIInv
  <1>4. ASSUME NEW h \in Handle, Brelease(h) PROVE IInv'
    BY <1>4, BreleaseKeepsIInv
  <1>5. CASE PowerCycle
    BY <1>5, PowerCycleKeepsIInv
  <1>6. CASE UNCHANGED vars
    BY <1>6 DEF vars, heads, handles, IInv, TypeOK, CachedValid, ClosedHandles,
       HeldBufferKeepsBlock, CountIsHolders, Holders, OneBufferPerBlock,
       DirtyOnlyWhileHeld
  <1>7. QED
    BY <1>1, <1>2, <1>3, <1>4, <1>5, <1>6 DEF Next

LEMMA InvariantIInv == Spec => []IInv
  BY InitIInv, NextKeepsIInv, PTL DEF Spec

-----------------------------------------------------------------------------
\* The words of a buffer head keep their ranges; b_count never goes below 0.
THEOREM TypeCorrect == Spec => []TypeOK
  <1>1. IInv => TypeOK
    BY DEF IInv
  <1>2. QED
    BY <1>1, InvariantIInv, PTL

\* b_count of a cached buffer is the number of its holders, with any drive and
\* any garbage in the words buffer_init does not write.
THEOREM CountsAreExact == Spec => []CountIsHolders
  <1>1. IInv => CountIsHolders
    BY DEF IInv
  <1>2. QED
    BY <1>1, InvariantIInv, PTL

\* bread never takes a held buffer away from its block.
THEOREM HeldBuffersStay == Spec => []HeldBufferKeepsBlock
  <1>1. IInv => HeldBufferKeepsBlock
    BY DEF IInv
  <1>2. QED
    BY <1>1, InvariantIInv, PTL

\* bread never caches a block twice.
THEOREM NoDoubleCaching == Spec => []OneBufferPerBlock
  <1>1. IInv => OneBufferPerBlock
    BY DEF IInv
  <1>2. QED
    BY <1>1, InvariantIInv, PTL

\* A modified block always has a holder whose brelease writes it back.
THEOREM NoOrphanedStore == Spec => []DirtyOnlyWhileHeld
  <1>1. IInv => DirtyOnlyWhileHeld
    BY DEF IInv
  <1>2. QED
    BY <1>1, InvariantIInv, PTL

-----------------------------------------------------------------------------
\* With a drive that hd_rdwt never gives up on, clean buffers match the disk.

LEMMA CleanStep ==
    ASSUME IInv, CleanMatchesDisk, "busy" \notin Outcomes, [Next]_vars
    PROVE  CleanMatchesDisk'
  <1>1. \A y \in cached : y \in Buf /\ b_blocknr[y] \in Blk
    BY DEF IInv, TypeOK, CachedValid
  <1>2. ASSUME UNCHANGED <<b_blocknr, b_dirty, b_data, disk, cached>>
        PROVE  CleanMatchesDisk'
    BY <1>2 DEF CleanMatchesDisk
  <1>3. ASSUME NEW h \in Handle, NEW blk \in Blk, BreadHit(h, blk)
        PROVE  CleanMatchesDisk'
    BY <1>2, <1>3 DEF BreadHit
  <1>4. ASSUME NEW h \in Handle, NEW blk \in Blk, NEW x \in Buf,
               BreadMiss(h, blk, x)
        PROVE  CleanMatchesDisk'
    <2>1. CASE \E why \in Stops : Halt(why)
      BY <1>2, <1>4, <2>1 DEF BreadMiss, Halt, heads
    <2>2. CASE Fill(h, blk, x)
      <3>1. disk' = disk /\ b_dirty' = b_dirty /\ b_data'[x] = disk[blk]
        BY <1>4, <2>2 DEF BreadMiss, Fill, IInv, TypeOK
      <3>2. b_blocknr'[x] = blk
        BY <2>2 DEF Fill, IInv, TypeOK
      <3>3. \A y \in cached' \ {x} : /\ y \in cached
                                     /\ b_data'[y] = b_data[y]
                                     /\ b_blocknr'[y] = b_blocknr[y]
        BY <1>1, <2>2 DEF Fill, IInv, TypeOK
      <3>4. QED
        BY <3>1, <3>2, <3>3 DEF CleanMatchesDisk
    <2>3. QED
      BY <1>4, <2>1, <2>2 DEF BreadMiss, Stops
  <1>5. ASSUME NEW h \in Handle, NEW v \in Val, Bwrite(h, v)
        PROVE  CleanMatchesDisk'
    <2>1. hbuf[h] \in Buf
      BY <1>5, OpenHandle DEF Bwrite
    <2>2. QED
      BY <1>1, <1>5, <2>1 DEF Bwrite, IInv, TypeOK, CleanMatchesDisk
  <1>6. ASSUME NEW h \in Handle, Brelease(h)
        PROVE  CleanMatchesDisk'
    <2> PICK x \in cached : x = hbuf[h]
      BY <1>6, OpenHandle DEF Brelease
    <2>1. /\ UNCHANGED <<b_blocknr, b_data, cached>>
          /\ \A b \in Blk \ {b_blocknr[x]} : disk'[b] = disk[b]
          /\ \A y \in cached \ {x} : b_dirty'[y] = b_dirty[y]
          /\ \/ b_dirty'[x] = 1
             \/ b_dirty'[x] = b_dirty[x] /\ disk' = disk
             \/ disk'[b_blocknr[x]] = b_data[x]
      BY <1>1, <1>6 DEF Brelease, Halt, heads, IInv, TypeOK
    <2>2. \A y \in cached \ {x} : b_blocknr[y] \in Blk \ {b_blocknr[x]}
      BY <1>1 DEF IInv, OneBufferPerBlock
    <2>3. QED
      BY <1>1, <2>1, <2>2 DEF CleanMatchesDisk, IInv, TypeOK
  <1>7. CASE PowerCycle
    BY <1>7 DEF PowerCycle, CleanMatchesDisk
  <1>8. CASE UNCHANGED vars
    BY <1>2, <1>8 DEF vars, heads
  <1>9. QED
    BY <1>3, <1>4, <1>5, <1>6, <1>7, <1>8 DEF Next

\* A clean cached buffer holds what is on disk, unless a busy drive was
\* ignored: bread and brelease leave no other way to lose a transfer.
THEOREM CacheCoherent ==
    ASSUME "busy" \notin Outcomes
    PROVE  Spec => []CleanMatchesDisk
  <1>1. Init => CleanMatchesDisk
    BY DEF Init, CleanMatchesDisk
  <1>2. IInv /\ CleanMatchesDisk /\ [Next]_vars => CleanMatchesDisk'
    BY CleanStep
  <1>3. QED
    BY <1>1, <1>2, InvariantIInv, PTL DEF Spec

-----------------------------------------------------------------------------
\* Every step of the cache is a step of the block store or changes nothing
\* that a client can see.

\* What a client sees of a block: its buffer if it has one, else the disk.
LEMMA ViewValue ==
    ASSUME IInv, NEW blk \in Blk
    PROVE  /\ \A x \in cached : b_blocknr[x] = blk => View[blk] = b_data[x]
           /\ (\A x \in cached : b_blocknr[x] # blk) => View[blk] = disk[blk]
  <1>1. ASSUME NEW x \in cached, b_blocknr[x] = blk
        PROVE  View[blk] = b_data[x]
    <2>1. x = CHOOSE y \in cached : b_blocknr[y] = blk
      BY <1>1 DEF IInv, OneBufferPerBlock
    <2>2. QED
      BY <1>1, <2>1 DEF View
  <1>2. QED
    BY <1>1 DEF View

LEMMA ViewValueNext ==
    ASSUME IInv', NEW blk \in Blk
    PROVE  /\ \A x \in cached' : b_blocknr'[x] = blk => View'[blk] = b_data'[x]
           /\ (\A x \in cached' : b_blocknr'[x] # blk) => View'[blk] = disk'[blk]
  <1>1. ASSUME NEW x \in cached', b_blocknr'[x] = blk
        PROVE  View'[blk] = b_data'[x]
    <2>1. x = CHOOSE y \in cached' : b_blocknr'[y] = blk
      BY <1>1 DEF IInv, OneBufferPerBlock
    <2>2. QED
      BY <1>1, <2>1 DEF View
  <1>2. QED
    BY <1>1 DEF View

LEMMA InitRefines == Init => Store!Init
  BY DEF Init, Store!Init, View

LEMMA HitRefines ==
    ASSUME IInv, NEW h \in Handle, NEW blk \in Blk, BreadHit(h, blk)
    PROVE  Store!Open(h, blk)
  BY DEF BreadHit, Store!Open, View

\* A stop that changes nothing on disk.
LEMMA HaltRefines ==
    ASSUME halted = "no", NEW why \in Stops, Halt(why), disk' = disk
    PROVE  Store!Stop
  BY DEF Halt, heads, handles, Stops, Store!Stop, View

\* Taking a buffer for a new block changes no block's content: the buffers
\* that lose their block are unused, hence clean, hence equal to the disk.
LEMMA FillRefines ==
    ASSUME IInv, IInv', CleanMatchesDisk, "busy" \notin Outcomes,
           NEW h \in Handle, NEW blk \in Blk, NEW x \in Buf,
           BreadMiss(h, blk, x), b_count[x] = 0, Fill(h, blk, x)
    PROVE  Store!Open(h, blk)
  <1>1. /\ disk' = disk /\ b_data'[x] = disk[blk] /\ b_blocknr'[x] = blk
        /\ x \in cached' /\ Hits(blk) = {}
    BY DEF BreadMiss, Fill, IInv, TypeOK
  <1>2. \A y \in cached' \ {x} : /\ y \in cached
                                 /\ b_data'[y] = b_data[y]
                                 /\ b_blocknr'[y] = b_blocknr[y]
    BY DEF Fill, IInv, TypeOK
  <1>3. ASSUME NEW y \in cached, y = x \/ y \notin cached'
        PROVE  b_data[y] = disk[b_blocknr[y]]
    <2>1. y \in Buf /\ b_count[y] = 0
      BY <1>3 DEF Fill, Unused, IInv, TypeOK
    <2>2. b_dirty[y] = 0
      BY <2>1, UnusedHasNoHolder DEF IInv, TypeOK, DirtyOnlyWhileHeld
    <2>3. QED
      BY <2>2 DEF CleanMatchesDisk
  <1>4. ASSUME NEW b \in Blk PROVE View'[b] = View[b]
    <2>1. CASE b = blk
      <3>1. \A y \in cached : b_blocknr[y] # blk
        BY <1>1 DEF Hits, IInv, CachedValid
      <3>2. View[b] = disk[b]
        BY <2>1, <3>1, ViewValue
      <3>3. View'[b] = b_data'[x]
        BY <1>1, <2>1, ViewValueNext
      <3>4. QED
        BY <1>1, <2>1, <3>2, <3>3
    <2>2. CASE \E y \in cached : b_blocknr[y] = b /\ b # blk
      <3> PICK y \in cached : b_blocknr[y] = b /\ b # blk
        BY <2>2
      <3>1. View[b] = b_data[y]
        BY ViewValue
      <3>2. CASE y \in cached' \ {x}
        BY <3>1, <3>2, <1>2, ViewValueNext
      <3>3. CASE y = x \/ y \notin cached'
        <4>1. b_data[y] = disk[b]
          BY <1>3, <3>3
        <4>2. \A z \in cached' : b_blocknr'[z] # b
          BY <1>1, <1>2, <3>3 DEF IInv, OneBufferPerBlock
        <4>3. QED
          BY <1>1, <3>1, <4>1, <4>2, ViewValueNext
      <3>4. QED
        BY <3>2, <3>3
    <2>3. CASE b # blk /\ \A y \in cached : b_blocknr[y] # b
      <3>1. \A z \in cached' : b_blocknr'[z] # b
        BY <1>1, <1>2, <2>3
      <3>2. QED
        BY <1>1, <2>3, <3>1, ViewValue, ViewValueNext
    <2>4. QED
      BY <2>1, <2>2, <2>3
  <1>5. View' = View
    BY <1>4 DEF View
  <1>6. QED
    BY <1>1, <1>5 DEF BreadMiss, Fill, Store!Open

LEMMA MissRefines ==
    ASSUME IInv, IInv', CleanMatchesDisk, "busy" \notin Outcomes,
           NEW h \in Handle, NEW blk \in Blk, NEW x \in Buf,
           BreadMiss(h, blk, x)
    PROVE  [Store!Next]_Store!vars
  <1>1. CASE \E why \in Stops : Halt(why)
    BY <1>1, HaltRefines DEF BreadMiss, Store!Next
  <1>2. CASE b_count[x] = 0 /\ Fill(h, blk, x)
    BY <1>2, FillRefines DEF Store!Next
  <1>3. QED
    BY <1>1, <1>2 DEF BreadMiss, Stops

LEMMA BwriteRefines ==
    ASSUME IInv, IInv', NEW h \in Handle, NEW v \in Val, Bwrite(h, v)
    PROVE  Store!Write(h, v)
  <1> PICK x \in cached : x = hbuf[h] /\ b_blocknr[x] = hblk[h]
    BY OpenHandle DEF Bwrite
  <1>1. /\ hblk[h] \in Blk /\ x \in Buf
        /\ b_data'[x] = v
        /\ \A y \in cached \ {x} : b_data'[y] = b_data[y]
        /\ UNCHANGED <<cached, b_blocknr, disk>>
    BY OpenHandle DEF Bwrite, IInv, TypeOK
  <1>2. View'[hblk[h]] = v
    BY <1>1, ViewValueNext
  <1>3. ASSUME NEW b \in Blk \ {hblk[h]} PROVE View'[b] = View[b]
    <2>1. CASE \E y \in cached : b_blocknr[y] = b
      BY <1>1, <2>1, ViewValue, ViewValueNext
    <2>2. CASE \A y \in cached : b_blocknr[y] # b
      BY <1>1, <2>2, ViewValue, ViewValueNext
    <2>3. QED
      BY <2>1, <2>2
  <1>4. View' = [View EXCEPT ![hblk[h]] = v]
    <2>1. View' = [b \in Blk |-> View'[b]]
      BY DEF View
    <2>2. View = [b \in Blk |-> View[b]]
      BY DEF View
    <2>3. QED
      BY <1>1, <1>2, <1>3, <2>1, <2>2
  <1>5. QED
    BY <1>4 DEF Bwrite, handles, Store!Write

\* brelease writes back exactly when it drops the last handle of a modified
\* block, and then the disk gets what the clients saw.
LEMMA BreleaseRefines ==
    ASSUME IInv, IInv', CleanMatchesDisk, "busy" \notin Outcomes,
           NEW h \in Handle, Brelease(h)
    PROVE  [Store!Next]_Store!vars
  <1> PICK x \in cached : x = hbuf[h] /\ b_blocknr[x] = hblk[h]
    BY OpenHandle DEF Brelease
  <1>1. /\ halted = "no" /\ hblk[h] # NoBlk /\ hblk[h] \in Blk /\ x \in Buf
        /\ b_count[x] \in Nat \ {0}
        /\ View[hblk[h]] = b_data[x]
        /\ UNCHANGED <<cached, b_blocknr, b_data>>
    BY OpenHandle, ViewValue DEF Brelease, Halt, heads
  <1>2. (b_count[x] = 1) <=> ~(\E g \in Handle \ {h} : hblk[g] = hblk[h])
    <2>1. ASSUME NEW g \in Handle \ {h}, hblk[g] = hblk[h]
          PROVE  hbuf[g] = x
      <3>1. hbuf[g] \in cached /\ b_blocknr[hbuf[g]] = hblk[h]
        BY <1>1, <2>1, OpenHandle
      <3>2. QED
        BY <3>1 DEF IInv, OneBufferPerBlock
    <2>2. ASSUME NEW g \in Handle \ {h}, hbuf[g] = x
          PROVE  hblk[g] = hblk[h]
      <3>1. hblk[g] # NoBlk
        BY <2>2, PoolAssumption DEF IInv, TypeOK, ClosedHandles
      <3>2. QED
        BY <2>2, <3>1 DEF IInv, HeldBufferKeepsBlock
    <2>3. b_count[x] = 1 => \A g \in Handle \ {h} : hbuf[g] # x
      BY <1>1, OpenHandle DEF Holders
    <2>4. b_count[x] # 1 => \E g \in Handle \ {h} : hbuf[g] = x
      BY <1>1, OpenHandle
    <2>5. QED
      BY <2>1, <2>2, <2>3, <2>4
  <1>3. ASSUME \A b \in Blk \ {hblk[h]} : disk'[b] = disk[b]
        PROVE  View' = View
    <2>1. ASSUME NEW b \in Blk PROVE View'[b] = View[b]
      <3>1. CASE \E y \in cached : b_blocknr[y] = b
        BY <1>1, <3>1, ViewValue, ViewValueNext
      <3>2. CASE \A y \in cached : b_blocknr[y] # b
        BY <1>1, <1>3, <3>2, ViewValue, ViewValueNext
      <3>3. QED
        BY <3>1, <3>2
    <2>2. QED
      BY <2>1 DEF View
  <1>4. CASE \E why \in Stops : Halt(why) /\ disk' = disk
    BY <1>1, <1>4, HaltRefines DEF Store!Next
  <1>5. CASE /\ Halt("drive") /\ b_count[x] = 1
             /\ disk' = [disk EXCEPT ![b_blocknr[x]] = Junk]
    <2>1. View' = View
      BY <1>3, <1>5 DEF IInv, TypeOK
    <2>2. Store!Stop
      BY <1>1, <1>2, <1>5, <2>1 DEF Store!Stop, Halt, handles
    <2>3. QED
      BY <2>2 DEF Store!Next
  <1>6. CASE /\ ~(b_count[x] = 1 /\ b_dirty[x] = 1)
             /\ hblk' = [hblk EXCEPT ![h] = NoBlk]
             /\ disk' = disk /\ halted' = halted
    <2>1. View' = View
      BY <1>3, <1>6
    <2>2. b_count[x] = 1 => disk = [disk EXCEPT ![hblk[h]] = View[hblk[h]]]
      <3>1. ASSUME b_count[x] = 1 PROVE disk[hblk[h]] = View[hblk[h]]
        BY <1>1, <1>6, <3>1 DEF IInv, TypeOK, CleanMatchesDisk
      <3>2. QED
        BY <1>1, <3>1 DEF IInv, TypeOK
    <2>3. Store!Close(h)
      BY <1>1, <1>2, <1>6, <2>1, <2>2 DEF Store!Close
    <2>4. QED
      BY <2>3 DEF Store!Next
  <1>7. CASE /\ b_count[x] = 1
             /\ hblk' = [hblk EXCEPT ![h] = NoBlk]
             /\ disk' = [disk EXCEPT ![b_blocknr[x]] = b_data[x]]
             /\ halted' = halted
    <2>1. View' = View
      BY <1>3, <1>7 DEF IInv, TypeOK
    <2>2. Store!Close(h)
      BY <1>1, <1>2, <1>7, <2>1 DEF Store!Close
    <2>3. QED
      BY <2>2 DEF Store!Next
  <1>8. QED
    BY <1>4, <1>5, <1>6, <1>7 DEF Brelease, Stops

LEMMA PowerCycleRefines ==
    ASSUME IInv, PowerCycle
    PROVE  Store!PowerCycle
  <1>1. cached' = {} /\ disk' = disk /\ disk \in [Blk -> Content]
    BY DEF PowerCycle, IInv, TypeOK
  <1>2. View' = disk
    BY <1>1 DEF View
  <1>3. QED
    BY <1>2 DEF PowerCycle, Store!PowerCycle

LEMMA StepRefines ==
    ASSUME IInv, IInv', CleanMatchesDisk, "busy" \notin Outcomes, [Next]_vars
    PROVE  [Store!Next]_Store!vars
  <1>1. ASSUME NEW h \in Handle, NEW blk \in Blk, BreadHit(h, blk)
        PROVE  [Store!Next]_Store!vars
    BY <1>1, HitRefines DEF Store!Next
  <1>2. ASSUME NEW h \in Handle, NEW blk \in Blk, NEW x \in Buf,
               BreadMiss(h, blk, x)
        PROVE  [Store!Next]_Store!vars
    BY <1>2, MissRefines
  <1>3. ASSUME NEW h \in Handle, NEW v \in Val, Bwrite(h, v)
        PROVE  [Store!Next]_Store!vars
    BY <1>3, BwriteRefines DEF Store!Next
  <1>4. ASSUME NEW h \in Handle, Brelease(h)
        PROVE  [Store!Next]_Store!vars
    BY <1>4, BreleaseRefines
  <1>5. CASE PowerCycle
    BY <1>5, PowerCycleRefines DEF Store!Next
  <1>6. CASE UNCHANGED vars
    BY <1>6 DEF vars, heads, handles, Store!vars, View
  <1>7. QED
    BY <1>1, <1>2, <1>3, <1>4, <1>5, <1>6 DEF Next

\* The cache over a drive that does not stay busy is a block store: clients of
\* a block share one content, and the last brelease makes it durable.
THEOREM CacheIsBlockStore ==
    ASSUME "busy" \notin Outcomes
    PROVE  Spec => ImplementsBlockStore
  <1>1. IInv /\ IInv' /\ CleanMatchesDisk /\ [Next]_vars
            => [Store!Next]_Store!vars
    BY StepRefines
  <1>2. QED
    BY <1>1, InitRefines, InvariantIInv, CacheCoherent, PTL
       DEF Spec, ImplementsBlockStore, Store!Spec

-----------------------------------------------------------------------------
\* The cache with its lists.

LEMMA CStepIsPoolStep == IInv /\ [CNext]_cvars => [Next]_vars
  <1> SUFFICES ASSUME IInv, [CNext]_cvars PROVE [Next]_vars
    OBVIOUS
  <1>1. ASSUME NEW h \in Handle, NEW blk \in Blk, CBreadMiss(h, blk)
        PROVE  Next
    <2>1. PICK x : BreadMiss(h, blk, x)
      BY <1>1 DEF CBreadMiss
    <2>2. x \in Buf
      BY <2>1 DEF BreadMiss, Free, IInv, TypeOK
    <2>3. QED
      BY <2>1, <2>2 DEF Next
  <1>2. CASE UNCHANGED cvars
    BY <1>2 DEF cvars
  <1>3. QED
    BY <1>1, <1>2 DEF CNext, CPowerCycle, Next

LEMMA CInvariant == CSpec => []IInv
  <1>1. CInit => IInv
    BY InitIInv DEF CInit
  <1>2. IInv /\ [CNext]_cvars => IInv'
    BY CStepIsPoolStep, NextKeepsIInv
  <1>3. QED
    BY <1>1, <1>2, PTL DEF CSpec

\* bread, bwrite and brelease with cached_list and free_list implement the
\* pool in which the lists are sets.
THEOREM ListsImplementPool == CSpec => Spec
  <1>1. CInit => Init
    BY DEF CInit
  <1>2. QED
    BY <1>1, CStepIsPoolStep, CInvariant, PTL DEF CSpec, Spec

\* The buffer cache as buffer.c runs it is a block store, unless the driver
\* gives up on a busy drive.
THEOREM ListCacheIsBlockStore ==
    ASSUME "busy" \notin Outcomes
    PROVE  CSpec => ImplementsBlockStore
  BY ListsImplementPool, CacheIsBlockStore, PTL

-----------------------------------------------------------------------------
\* The two lists.

\* A list of buffers that holds the elements of S, each once.
Lists(q, S) == q \in Seq(Buf) /\ IsInjective(q) /\ ToSet(q) = S

LEMMA ListIs ==
    ASSUME NEW q, NEW S, Lists(q, S)
    PROVE  /\ q \in Seq(Buf) /\ Len(q) \in Nat /\ DOMAIN q = 1 .. Len(q)
           /\ \A i \in 1 .. Len(q) : q[i] \in Buf
           /\ \A i, j \in 1 .. Len(q) : q[i] = q[j] => i = j
           /\ S = {q[i] : i \in 1 .. Len(q)} /\ S \subseteq Buf
  BY LenProperties DEF Lists, ToSet, IsInjective

\* A sequence given by its entries.
LEMMA IsList ==
    ASSUME NEW q, NEW n \in Nat, DOMAIN q = 1 .. n, q = [i \in 1 .. n |-> q[i]],
           \A i \in 1 .. n : q[i] \in Buf,
           \A i, j \in 1 .. n : q[i] = q[j] => i = j
    PROVE  Lists(q, {q[i] : i \in 1 .. n})
  <1>1. q \in [1 .. n -> Buf]
    OBVIOUS
  <1>2. q \in Seq(Buf)
    BY <1>1, SeqDef
  <1>3. QED
    BY <1>2 DEF Lists, ToSet, IsInjective

LEMMA ReversedList ==
    ASSUME NEW q, NEW S, Lists(q, S)
    PROVE  Lists(Reverse(q), S)
  <1> DEFINE r == Reverse(q)
             n == Len(q)
  <1>1. /\ n \in Nat /\ \A i \in 1 .. n : q[i] \in Buf
        /\ \A i, j \in 1 .. n : q[i] = q[j] => i = j
        /\ S = {q[i] : i \in 1 .. n}
    BY ListIs
  <1>2. r = [i \in 1 .. n |-> q[(n - i) + 1]]
    BY DEF Reverse
  <1> HIDE DEF r, n
  <1>3. \A i \in 1 .. n : (n - i) + 1 \in 1 .. n /\ (n - ((n - i) + 1)) + 1 = i
    BY <1>1
  <1>4. \A i \in 1 .. n : r[i] = q[(n - i) + 1]
    BY <1>2
  <1>5. \A i \in 1 .. n : r[i] \in Buf
    BY <1>1, <1>3, <1>4
  <1>6. \A i, j \in 1 .. n : r[i] = r[j] => i = j
    <2> TAKE i, j \in 1 .. n
    <2>1. r[i] = r[j] => (n - i) + 1 = (n - j) + 1
      BY <1>1, <1>3, <1>4
    <2>2. QED
      BY <1>3, <2>1
  <1>7. {r[i] : i \in 1 .. n} = S
    BY <1>1, <1>3, <1>4
  <1>8. DOMAIN r = 1 .. n /\ r = [i \in 1 .. n |-> r[i]]
    BY <1>2
  <1>9. Lists(r, {r[i] : i \in 1 .. n})
    BY <1>1, <1>5, <1>6, <1>8, IsList
  <1>10. QED
    BY <1>7, <1>9 DEF r

\* An index that is kept has a place of its own, and there is one for every
\* place.
Placing(f, A) == f = [i \in A |-> Cardinality({j \in A : j <= i})]
Filled(f, A) == \A k \in 1 .. Cardinality(A) : \E i \in A : f[i] = k

LEMMA Places ==
    ASSUME NEW A, IsFiniteSet(A), A \subseteq Nat, NEW f, Placing(f, A)
    PROVE  /\ Cardinality(A) \in Nat
           /\ \A i \in A : f[i] \in 1 .. Cardinality(A)
           /\ \A i, j \in A : f[i] = f[j] => i = j
           /\ Filled(f, A)
  <1> DEFINE D(i) == {j \in A : j <= i}
  <1> PICK m : m = Cardinality(A)
    OBVIOUS
  <1>0. f = [i \in A |-> Cardinality({j \in A : j <= i})]
    BY DEF Placing
  <1>1. m \in Nat /\ IsFiniteSet(1 .. m) /\ Cardinality(1 .. m) = m
    BY FS_CardinalityType, FS_Interval
  <1>2. \A i \in A : /\ D(i) \in SUBSET A /\ i \in D(i) /\ IsFiniteSet(D(i))
                     /\ f[i] = Cardinality(D(i)) /\ f[i] \in Nat /\ f[i] <= m
    BY <1>0, FS_Subset, FS_CardinalityType
  <1>3. \A i \in A : f[i] # 0
    BY <1>2, FS_EmptySet
  <1>4. \A i \in A : f[i] \in 1 .. m
    <2> HIDE DEF D
    <2>1. QED
      BY <1>1, <1>2, <1>3
  <1>5. ASSUME NEW i \in A, NEW j \in A, i < j
        PROVE  f[i] # f[j]
    <2>1. \A k \in A : k <= i => k <= j
      BY <1>5
    <2>2. ~(j <= i)
      BY <1>5
    <2>3. D(i) \subseteq D(j) /\ j \in D(j) /\ j \notin D(i) /\ IsFiniteSet(D(j))
      BY <1>2, <2>1, <2>2
    <2> HIDE DEF D
    <2>4. Cardinality(D(i)) # Cardinality(D(j))
      BY <2>3, FS_Subset
    <2>5. QED
      BY <1>2, <2>4
  <1>6. \A i, j \in A : f[i] = f[j] => i = j
    <2> TAKE i, j \in A
    <2>1. i < j \/ j < i \/ i = j
      OBVIOUS
    <2>2. QED
      BY <1>5, <2>1
  <1>7. f \in Injection(A, 1 .. m)
    <2>1. f \in [A -> 1 .. m]
      BY <1>0, <1>4
    <2>2. QED
      BY <1>6, <2>1 DEF Injection, IsInjective
  <1>8. f \in Surjection(A, 1 .. m)
    <2>1. Cardinality(A) = Cardinality(1 .. m)
      BY <1>1
    <2>2. QED
      BY <1>1, <1>7, <2>1, FS_Injection
  <1>9. QED
    BY <1>1, <1>4, <1>6, <1>8 DEF Surjection, Filled

LEMMA KeptList ==
    ASSUME NEW q, NEW T, Lists(q, T), NEW S
    PROVE  Lists(Kept(q, S), T \cap S)
  <1> DEFINE A == {i \in DOMAIN q : q[i] \in S}
             r == Kept(q, S)
             g(k) == CHOOSE i \in A : Cardinality({j \in A : j <= i}) = k
  <1> PICK m, f : /\ m = Cardinality(A)
                  /\ f = [i \in A |-> Cardinality({j \in A : j <= i})]
    OBVIOUS
  <1>1. /\ Len(q) \in Nat /\ DOMAIN q = 1 .. Len(q)
        /\ \A i \in 1 .. Len(q) : q[i] \in Buf
        /\ \A i, j \in 1 .. Len(q) : q[i] = q[j] => i = j
        /\ T = {q[i] : i \in 1 .. Len(q)}
    BY ListIs
  <1>2. IsFiniteSet(A) /\ A \subseteq Nat
    <2>1. IsFiniteSet(1 .. Len(q)) /\ A \in SUBSET (1 .. Len(q))
      BY <1>1, FS_Interval
    <2>2. QED
      BY <1>1, <2>1, FS_Subset
  <1>3. r = [k \in 1 .. m |-> q[g(k)]]
    BY DEF Kept
  <1>4. A \subseteq 1 .. Len(q) /\ {q[i] : i \in A} = T \cap S
    BY <1>1
  <1>4a. f = [i \in A |-> Cardinality({j \in A : j <= i})]
    OBVIOUS
  <1>5. \A i \in A : f[i] = Cardinality({j \in A : j <= i})
    OBVIOUS
  <1>6. ASSUME NEW k, \E i \in A : f[i] = k
        PROVE  g(k) \in A /\ f[g(k)] = k
    <2>1. \E i \in A : Cardinality({j \in A : j <= i}) = k
      BY <1>5, <1>6
    <2>2. g(k) \in A /\ Cardinality({j \in A : j <= g(k)}) = k
      BY <2>1
    <2> HIDE DEF g
    <2>3. QED
      BY <1>5, <2>2
  <1> HIDE DEF A, g
  <1>7. /\ m \in Nat /\ \A i \in A : f[i] \in 1 .. m
        /\ \A i, j \in A : f[i] = f[j] => i = j
        /\ \A k \in 1 .. m : \E i \in A : f[i] = k
    <2>1. IsFiniteSet(A) /\ A \subseteq Nat /\ Placing(f, A)
      BY <1>2, <1>4a DEF Placing
    <2>2. Cardinality(A) \in Nat /\ \A i \in A : f[i] \in 1 .. Cardinality(A)
      BY ONLY <2>1, Places
    <2>5. \A i, j \in A : f[i] = f[j] => i = j
      BY ONLY <2>1, Places
    <2>6. Filled(f, A)
      BY ONLY <2>1, Places
    <2>3. m = Cardinality(A)
      OBVIOUS
    <2>4. QED
      BY <2>2, <2>3, <2>5, <2>6 DEF Filled
  <1>8. \A k \in 1 .. m : g(k) \in A /\ f[g(k)] = k
    BY <1>6, <1>7
  <1>9. \A k \in 1 .. m : r[k] = q[g(k)]
    BY <1>3
  <1>10. DOMAIN r = 1 .. m /\ r = [k \in 1 .. m |-> r[k]]
    BY <1>3
  <1> HIDE DEF r
  <1>11. \A k \in 1 .. m : r[k] \in Buf
    BY <1>1, <1>4, <1>8, <1>9
  <1>12. \A k, l \in 1 .. m : r[k] = r[l] => k = l
    <2> TAKE k, l \in 1 .. m
    <2>1. g(k) \in 1 .. Len(q) /\ g(l) \in 1 .. Len(q)
      BY <1>4, <1>8
    <2>2. r[k] = r[l] => g(k) = g(l)
      BY <1>1, <1>9, <2>1
    <2>3. QED
      BY <1>8, <2>2
  <1>13. {r[k] : k \in 1 .. m} = T \cap S
    <2>1. \A i \in A : g(f[i]) = i
      BY <1>7, <1>8
    <2>2. \A i \in A : r[f[i]] = q[i]
      BY <1>7, <1>9, <2>1
    <2>3. \A k \in 1 .. m : r[k] \in {q[i] : i \in A}
      BY <1>8, <1>9
    <2>4. \A i \in A : \E k \in 1 .. m : r[k] = q[i]
      BY <1>7, <2>2
    <2>5. {r[k] : k \in 1 .. m} = {q[i] : i \in A}
      BY <2>3, <2>4
    <2>6. QED
      BY <1>4, <2>5
  <1>14. Lists(r, {r[k] : k \in 1 .. m})
    BY <1>7, <1>10, <1>11, <1>12, IsList
  <1>15. QED
    BY <1>13, <1>14 DEF r

LEMMA FrontList ==
    ASSUME NEW q, NEW S, Lists(q, S), NEW p \in Buf, p \notin S
    PROVE  Lists(<<p>> \o q, S \cup {p})
  <1> DEFINE r == <<p>> \o q
             n == 1 + Len(q)
  <1>1. /\ q \in Seq(Buf) /\ Len(q) \in Nat
        /\ \A i \in 1 .. Len(q) : q[i] \in Buf
        /\ \A i, j \in 1 .. Len(q) : q[i] = q[j] => i = j
        /\ S = {q[i] : i \in 1 .. Len(q)}
    BY ListIs
  <1>2. <<p>> \in Seq(Buf) /\ Len(<<p>>) = 1 /\ <<p>>[1] = p
    OBVIOUS
  <1>3. /\ r \in Seq(Buf) /\ Len(r) = n /\ n \in Nat
        /\ \A i \in 1 .. n : r[i] = IF i <= 1 THEN <<p>>[i] ELSE q[i - 1]
    BY <1>1, <1>2, ConcatProperties
  <1>4. DOMAIN r = 1 .. n /\ r = [i \in 1 .. n |-> r[i]]
    <2> HIDE DEF r
    <2>1. r \in [1 .. Len(r) -> Buf]
      BY <1>3, LenProperties
    <2>2. QED
      BY <1>3, <2>1
  <1> HIDE DEF r
  <1>5. r[1] = p /\ \A i \in 2 .. n : i - 1 \in 1 .. Len(q) /\ r[i] = q[i - 1]
    BY <1>1, <1>2, <1>3
  <1>6. \A i \in 1 .. Len(q) : i + 1 \in 2 .. n /\ r[i + 1] = q[i]
    <2> TAKE i \in 1 .. Len(q)
    <2>1. i + 1 \in 2 .. n /\ (i + 1) - 1 = i
      BY <1>1
    <2>2. QED
      BY <1>5, <2>1
  <1>7. \A i \in 1 .. n : i = 1 \/ i \in 2 .. n
    BY <1>3
  <1>8. \A i \in 1 .. n : r[i] \in S \cup {p}
    BY <1>1, <1>5, <1>7
  <1>9. \A i \in 2 .. n : r[i] # p
    BY <1>1, <1>5
  <1>10. \A i, j \in 1 .. n : r[i] = r[j] => i = j
    <2> TAKE i, j \in 1 .. n
    <2>1. CASE i = 1 \/ j = 1
      BY <1>5, <1>7, <1>9, <2>1
    <2>2. CASE i \in 2 .. n /\ j \in 2 .. n
      <3>1. r[i] = r[j] => i - 1 = j - 1
        BY <1>1, <1>5, <2>2
      <3>2. QED
        BY <1>3, <3>1
    <2>3. QED
      BY <1>7, <2>1, <2>2
  <1>11. {r[i] : i \in 1 .. n} = S \cup {p}
    <2>1. 1 \in 1 .. n /\ \A i \in 1 .. Len(q) : i + 1 \in 1 .. n
      BY <1>1, <1>3
    <2>2. ASSUME NEW x \in S \cup {p} PROVE \E i \in 1 .. n : r[i] = x
      <3>1. CASE x = p
        BY <1>5, <2>1, <3>1
      <3>2. CASE x \in S
        <4>1. PICK i \in 1 .. Len(q) : q[i] = x
          BY <1>1, <3>2
        <4>2. QED
          BY <1>6, <2>1, <4>1
      <3>3. QED
        BY <3>1, <3>2
    <2> HIDE DEF n
    <2>3. QED
      BY <1>8, <2>2
  <1>12. S \cup {p} \subseteq Buf
    BY <1>1
  <1>13. Lists(r, {r[i] : i \in 1 .. n})
    <2> HIDE DEF n
    <2>1. \A i \in 1 .. n : r[i] \in Buf
      BY <1>8, <1>12
    <2>2. QED
      BY <1>3, <1>4, <1>10, <2>1, IsList
  <1>14. QED
    BY <1>11, <1>13 DEF r

\* The lists are sequences of buffers, and those of ListsPartition.
ListsInv == Lists(cached_list, cached) /\ Lists(free_list, Buf \ cached)

LEMMA BootList == Lists(BootFreeList, Buf)
  <1> PICK q, n : q = BootFreeList /\ n = NR_BUFFERS
    OBVIOUS
  <1>1. n \in Nat /\ Buf = 1 .. n /\ q = [i \in 1 .. n |-> n + 1 - i]
    BY PoolAssumption DEF BootFreeList, Buf
  <1>2. \A i \in 1 .. n : n + 1 - i \in 1 .. n /\ n + 1 - (n + 1 - i) = i
    BY <1>1
  <1>3. /\ DOMAIN q = 1 .. n /\ q = [i \in 1 .. n |-> q[i]]
        /\ \A i \in 1 .. n : q[i] = n + 1 - i
    BY <1>1
  <1>4. \A i \in 1 .. n : q[i] \in Buf
    BY <1>1, <1>2, <1>3
  <1>5. \A i, j \in 1 .. n : q[i] = q[j] => i = j
    BY <1>1, <1>3
  <1>6. {q[i] : i \in 1 .. n} = Buf
    BY <1>1, <1>2, <1>3
  <1>7. Lists(q, {q[i] : i \in 1 .. n})
    BY <1>1, <1>3, <1>4, <1>5, IsList
  <1>8. QED
    BY <1>6, <1>7

LEMMA NoList == Lists(<<>>, {})
  BY EmptySeq DEF Lists, IsInjective, ToSet

LEMMA EmptyIs ==
    ASSUME NEW q, NEW S, Lists(q, S)
    PROVE  /\ q = <<>> <=> S = {}
           /\ q # <<>> => Head(q) \in S
  <1>1. /\ q \in Seq(Buf) /\ Len(q) \in Nat
        /\ S = {q[i] : i \in 1 .. Len(q)}
    BY ListIs
  <1>2. q = <<>> <=> Len(q) = 0
    BY <1>1, EmptySeq
  <1>3. Len(q) = 0 <=> 1 .. Len(q) = {}
    BY <1>1
  <1>4. q # <<>> => 1 \in 1 .. Len(q) /\ Head(q) = q[1]
    BY <1>1, <1>2
  <1>5. QED
    BY <1>1, <1>2, <1>3, <1>4

LEMMA MissKeepsLists ==
    ASSUME IInv, ListsInv, NEW h \in Handle, NEW blk \in Blk, CBreadMiss(h, blk)
    PROVE  ListsInv'
  <1> PICK cur : cur = IF free_list = <<>> THEN Last(cached_list) ELSE Head(free_list)
    OBVIOUS
  <1>1. BreadMiss(h, blk, cur) /\ halted = "no" /\ (free_list = <<>> <=> Free = {})
    BY EmptyIs DEF CBreadMiss, BreadMiss, ListsInv, Free
  <1>2. CASE halted' # "no"
    <2>1. UNCHANGED <<cached, cached_list, free_list>>
      BY <1>1, <1>2 DEF CBreadMiss, BreadMiss, Halt, Fill, lists
    <2>2. QED
      BY <2>1 DEF ListsInv
  <1>3. CASE halted' = "no"
    <2>1. /\ b_count[cur] = 0 /\ cur \in (IF Free = {} THEN cached ELSE Free)
          /\ cached' = (IF Free = {} THEN cached \ Unused ELSE cached) \cup {cur}
      BY <1>1, <1>3 DEF BreadMiss, Halt, Fill
    <2>2. /\ free_list' = Kept(IF free_list = <<>>
                               THEN Reverse(Kept(cached_list, Unused))
                               ELSE free_list, Buf \ {cur})
          /\ cached_list' = <<cur>> \o (IF free_list = <<>>
                                        THEN Kept(cached_list, Buf \ Unused)
                                        ELSE cached_list)
      BY <1>3 DEF CBreadMiss
    <2>3. cached \subseteq Buf /\ cur \in Buf /\ Free = Buf \ cached
      BY <2>1 DEF IInv, TypeOK, Free
    <2>4. CASE Free = {}
      <3>1. cached = Buf /\ cur \in Unused
        BY <2>1, <2>3, <2>4 DEF Unused
      <3>2. Lists(Kept(cached_list, Unused), cached \cap Unused)
        BY KeptList DEF ListsInv
      <3>3. Lists(Reverse(Kept(cached_list, Unused)), cached \cap Unused)
        BY <3>2, ReversedList
      <3>4. Lists(free_list', (cached \cap Unused) \cap (Buf \ {cur}))
        BY <1>1, <2>2, <2>4, <3>3, KeptList
      <3>5. Lists(Kept(cached_list, Buf \ Unused), cached \cap (Buf \ Unused))
        BY KeptList DEF ListsInv
      <3>6. Lists(cached_list', (cached \cap (Buf \ Unused)) \cup {cur})
        BY <1>1, <2>2, <2>3, <2>4, <3>1, <3>5, FrontList
      <3>7. /\ cached' = (cached \cap (Buf \ Unused)) \cup {cur}
            /\ Buf \ cached' = (cached \cap Unused) \cap (Buf \ {cur})
        BY <2>1, <2>4, <3>1
      <3>8. QED
        BY <3>4, <3>6, <3>7 DEF ListsInv
    <2>5. CASE Free # {}
      <3>1. cur \in Buf \ cached /\ cached' = cached \cup {cur}
        BY <2>1, <2>3, <2>5
      <3>2. Lists(free_list', (Buf \ cached) \cap (Buf \ {cur}))
        BY <1>1, <2>2, <2>5, KeptList DEF ListsInv
      <3>3. Lists(cached_list', cached \cup {cur})
        BY <1>1, <2>2, <2>5, <3>1, FrontList DEF ListsInv
      <3>4. Buf \ cached' = (Buf \ cached) \cap (Buf \ {cur})
        BY <3>1
      <3>5. QED
        BY <3>1, <3>2, <3>3, <3>4 DEF ListsInv
    <2>6. QED
      BY <2>4, <2>5
  <1>4. QED
    BY <1>2, <1>3

\* bread's walks over cached_list while it moves entries, in any order of calls:
\* every buffer is on one of the two lists, once.
THEOREM ListsArePartition == CSpec => []ListsPartition
  <1>1. CInit => ListsInv
    BY BootList, NoList DEF CInit, Init, ListsInv
  <1>2. IInv /\ ListsInv /\ [CNext]_cvars => ListsInv'
    <2> SUFFICES ASSUME IInv, ListsInv, [CNext]_cvars PROVE ListsInv'
      OBVIOUS
    <2>1. ASSUME NEW h \in Handle, NEW blk \in Blk, CBreadMiss(h, blk)
          PROVE  ListsInv'
      BY <2>1, MissKeepsLists
    <2>2. CASE CPowerCycle
      <3>1. cached' = {} /\ cached_list' = <<>> /\ free_list' = BootFreeList
        BY <2>2 DEF CPowerCycle, PowerCycle
      <3>2. Buf \ cached' = Buf
        BY <3>1
      <3>3. QED
        BY <3>1, <3>2, BootList, NoList DEF ListsInv
    <2>3. ASSUME cached' = cached, UNCHANGED lists PROVE ListsInv'
      BY <2>3 DEF ListsInv, lists
    <2>4. ASSUME NEW h \in Handle, NEW blk \in Blk, BreadHit(h, blk), UNCHANGED lists
          PROVE  ListsInv'
      BY <2>3, <2>4 DEF BreadHit
    <2>5. ASSUME NEW h \in Handle, NEW v \in Val, Bwrite(h, v), UNCHANGED lists
          PROVE  ListsInv'
      BY <2>3, <2>5 DEF Bwrite
    <2>6. ASSUME NEW h \in Handle, Brelease(h), UNCHANGED lists
          PROVE  ListsInv'
      BY <2>3, <2>6 DEF Brelease, Halt
    <2>7. CASE UNCHANGED cvars
      BY <2>3, <2>7 DEF cvars, vars
    <2>8. QED
      BY <2>1, <2>2, <2>4, <2>5, <2>6, <2>7 DEF CNext
  <1>3. ListsInv => ListsPartition
    BY DEF ListsInv, ListsPartition, Lists
  <1>4. QED
    BY <1>1, <1>2, <1>3, CInvariant, PTL DEF CSpec
=============================================================================
