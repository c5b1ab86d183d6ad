---------------------------- MODULE BufferCache ----------------------------
(***************************************************************************)
(* The buffer cache with its two lists: BufferPool's operations, in which  *)
(* the order of cached_list (hlist, new entries at the head) and free_list *)
(* (list_add, at the head) decides which buffer bread takes.               *)
(***************************************************************************)
EXTENDS BufferPool, SequencesExt

VARIABLES cached_list, free_list    \* sequences of buffers, head first

lists == <<cached_list, free_list>>
cvars == <<vars, lists>>

\* buffer_init list_adds the buffers in address order.
BootFreeList == [i \in 1 .. NR_BUFFERS |-> NR_BUFFERS + 1 - i]

CInit == Init /\ cached_list = <<>> /\ free_list = BootFreeList

CPowerCycle == PowerCycle /\ cached_list' = <<>> /\ free_list' = BootFreeList

\* The entries of q that are in S, in the order of q.
Kept(q, S) ==
    LET at == {i \in DOMAIN q : q[i] \in S}
        place(i) == Cardinality({j \in at : j <= i})
    IN [k \in 1 .. Cardinality(at) |-> q[CHOOSE i \in at : place(i) = k]]

\* mutant: no list_del, the buffer stays on free_list
CBreadMiss_no_del(h, blk) ==
    /\ free_list # <<>>
    /\ BreadMiss(h, blk, Head(free_list))
    /\ IF halted' = "no"
       THEN cached_list' = <<Head(free_list)>> \o cached_list
       ELSE UNCHANGED cached_list
    /\ UNCHANGED free_list

\* With free_list empty, all unused buffers of cached_list move to it one by
\* one, and cur is left at the last entry the loop visited: the tail of
\* cached_list, in use or not.  Otherwise cur is the head of free_list.
CBreadMiss(h, blk) ==
    LET refill == free_list = <<>>
        unused == Kept(cached_list, Unused)
        inuse  == Kept(cached_list, Buf \ Unused)
        cur    == IF refill THEN Last(cached_list) ELSE Head(free_list)
    IN
    /\ BreadMiss(h, blk, cur)
    /\ IF halted' = "no"
       THEN /\ free_list' = Kept(IF refill THEN Reverse(unused) ELSE free_list,
                               Buf \ {cur})
            /\ cached_list' = <<cur>> \o (IF refill THEN inuse ELSE cached_list)
       ELSE UNCHANGED lists

CNext ==
    \/ \E h \in Handle, blk \in Blk : BreadHit(h, blk) /\ UNCHANGED lists
    \/ \E h \in Handle, blk \in Blk : CBreadMiss(h, blk)
    \/ \E h \in Handle, v \in Val : Bwrite(h, v) /\ UNCHANGED lists
    \/ \E h \in Handle : Brelease(h) /\ UNCHANGED lists
    \/ CPowerCycle

CSpec == CInit /\ [][CNext]_cvars

\* Every buffer is on exactly one of the two lists, once: moving buffers
\* between cached_list and free_list while a loop walks cached_list
\* (buffer.c:27-32, 43-44) neither loses one nor links one twice.
ListsPartition ==
    /\ IsInjective(cached_list) /\ IsInjective(free_list)
    /\ ToSet(cached_list) = cached
    /\ ToSet(free_list) = Buf \ cached
=============================================================================
