---------------------------- MODULE BlockStore -----------------------------
(***************************************************************************)
(* What the buffer cache promises to its clients (fs.c, the super block    *)
(* and inode code): a map from blocks to contents.  A client opens a       *)
(* block (bread), reads and stores through the handle (b_data, bwrite) and *)
(* closes it (brelease).  All handles of a block see the latest store, and *)
(* a block survives a power cycle once its last handle is closed.          *)
(***************************************************************************)
CONSTANTS Blk, Val, Handle,
          NoBlk,    \* a handle that is not open
          Junk      \* content that no client stored

VARIABLES
    store,      \* [Blk -> content]: what a client sees
    durable,    \* [Blk -> content]: what is left after a power cycle
    open,       \* [Handle -> block it is open on, or NoBlk]
    up          \* FALSE once the kernel has stopped

vars == <<store, durable, open, up>>

Init ==
    /\ store \in [Blk -> Val] /\ durable = store
    /\ open = [h \in Handle |-> NoBlk]
    /\ up = TRUE

Open(h, blk) ==
    /\ up /\ open[h] = NoBlk
    /\ open' = [open EXCEPT ![h] = blk]
    /\ UNCHANGED <<store, durable, up>>

Write(h, v) ==
    /\ up /\ open[h] # NoBlk
    /\ store' = [store EXCEPT ![open[h]] = v]
    /\ UNCHANGED <<durable, open, up>>

\* The last close of a block makes it durable; an earlier one does nothing.
Close(h) ==
    /\ up /\ open[h] # NoBlk
    /\ open' = [open EXCEPT ![h] = NoBlk]
    /\ durable' = IF \E g \in Handle \ {h} : open[g] = open[h]
                  THEN durable
                  ELSE [durable EXCEPT ![open[h]] = store[open[h]]]
    /\ UNCHANGED <<store, up>>

\* The kernel stops.  If it stops while a last close writes the block back,
\* the block on disk may be half old and half new.
Stop ==
    /\ up /\ up' = FALSE
    /\ \/ durable' = durable
       \/ \E h \in Handle :
            /\ open[h] # NoBlk
            /\ \A g \in Handle \ {h} : open[g] # open[h]
            /\ durable' = [durable EXCEPT ![open[h]] = Junk]
    /\ UNCHANGED <<store, open>>

PowerCycle ==
    /\ up' = TRUE
    /\ store' = durable
    /\ open' = [h \in Handle |-> NoBlk]
    /\ UNCHANGED durable

Next ==
    \/ \E h \in Handle, blk \in Blk : Open(h, blk)
    \/ \E h \in Handle, v \in Val : Write(h, v)
    \/ \E h \in Handle : Close(h)
    \/ Stop
    \/ PowerCycle

Spec == Init /\ [][Next]_vars
=============================================================================
