# RXD-OS in TLA+

Specifications of the core of RXD-OS, a small 32-bit x86 kernel, with TLC
configurations that model-check them and proofs that TLAPS checks. Paths are
relative to `src/`; line numbers refer to the commit in this tree.

## 1. Inventory

### How the kernel executes

Every gate in the IDT is an interrupt gate (`boot/head.asm:116-120`, `191-195`) and
the `sti` in the interrupt macros is commented out (`kernel/entry.asm:219,245`);
`klock`/`kunlock` save and restore the flags. Interrupts are therefore off from the
entry of a system call, an exception or an interrupt to the `iretd`, and user mode
starts with IF set (`kernel/entry.asm:60`). It also starts with IOPL 3, so user code
can clear IF or mask the interrupt controller (`printk.asm:20` does the former): that
it leaves the clock on is an assumption on user programs (see Fairness). The disk
driver polls, `sleep_on` and `wake_up` are empty (`kernel/proc.c:136-141`). Two
consequences shape all modules:

* a system call, a clock tick or a key press is one atomic step as far as other
  tasks and interrupts are concerned; what interleaves is the order of calls;
* the only places where the CPU changes its task are `schedule()` in the clock
  handler and `schedule()` at the end of `do_fork`.

`panic` and a failed `assert` are `while (1)` (`include/assert.h:7-17`) with
interrupts off. The modules have a variable `halted` for it: nothing follows
except, where a disk is involved, a power cycle.

### Components

| Component | State | Operations | Used by | What makes it correct |
|---|---|---|---|---|
| Page allocator `mm/memory.c` | `mem_map[]`, one unsigned char per page | `mem_init`, `alloc_pages`, `free_pages` | slab, fork, page faults, fs (path and I/O buffers) | live runs are disjoint, nothing leaks, reserved pages stay reserved, first fit |
| Virtual memory `mm/memory.c` | page directory and tables | `share_vma`, `do_no_page`, `do_wp_page` | fork, page fault entry | after a fork neither side sees the other's stores |
| Slab `mm/slab.c` | caches, slabs on full/partial/free lists, bufctl free list per slab | `kmem_cache_alloc/free/create/destroy`, `kmalloc`, `kfree` | fs | an object has one owner; a slab is on the list its fill demands; empty slabs give their page back |
| Buffer cache `kernel/blk_drv/buffer.c` | buffer heads, `cached_list`, `free_list` | `bread`, `bwrite`, `brelease` | fs, bitmap | one buffer per block, a held buffer keeps its block, stores survive the last release |
| Request layer `kernel/blk_drv/ll_rw_blk.c` | `request[]`, `blk_dev[]` | `ll_rw_block`, `add_request` | buffer cache | a finished request frees its slot |
| Disk driver `kernel/blk_drv/hd.c` | `hd[]`, drive registers | `hd_rdwt`, `hd_cmd_out`, `hd_identity` | request layer | a transfer happens or its failure is seen |
| Scheduler `kernel/proc.c` | `task_table[]`, `current_task`, `timespan` | `schedule`, `get_pid`, `add_task` | clock interrupt, fork | no starvation, shares bounded by priority |
| Fork and system calls `kernel/syscall_impl.c`, `kernel/entry.asm` | task pages, saved frames | `do_fork`, entry and exit paths | user programs | each task gets its own return value |
| File system on disk `fs/fs.c`, `fs/bitmap.h` | super block, two bitmaps, inode table, data blocks; inodes in memory | `mkfs`, `fs_init`, create, `write`, the inode part of `open` and `close` | `sys_open` and the others | a reboot finds whole files; every zone and inode has one owner; nothing leaks |
| Open files `fs/fs.c` | `dentry_list`, file objects, `filp[]`, reference counts | `sys_open`, `sys_close`, `sys_read`, `sys_write`, `sys_lseek`, the copy in fork | user programs | a descriptor leads to its file until it is closed; counts are exact; positions stay in the file |
| Tty and keyboard `kernel/io.c`, `kernel/keyboard.c` | two ring queues, modifier flags | keyboard interrupt, `tty_cook`, `cook` | keyboard | every complete key sequence is decoded once, in order |
| Descriptors, masks `kernel/head.c` | GDT/LDT entries, PIC masks | `set_desc_base/limit`, `enable_irq`, `disable_irq` | sched, fork, drivers | base and limit do not disturb each other |
| Exceptions, console, library, boot | none that lasts | | | |

They interact by plain calls. The state they share is `current_task` (scheduler,
fork, fs), the page map (everything that allocates) and the disk.

### Hard behaviours

The hazards, each at its line, are in `PROJECT.json`. In groups: long sequences
of legal calls (allocation and release of runs, buffers held by several clients,
nested opens), full tables (pages, buffers, request slots, tasks, descriptors),
transfers that fail and are not looked at, the kernel stopping between two disk
writes, a task that is switched out and comes back by a different path, and
ring, bitmap and size arithmetic at its edges.

## 2. Modules

| Module | Models |
|---|---|
| `PageAlloc` | `mem_map`, `alloc_pages`, `free_pages` |
| `PageAllocProofs` | theorems about `PageAlloc` |
| `Slab` | the slab allocator over `PageAlloc` |
| `SlabProofs` | theorems about `Slab`: lists, owned pages, refinement of `PageAlloc` |
| `BlockStore` | what the buffer cache promises: a block store with durability at the last close |
| `BufferPool` | buffer cache, request slots and transfer outcomes; the order of the lists is left open |
| `BufferCache` | `BufferPool` with `cached_list` and `free_list` as the code keeps them |
| `BufferCacheProofs` | theorems about both: invariants, refinement of `BlockStore`, lists implement the pool |
| `Sched` | task table, `schedule`, `do_fork` and the return paths of `entry.asm` |
| `SchedProofs` | theorems about `Sched` |
| `Vm` | page table entries of forked tasks, page faults, user stores |
| `VmProofs` | theorems about `Vm` |
| `FileStore` | what the file system promises of the disk: named files with contents, as a reboot finds them |
| `FileSystem` | super block, bitmaps, inodes, zones, directory records and the calls that change them, one block write per step, with power failures |
| `FileSystemProofs` | theorems about `FileSystem`: invariants, refinement of `FileStore` |
| `OpenFiles` | dentries, file objects and descriptors of several tasks, over recycled slab objects |
| `OpenFilesProofs` | theorems about `OpenFiles` |
| `MCFileSystem`, `MCOpenFiles` | the two modules with the symmetry TLC uses |
| `ScanCodes` | what `keyboard.c` and `cook` make of one scan code; shared by the next two |
| `KeyDecoder` | what the keyboard path promises: each byte takes effect once, on arrival |
| `Tty` | the keyboard interrupt, `tty_cook` and `cook` over the two ring queues |
| `TtyProofs` | theorems about `Tty`: ring lemmas, invariants, refinement of `KeyDecoder` |

`X.cfg` is the passing run of module `X`, `X_y.cfg` a run that shows a
disagreement. The configurations instantiate the modules directly, except the
two `MC` modules, which add a symmetry set and nothing else. Names, cell values
and slab objects are interchangeable: no definition chooses among them other than
with `\E`.

### PageAlloc

`mem_map` is a function from page numbers to 0..255 with wrapping arithmetic;
`runs` is a history variable, the runs callers hold. `AllocPages(k)` is
`alloc_pages(k)` including the out-of-memory panic, `FreePages(r)` is
`free_pages` including its range assert (one too strict, modelled as written).
The two asserts of `alloc_pages` (`memory.c:81`, `88`) are left out, because they
cannot fail: the loop that marks the run meets only pages the scan has just counted
as free, and it stays inside the range `mem_init` was given.
The action uses the definition of first fit; the counting loop of the code is
`Accum`, `ScanStop` and `ScanStart`, and the invariant `ScanIsFirstFit` says that
both agree in every reachable map. Callers free a run once, with the order they
allocated it with: a double free is outside the model (see the hazard at
`memory.c:111`).

### Slab

`slab` maps a page to the `struct slab` at its end, with the bufctl array as a
function; `cache` maps an address to a `struct kmem_cache`, its three lists as
sequences. An address is a pair of page and object number, and `Root` is
`cache_cache`: caches are objects of `Root`, so creating one may itself need a
new slab. `held` is the history of which objects callers own. The page calls are
the actions of `PageAlloc`, of which `Slab` holds an instance over the same
variables.

`Alloc` is `kmem_cache_alloc` with `_create_slab` and `_slab_alloc`, `Create` is
`kmem_cache_createx`, `Free` is `kmem_cache_free`, which finds the slab from the
address and does not look at its cache argument. `list_del` takes a slab out of
its list (`include/list.h`; no slab is twice in a list). The type invariant is
proved, and no run checks it. `kmem_cache_destroy` is one step per page, because
each `_destroy_slab` is a call of `free_page`. A destroyed
cache's own struct is never given back to `Root`; the model does the same, so
destroying and creating caches uses up pages. `__check_slab` is called at every
operation; its asserts are consequences of `FreeListExact` and have no action.

### BlockStore, BufferPool, BufferCache

A client of the cache is a *handle*: the `struct buffer_head *` that `bread`
returned, until it is released. Several handles may be open on a block. `bread`
is `BreadHit` or `BreadMiss`, a store into `b_data` followed by `bwrite` is
`Bwrite`, `brelease` is `Brelease`. There is one device, so a block number stands
for `(b_dev, b_blocknr)`.

* Memory at boot is arbitrary: `buffer_init` does not write `b_count` and
  `b_dirty` (`buffer.c:95-102`), so `Init` and `PowerCycle` choose them from
  `BootWords`. (A garbage `b_count` fails the assert of `buffer.c:42` at the
  first use of the buffer; garbage `b_dirty` causes a needless write.)
* `request` is the set of slots whose `dev` is not -1. It only grows, because
  the code never resets a slot.
* A transfer ends as one of `Outcomes`: `"ok"`, `"busy"` (`hd_rdwt` returned -1,
  nobody noticed) or `"dead"` (the driver panicked, a write possibly after one
  of its two sectors, which leaves `Junk` in the block). `"dead"` also stands for
  losing power inside a write. `PowerCycle` is possible in every state.
* `Halt` leaves out what `bread` changed before a panic in the driver: no client
  sees the memory of a stopped kernel again.

`BufferCache` adds the lists as sequences. `CBreadMiss` takes the head of
`free_list`, or, when that is empty, moves all unused buffers and goes on with
the last entry the loop visited (`buffer.c:26-44`), as the code does. `Kept` is
what the loop leaves of `cached_list`: the other entries in their order.

The abstract `BlockStore` has `store` (what clients see), `durable` (what is left
after a power cycle) and open handles. The refinement mapping takes `store` from
the cached buffer, or from the disk if there is none, and `durable` from the disk.

### Sched

A task is its slot in `task_table`. `schedule()` is the operator `Schedule`, used
by `ClockInterrupt` (`entry.asm:261-273`, `proc.c:131`) and `Fork`. `mode` says
where a task that is not running resumes: `"user"` (switched out by the clock),
`"fork"` (behind `do_fork`) or `"born"` (`ret_from_fork`). `eax` is the eax of the
task's frame. `do_fork` is `void`, yet `entry.asm:199` stores eax over the frame
when it returns; at the optimisation level of the Makefile eax holds a task
pointer there, the model value `Ptr`. `forked`, `ran` and `waited` are history
variables. There is no exit in the kernel; `ForkNoMemory` is the panic of
`alloc_page` in `do_fork`, possible at any fork since pages are not counted here.

### Vm

All tasks live in one page directory; `pte[t][o]` is the entry of page `o` of the
64 MB of task `t`. `Low` are pages of the first 4 MB, which fork shares, `Far` pages
above. `head.asm` (147-160) maps all 16 MB of memory for task 0, each page at its
own number, present, writable and open to user mode, and so `Init` does: task 0 has
an entry for every frame of the page allocator, also for those that become page
tables and kernel stacks. The kernel works through these entries. `KernelMap` are
these entries and the copies forks make of them, `User` the other pages of a task.

`Fork` is what `do_fork` does to memory: a page for the task struct and kernel
stack, a page table, and the entries of `share_vma`: all 1024 of the first page table,
whatever its size argument says, those of the kernel's map included, with the
write bit cleared in the child's copy except for entry 144. `NoPageFault` and
`WpFault` are the two page fault handlers, taken in user mode, after which the
access is repeated; `Store` is user code. A frame of low memory belongs to the
kernel image and is copied at a child's first store; a fault on any other frame ends
in the `while (1)` of `do_wp_page`, which a grandchild can reach. `alloc_page` is here
only what it returns, the lowest free frame (`PageAlloc` shows this); no task ever
ends, so no frame is given back.

User code faults and stores on its `User` pages only. Of a forked task this is so:
`set_desc_base` cuts the limit of its segments to 1 MB (`head.c:37`), below the
first frame. Of task 0 it is an assumption: nothing in the page tables keeps its user
code from the frames, and the properties do not hold of a task 0 that writes to
them. So `OneWriter` excepts task 0's entries of the kernel's map, and
`FramesHaveOneUse` and `WritersAreAncestors` speak of pages user code uses. Outside are
the kernel's own stores to user addresses, which the CPU does not check because
`CR0.WP` is clear (`boot/head.asm:165-167`).

### ScanCodes, KeyDecoder, Tty

A `tty_queue` is a record with head and tail as indices; `QUEUE_ENQ` and
`QUEUE_DEQ` wrap them the way the macros do (`include/io.h:23-39`): head when it
is advanced, tail only before its next use, so tail may be one past the buffer.
The handler runs with interrupts off; it is split into the iterations of its
loops, with `pc` telling where it is, so that its termination can be stated.
`KeyboardInterrupt` is the part before `tty_cook`; each `Cook...` action is one
iteration of the loop of `tty_cook` (`kernel/io.c:143-175`), one per branch of
`cook`; `Drain` is one iteration of the loop that empties `secondary`. When the
second byte of a pair is missing (`CookPrefixAlone`), head and count are put
back, which leaves the queue as it was, and `tty_cook` returns.

The two tables of `keyboard.c` have a row for each of the 128 codes; what the
code asks of them is which keys are modifiers and which have a printable
character, and these are constants. In the table a row is printable in both
columns or in neither, so `Printable` does not depend on the shift flag. A
character stands for its index in the table. The branch of `tty_cook` for a full
secondary queue (`io.c:163-168`) is not there: a key gives at most one character
and the loop runs only while there is room for one.

`last` and `line` are what the rest of the kernel sees of the path: the last
character and the sum of the calls of `scroll_screen`. `input` and `half` are
history. The refinement mapping adds to what has taken effect what is still in
the queues (`ComingFlags`, `ComingChar`), so the decoder's step is the interrupt
and all steps of the handler are stutters.

### FileStore and FileSystem

`FileSystem` is the part of `fs.c` below the dentries. The disk is `magic`
(`s_magic`), `imap` and `zmap` (the bits set in the two bitmaps; `zmap` starts at
the first data block), `itable` and `data`; memory is `inode` (`inode_list`),
`dentry` (which inode the dentry of a name holds) and the running call. Sizes and
positions count cells; `BS` cells make a block and a directory record is one cell.

Every change of a block in the code is `bread`, a store, `bwrite` and `brelease` of
the only holder, so by `BlockStore` it is on the disk when the statement is done.
Each action therefore changes at most one block, in the code's order, and `Crash`
can come between any two of them:

| Code | Actions |
|---|---|
| `fs_init`, `mkfs` (super block first) | `Boot`, `MkfsImap`, `MkfsZmap`, `MkfsRoot`, `Mount` |
| `create_inode`, `create_dentry`, `_add_dir_entry` | `Create`, `CreateInode`, the steps of a write to the directory, `LinkDirectory`, `Link` |
| `sys_write`, `_write`, `_reserve_zone`, `_get_blk` | `Write`, then `Reserve`/`ClearZone` per zone, `StoreChunk` per block, `FinishWrite` |
| `get_inode`, `put_inode` | `Open`, `Close`, then for an inode without links `FreeZone` per zone and `FreeInode` |

The chunk sizes of `_write` are as the code computes them, with the remainder
modulo the block size (`fs.c:306`). Callers leave no hole, which `_reserve_zone`
says it assumes; a name has at most one open at a time (several are in
`OpenFiles`).

Only `create_inode` initialises `i_dentry` (`fs.c:81`); `get_inode` and `read_inode`
leave it as the object was. So the model follows the inode objects: `listed` says which
inodes in memory have an `i_dentry` that is a list, and `freed` is what the slab has
got back, the last one first, which is the next it hands out. A new object comes from
a zeroed page (`slab.c:81`) and has a null `i_dentry`. Linking the dentry then writes
through the null pointer (`fs.c:433`); page 0 is mapped and holds the page directory,
so the entry for 4 to 8 MB is lost, `list_del` leaves `i_dentry.next` null, and the
call goes on. `nullLink` records it and nothing depends on it. `PutInode` is
`put_inode` with its asserts: for an inode without links, `list_empty` (`fs.c:123`)
fails if `i_dentry` was null. A panic of `_bitmap_alloc`
("map is full") stops the kernel in the middle of a call.

`FileStore` is the abstract specification. Its state is what a reboot would find, a
function from names to contents, and the write in progress. The refinement mapping
`Files` reads it off the disk variables alone: the records of the directory's inode
and the cells of the inodes they name. Taking bits, clearing zones and writing inodes
are stutters, a chunk is `Overwrite` as far as the file reached before, and the write
of the inode is `End`. `torn` and `leaky` are history: whether a power failure hit
`mkfs` or the steps in which a name is on the disk and its link is not, or any call.
The refinement and the ownership properties hold as long as `torn` is false. The run
`files_crash` shows what may happen after a torn create, a name whose inode has no
link: the next close of the file takes it for an unlinked one. If the inode was loaded
into a new object, that close stops at the assert; if another file has left the
object, it deletes the inode under its name, and the next open of the name panics. A
torn `mkfs` leaves the magic number without a file system, and every later boot stops.

### OpenFiles

Above the inodes: `cached` is `dentry_list`, `file` and `freeFiles` the file
objects and the ones the slab may hand out, `filp` the slots of each task. A call
is one step, since interrupts are off and nothing here reaches the disk except
through the calls of `FileSystem`. The slab may hand out any object that is not
allocated, and freed objects keep their contents, so a pointer the code forgot
leads to whatever is there now. An inode is identified with its name.

`OpenHit` and `OpenMiss` are the two ways `sys_open` succeeds, `OpenFails` the way
it fails (with the file object freed and the pointer left in the slot, `fs.c:685`),
`OpenPath` what a path of two parts does: `_opendir` never finds the first part and
drops the root dentry's references, after which `OpenStops`, an assert, is the
only thing an open can do. An inode that `OpenMiss` reads may have a null `i_dentry`
(`nullLink`); which ones do is in `FileSystem`. `Close` is `sys_close` with `_close`,
`put_dentry` and `put_inode`: the slot is not cleared and `f_refcnt` not read. `Fork`
copies the slots. `Read` and `Write` move the position by at most one page, so their
loops run once. `Lseek` sets any position, from the start, from the current position
or from the end, as `sys_lseek` (`fs.c:797-816`) checks nothing. Behind the end of the
file `Read` stops in "endless read", the loop of `sys_read` whose count has wrapped below
zero; `Write` leaves a hole or panics; before the start both fail an assert.

Where a call follows a null pointer, the code reads or changes entries of the page
directory in page 0 and goes on. The model stops there, in "undefined", and says
nothing of what follows; the passing run never gets there. `held` is history: which
file a task opened on a descriptor and has not closed. Calls use these descriptors
only; what `read` does with a descriptor that was closed is the caller's mistake,
though the code does not catch it.

`Usage` says what callers do. In the passing run nobody closes a file that another
descriptor leads to, and nobody seeks before the start or behind the end of a file;
the run `open_files_shared` allows the first (`"shared"`). The second (`"beyond"`) is
in no run: when a configuration has it, TLC violates `ReadsEnd` in three steps: an
open, a seek behind the end and a read.

## 3. Runs

| Run | Result | Shows |
|---|---|---|
| `page_alloc` (`PageAlloc.cfg`) | holds, 1143 states | disjoint runs, exact map, first fit, calls confined to their run |
| `slab` (`Slab.cfg`) | holds, 423 018 states | free lists and slab lists exact, pages neither lost nor freed in use |
| `buffer_cache` (`BufferCache.cfg`) | holds, 524 244 states | the cache implements the block store; counts, single caching, coherence, the list partition |
| `sched` (`Sched.cfg`) | holds, 2316 states | shares, bounded waiting, progress, fork's two return values |
| `sched_retval` (`Sched_retval.cfg`) | violated | the parent does not get the child's pid (`syscall_impl.c:54`) |
| `vm` (`Vm.cfg`) | holds, 14 960 states | apart from the kernel's map of all memory, one writer and one use per frame; faults invisible, ancestors isolated |
| `vm_parent` (`Vm_parent.cfg`) | violated | the parent's entries stay writable after a fork (`memory.c:145`) |
| `tty` (`Tty.cfg`) | holds, 207 355 states | rings consistent, nothing left over, no panic, the handler returns, decoder implemented |
| `files` (`FileSystem.cfg`) | holds, 631 851 states | the disk implements the file store at every block write and after a crash; owners of zones and inodes, durability, no leak |
| `files_crash` (`FileSystem_crash.cfg`) | violated | a power failure within a create leaves a name without a link (`fs.c:357`); opened after the reboot, its inode has a null `i_dentry`, and the close stops at the assert of `put_inode` (`fs.c:101`, `123`) |
| `open_files` (`OpenFiles.cfg`) | holds, 408 077 states | descriptors lead to their files, counts exact, positions in the file |
| `open_files_shared` (`OpenFiles_shared.cfg`) | violated | a close by one of two users takes the inode away from the other (`fs.c:557`) |

### Bounds

* `page_alloc`: eight pages, one of them reserved, orders 0 to 2. Enough for
  fragmentation (free pages that are no run), for three runs of different orders
  next to each other, for exhaustion and for the last page.
* `slab`: three pages, caches with one object per slab (empty to full at once) and
  with three (all three lists, free lists in every order), two caches in a slab of
  `Root` and a third that needs another; out of memory is reached.
* `buffer_cache`: two buffers, three blocks, three handles: hits by a second holder,
  eviction of one of two buffers, all buffers in use, a block that was evicted
  and read again. Five request slots give five reads or three writes before the
  panic of `add_request`; a power cycle empties them, so sequences longer than
  that are reached too. `"busy"` is left out of `Outcomes`: a transfer that the
  driver gives up is not reported to anyone, and the coherence properties cannot
  hold then.
* `sched`: four slots, priority 3 (the code: 64 and 10). Every order of forks and
  ticks until the table is full, and then the cycle of resets.
* `vm`, `vm_parent`: three tasks (a child and a grandchild, or two children). Of low
  memory an ordinary page and the screen's; of the first page table two more, which
  are frames of the allocator and so in task 0's map and in the copies forks make
  (256, the first frame handed out, and 259); above 4 MB one page that is a frame and
  one behind all of memory. Eight frames, fewer than everything together would need.
  Forked tasks may use the pages above 4 MB, as they could with the limit that fork
  means to set; `head.c:37` cuts it to 1 MB, so this is more than the code can do.
* `files`, `files_crash`: two names, three inode numbers (the root and
  both files), three data blocks of two cells and two zones per file: the directory
  and the files compete for blocks, a full bitmap stops a write and a create in the
  middle, a write of one to three cells starts and ends inside a block and crosses
  into the next. One power failure, at any step, and all that a reboot and further
  calls make of what it left. Not reached: writes over three or more blocks (there the
  chunk size is wrong, `fs.c:306`) and the eighth zone of an inode ("indirect zone").
* `open_files`, `open_files_shared`: two tasks with two slots, two
  names, three file objects and three dentries, fewer than four descriptors could use
  at once, so objects are recycled; sizes up to two.
* `tty`: three cells (the code: 16), so that both rings wrap at every position
  and a pair straddles the end; five bytes: the prefix, a modifier pressed and
  released, a key that scrolls, a release. `NR_LINES` bounds the screen position.

### Fairness

`sched` assumes `WF(ClockInterrupt)` under the name `UserLeavesClockOn`. This is an
assumption on user programs, not a promise of the kernel. The kernel does its
part: it starts user mode with IF set, returns with the flags the task had, and never
masks the timer. But the flags `0x3200` it starts tasks with (`entry.asm:60`) contain
IOPL 3, so a task may `cli`, or write to the ports of the interrupt controller, and
keep the CPU for ever. `printk` does the first and undoes it (`printk.asm:20`).
`EveryTaskRuns` holds of systems whose programs do no more than that. `BoundedWait`
counts ticks and needs no fairness. Forks are not fair. `tty`
assumes `WF(Handler)`: an interrupt handler that has begun is code that runs with
interrupts off until it returns. Keys are not fair. The other modules
promise nothing that must eventually happen: a call is one step, or a sequence
of steps that a power failure may end.

## 4. Proofs

All theorems hold for every value of the constants that satisfies the module's
named assumption. Some have a hypothesis on a constant as well, which the run that
checks the same property satisfies: `"busy" \notin Outcomes` for coherence and the
refinement of `BlockStore`, `"shared" \notin Usage` for `OpenFiles` and also
`"beyond" \notin Usage` for its positions, `SmallWrites` for `FileSystem`.

* `PageAllocProofs`: `TypeCorrect`, `AllocatedRunsDisjoint`, `MapIsExact`.
  `MapCountsRuns` and disjointness are inductive only together with
  `RunsManaged`: live runs lie inside the managed range. `ScanFindsFirstFit` says
  that the counting loop of `alloc_pages` stops at the first fit or finds none.
  The counter at a page is the distance to the last page in use before it; a least
  page where this failed would contradict the loop's own step (the least number
  principle is `WFMin` with `NatLessThanWellFounded`).
* `SlabProofs`: `TypeCorrect`, `FreeListsExact`, `SlabsOnRightList`, `PagesAreOwned`
  and the refinement `IsAPageAllocClient`, for any number of pages, objects and
  caches. A free list enters the invariant as the way along its links (`Walks`), a
  sequence that is given, so that nothing recursive has to be computed; `LinkIs`
  shows that the walk of the property is that sequence. The properties of one
  slab (`SlabsRight`), of the lists of a cache (`ListsRight`) and of the pages
  (`Owned`) are inductive together with `HeldExist` (an object somebody owns lies
  in a slab), `Chained` (a cache on `cache_chain` is an object of a slab of `Root`
  that is held) and `Destroying` (no object of the cache being destroyed is in
  use): without `Chained` a new cache could be placed on one in use. A step of the slab
  allocator is `AllocPages(0)`, `FreePages` of a page it owns, or a stutter.
* `BufferCacheProofs`: the counts (`CountsAreExact`), held buffers
  (`HeldBuffersStay`), single caching (`NoDoubleCaching`) and dirty buffers
  (`NoOrphanedStore`) hold whatever the drive does. Coherence (`CacheCoherent`)
  and the refinement (`CacheIsBlockStore`) have the hypothesis
  `"busy" \notin Outcomes`. The invariants are inductive together with
  `CachedValid` (a cached buffer is up to date and belongs to a block) and
  `ClosedHandles` (a closed handle points to no buffer); without them a hit
  could return an empty buffer, and a closed handle could count as a holder, in
  the induction step. The refinement proof maps each action to the abstract action
  of the same name or to a stutter (a miss, an eviction). `ListsImplementPool`
  shows `CSpec => Spec`, so that all theorems of the pool hold of the cache with
  its lists (`ListCacheIsBlockStore`), and `ListsArePartition` that every buffer is
  on one of the two lists, once. Its core is `KeptList`: the loop over
  `cached_list` keeps each entry once, because the place of an entry in the result
  is its rank among the entries kept.
* `SchedProofs`: `TypeCorrect`, `ShareIsBounded`, `ForkTellsChild`. One lemma,
  `ScheduleStep`, describes a call of `schedule()` over any table; the clock and
  fork instantiate it. The invariant adds that unused slots have no history and
  which frame a switched-out task has. `WaitIsBounded` is the bound on waiting: a
  task without time left waits for the ticks the others still have (`Pending`), one
  with time left for its `Distance` behind the current task in the table.
  `Pending` counts an empty slot with all the ticks a child could bring, so that a
  fork never adds to it.
* `VmProofs`: `FramesHaveOneWriter`, `KernelMapIsPrivate`, `ChildrenCannotDisturb`,
  `FramesAreSeparate` and the action property `FaultsChangeNothing`, for any number
  of tasks, pages and frames, with task 0's map of all memory and its copies in the
  tables. They speak of the pages user code uses, and of the kernel's map
  `KernelMapIsPrivate` says that its entries lead to their own frames and that only
  task 0's may be written. The invariants are inductive together with `TypeOK`, `Home`
  (a page of low memory is mapped at its own place or was copied to a frame),
  `FreeSlotsEmpty`, `ScreenMapped`, `LowHasOneWriter`, `KernelMapStays` and `AllFromInit`
  (task 0 is an ancestor of all): without `LowHasOneWriter`, a child whose entry
  lost its write bit could be the second writer of a kernel page, and without
  the last, the writer through the kernel's map could be a stranger. What
  `alloc_page` returns enters as two lemmas on the lowest one and two free frames.
* `OpenFilesProofs`: `DescriptorsLeadToTheirFiles`, `PositionsStayInFiles`,
  `ReadsReturn` and `NothingIsLost`, under `"shared" \notin Usage`, for any number of
  tasks, slots, names and slab objects. `PositionsStayInFiles` and `ReadsReturn` also
  suppose `"beyond" \notin Usage`: the code does not keep positions in the file,
  callers do; what is proved is that no call of another task or on another file moves
  one out, and so no read loops for ever. The properties speak of what a descriptor
  leads to; to be inductive they need the way back: every file object in use has a
  descriptor (`FilesReached`), every cached dentry a file object (`DentriesReached`),
  no two cached dentries have the same name (`DentriesDiffer`), and a dentry is linked
  to its inode with a count of one more than its file objects (`DentriesLinked`). From
  these follows what the code does not check: a close that is the only user finds the
  count 2 and unlinks the dentry. `LeastExists` shows that the slot search of
  `sys_open` finds a slot whenever there is one.
* `TtyProofs`: `EnqAppends` and `DeqTakesFront` show that the ring macros
  implement a FIFO queue for every size of at least two. On them rest
  `TypeCorrect`, `RingsStayConsistent`, `NoPanic`, `NothingLeftOver` and
  `TtyIsDecoder` (the refinement). The strengthening `Shape` lists what the
  queues can hold at each place of the handler: never more than two bytes and
  one character, and two bytes only if the first is the prefix.
* `FileSystemProofs`: `TypeCorrect`, `ClosesGoOn`, `NamesKeepTheirInodes`,
  `CallsAreDurable`, `ZonesKeepTheirOwner`, `BitmapsAreExact` and the refinement
  `DiskIsAFileStore`, for any number of names, inodes, zones and power failures and
  any block size. The hypothesis `SmallWrites` (`MaxCount <= BS + 1`) keeps a write to
  two blocks; the size `_write` computes for a third chunk is wrong (`fs.c:306`). The
  inductive invariant holds until a power failure tears a create (`~torn`): after that
  a close can give away an inode that has a name, and two records then name one inode.
  `ClosesGoOn` is the other side of `files_crash`: until a create is torn no close
  fails an assert of `put_inode`, although inodes with a null `i_dentry` are in memory
  (`Objects`). So `TypeCorrect` and `CallsAreDurable` say less here than their runs,
  which check the two invariants after a torn create as well; in the others the
  condition is part of the property. `IInv` has to speak of a call that is half done:
  `ZonesApart` counts the zones of the inode in memory as well as those on the disk,
  since zones are reserved before the inode is written; `Directory` and `Creating` say
  that the records have different names and inodes and where the one being made is;
  `Transferring` how far the write is and that what it has stored is in place;
  `Dentries` and `Memory` that what is cached is on the disk; `Exact` is what the
  bitmaps mark. One consequence: without a torn create no inode loses its last link,
  and the steps `FreeZone` and `FreeInode` are never taken. `DiskIsAFileStore` maps
  each step to the abstract action it is at that moment: `Write` to `Begin`, a chunk
  of a file to `Overwrite`, the write of a file's inode to `End`, that of the
  directory's to `Create`, a panic or a power failure in a write to `Abandon`, all
  else (the chunk that stores the record included) to a stutter.

Only model-checked are the liveness properties `EveryTaskRuns` and `HandlerReturns`
(TLAPS proves neither fairness arguments with `ENABLED` nor well-founded progress
of this kind), and the four properties whose runs show a violation (of these,
`DeletedInodeHasNoDentry` is proved for disks without a torn create). Every other
invariant, action property and refinement of the runs is the subject of a theorem.

## 5. Not modelled, and the plan

In the order in which it is to be added:

1. The register protocol of `hd.c` (`hd_cmd_out`, the polls, the sector loops),
   under `BufferPool`'s transfer outcomes.
2. Pure operators: `set_desc_base` and `set_desc_limit` on the fields of a segment
   descriptor, the LBA to CHS conversion, the rounding of `__align`.
3. What still holds of `FileSystem` after a torn create: a weaker invariant that
   allows two records to share an inode and still gives `ReturnedCallsAreDurable`.
4. Writes of three and more blocks, with what the chunk size of `fs.c:306` does to
   them.

Left out because they are output, tables or straight-line set-up: `printf.c`,
`string.c`, the console, the exception handlers and the boot code.
