------------------------------- MODULE Sched -------------------------------
(***************************************************************************)
(* The task table, the round-robin scheduler and fork (kernel/proc.c,      *)
(* do_fork in kernel/syscall_impl.c, the syscall and clock entries of      *)
(* kernel/entry.asm).  A task is its slot in task_table, which is its pid. *)
(*                                                                         *)
(* Every gate enters the kernel with interrupts off, so a task is only     *)
(* preempted in user mode, by the clock; a clock interrupt and a fork are  *)
(* one step each, from the entry to the iretd of whichever task runs next. *)
(* A task that was switched away continues where it left the kernel: in    *)
(* the clock handler (its registers come back from its own frame), behind  *)
(* do_fork, or, for a new child, at ret_from_fork.  There is no exit.      *)
(***************************************************************************)
EXTENDS Integers

CONSTANTS
    NR_TASK,    \* slots of task_table
    Quantum,    \* priority and first timespan of INIT_TASK; children copy it
    Ptr,        \* a task pointer left in eax: no pid and not 0
    NoFork      \* a task that has not called fork

Task == 0 .. NR_TASK - 1

\* Every other slot uses its time, plus one round of the table.
MaxWait == (NR_TASK - 1) * (Quantum + 1)

ASSUME SchedAssumption ==
    /\ NR_TASK \in Nat \ {0} /\ Quantum \in Nat \ {0}
    /\ Ptr \notin Int /\ NoFork \notin Int

VARIABLES
    alive,      \* slots of task_table that are not NULL
    current,    \* current_task
    timespan,
    eax,        \* what the task's frame gives its eax when it is in user mode
    mode,       \* "user", or where a switched-out task resumes in the kernel
    halted,     \* "no", or the panic the kernel spins in
    \* history:
    forked,     \* per task: what its last fork should return
    ran,        \* times chosen since the last refill, or since its birth
    waited      \* calls of schedule since it was last chosen, or its birth,
                \* counted up to MaxWait + 1

regs == <<eax, mode, forked>>
vars == <<alive, current, timespan, regs, halted, ran, waited>>

TypeOK ==
    /\ alive \in SUBSET Task
    /\ current \in alive
    /\ timespan \in [Task -> 0 .. Quantum]
    /\ eax \in [Task -> Task \cup {Ptr}]
    /\ mode \in [Task -> {"user", "fork", "born"}]
    /\ mode[current] = "user"
    /\ halted \in {"no", "out of memory"}
    /\ forked \in [Task -> Task \cup {-1, NoFork}]
    /\ ran \in [Task -> Nat]
    /\ waited \in [Task -> Nat]

\* sched_init and move_to_user_mode: task 0 runs init() with eax = 0.
Init ==
    /\ alive = {0}
    /\ current = 0
    /\ timespan = [i \in Task |-> IF i = 0 THEN Quantum ELSE 0]
    /\ eax = [i \in Task |-> 0]
    /\ mode = [i \in Task |-> "user"]
    /\ halted = "no"
    /\ forked = [i \in Task |-> NoFork]
    /\ ran = [i \in Task |-> 0]
    /\ waited = [i \in Task |-> 0]

-----------------------------------------------------------------------------
\* Slots the search of schedule passes before it reaches j: it starts behind
\* current and comes to current last.
Distance(j) == (j - current - 1) % NR_TASK

\* The first task in search order with timespan left.
IsNext(n, tab, ts) ==
    /\ n \in tab /\ ts[n] > 0
    /\ \A m \in tab : ts[m] > 0 => Distance(n) <= Distance(m)

\* mutant: the reset loop starts behind the first slot
Refill_skips_first(tab, ts) ==
    [i \in Task |-> IF i \in tab \ {0} THEN Quantum ELSE ts[i]]

\* No task has time left: all get their priority again.
Refill(tab, ts) == [i \in Task |-> IF i \in tab THEN Quantum ELSE ts[i]]

\* mutants: timespan is only charged when the task is switched to; it is
\* charged twice.
Charge_on_switch(n, ts) == IF n = current THEN ts ELSE [ts EXCEPT ![n] = @ - 1]
Charge_twice(n, ts) == [ts EXCEPT ![n] = @ - 2]

Charge(n, ts) == [ts EXCEPT ![n] = @ - 1]

\* mutant: ret_from_fork falls into the code that stores eax, like a syscall
Resume_stores_eax(n, m, e) ==
    /\ eax' = IF m[n] # "user" THEN [e EXCEPT ![n] = Ptr] ELSE e
    /\ mode' = [m EXCEPT ![n] = "user"]

\* Task n goes on to user mode.  Behind a system call, entry.asm stores eax
\* over the frame's eax; do_fork is void, so this is the task pointer that
\* schedule left there.  ret_from_fork and the clock handler restore the frame.
Resume(n, m, e) ==
    /\ eax' = IF m[n] = "fork" THEN [e EXCEPT ![n] = Ptr] ELSE e
    /\ mode' = [m EXCEPT ![n] = "user"]

\* schedule() over the tasks tab with the time ts, the contexts m and the
\* frames e.  The recursive call after a reset finds time left.
Schedule(tab, ts, m, e) ==
    LET idle == \A i \in tab : ts[i] = 0
        time == IF idle THEN Refill(tab, ts) ELSE ts
    IN \E n \in Task :
        /\ IsNext(n, tab, time)
        /\ current' = n
        /\ timespan' = Charge(n, time)
        /\ Resume(n, m, e)
        /\ ran' = [i \in Task |-> (IF idle THEN 0 ELSE ran[i]) + (IF i = n THEN 1 ELSE 0)]
        /\ waited' = [i \in Task |-> IF i = n \/ i \notin alive THEN 0
                                     ELSE IF waited[i] > MaxWait THEN waited[i]
                                     ELSE waited[i] + 1]

ClockInterrupt ==
    /\ halted = "no"
    /\ Schedule(alive, timespan, mode, eax)
    /\ UNCHANGED <<alive, forked, halted>>

\* get_pid finds no slot: RETURN(-1) writes the frame, and the syscall exit
\* overwrites it.
ForkNoSlot ==
    /\ halted = "no" /\ alive = Task
    /\ eax' = [eax EXCEPT ![current] = Ptr]
    /\ forked' = [forked EXCEPT ![current] = -1]
    /\ UNCHANGED <<alive, current, timespan, mode, halted, ran, waited>>

\* alloc_page for the task page or for the page table panics.  Page usage is
\* not tracked here, so any fork may be the one.
ForkNoMemory ==
    /\ halted = "no" /\ alive # Task
    /\ halted' = "out of memory"
    /\ UNCHANGED <<alive, current, timespan, regs, ran, waited>>

\* The child is a copy of the parent, timespan included; the parent's frame
\* gets the child's pid, the child's frame 0; then schedule().
Fork ==
    /\ halted = "no"
    /\ \E p \in Task \ alive :
        /\ \A q \in Task \ alive : p <= q
        /\ alive' = alive \cup {p}
        /\ forked' = [forked EXCEPT ![current] = p]
        /\ Schedule(alive \cup {p},
                    [timespan EXCEPT ![p] = timespan[current]],
                    [mode EXCEPT ![current] = "fork", ![p] = "born"],
                    [eax EXCEPT ![current] = p, ![p] = 0])
    /\ UNCHANGED halted

\* A panic spins with interrupts off.
Stopped == halted # "no" /\ UNCHANGED vars

Next == ClockInterrupt \/ ForkNoSlot \/ ForkNoMemory \/ Fork \/ Stopped

\* An assumption about user programs, not a fact about the kernel: no task keeps
\* the clock interrupt off for ever.  The kernel starts user mode with IF set,
\* returns with the flags the task had, and never masks the timer.  But eflags
\* 0x3200 (entry.asm:60) also has IOPL 3, so user code may clear IF or mask the
\* interrupt controller; printk does the first (printk.asm:20) and undoes it.
UserLeavesClockOn == WF_vars(ClockInterrupt)

Spec == Init /\ [][Next]_vars /\ UserLeavesClockOn

-----------------------------------------------------------------------------
(* Properties. *)

\* Between two resets of the timespans no task is scheduled more often than
\* its priority, however schedule() is reached (clock or fork) and whatever
\* a child inherited: what a task has had and what it has left never exceed it.
EpochShare ==
    \A i \in alive : ran[i] + timespan[i] <= Quantum

\* No starvation, in numbers: a task waits at most until every other slot has
\* used its time, plus one round of the table after the reset.
BoundedWait ==
    \A i \in alive : waited[i] <= MaxWait

\* fork tells the two processes apart: 0 is returned in the child, until it
\* forks itself, and in no parent (main.c fork_test branches on it).
OnlyChildSeesZero ==
    \A i \in alive : mode[i] = "user" => (eax[i] = 0 <=> forked[i] = NoFork)

\* Every task runs again and again as long as the kernel has not panicked and
\* user programs leave the clock interrupt on (UserLeavesClockOn).
EveryTaskRuns ==
    \A i \in Task : [](i \in alive => <>(current = i \/ halted # "no"))

\* syscall_impl.c:54: "parent process returns child pid", and -1 if there is
\* no slot.
ParentGetsChildPid ==
    \A i \in alive :
        mode[i] = "user" /\ forked[i] # NoFork => eax[i] = forked[i]
=============================================================================
