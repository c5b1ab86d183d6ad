---------------------------- MODULE SchedProofs ----------------------------
(* Type correctness, the fair share, the longest wait and the return       *)
(* values of fork, for every size of the task table and every priority.    *)
EXTENDS Sched, FiniteSets, FiniteSetTheorems, TLAPS

\* A task that was switched out resumes behind do_fork only if it forked, and
\* at ret_from_fork only with the 0 that do_fork put into its frame.
Frames(tab, m, e, f) ==
    \A i \in tab :
        /\ m[i] = "user" => (e[i] = 0 <=> f[i] = NoFork)
        /\ m[i] = "fork" => f[i] # NoFork
        /\ m[i] = "born" => e[i] = 0 /\ f[i] = NoFork

Shares(tab, ts) == \A i \in tab : ran[i] + ts[i] <= Quantum

\* Slots that were never used have no history.
FreshSlots == \A i \in Task \ alive : ran[i] = 0 /\ forked[i] = NoFork

IInv ==
    /\ TypeOK /\ FreshSlots
    /\ Shares(alive, timespan)
    /\ Frames(alive, mode, eax, forked)

LEMMA InvImplies == IInv => TypeOK /\ EpochShare /\ OnlyChildSeesZero
  BY DEF IInv, Shares, Frames, EpochShare, OnlyChildSeesZero

LEMMA InitIInv == Init => IInv
  <1> SUFFICES ASSUME Init PROVE IInv
    OBVIOUS
  <1>1. 0 \in Task /\ Quantum \in 0 .. Quantum /\ 0 \in 0 .. Quantum
    BY SchedAssumption DEF Task
  <1>2. TypeOK
    BY <1>1 DEF Init, TypeOK
  <1>3. FreshSlots /\ Shares(alive, timespan) /\ Frames(alive, mode, eax, forked)
    BY <1>1, SchedAssumption DEF Init, FreshSlots, Shares, Frames
  <1>4. QED
    BY <1>2, <1>3 DEF IInv

\* One call of schedule() over a table tab: it charges the task it picks one
\* tick out of the share that task has left, and hands it the frame that
\* belongs to the place it resumes at.
LEMMA ScheduleStep ==
    ASSUME TypeOK, NEW tab \in SUBSET Task,
           NEW ts \in [Task -> 0 .. Quantum],
           NEW m \in [Task -> {"user", "fork", "born"}],
           NEW e \in [Task -> Task \cup {Ptr}],
           NEW f \in [Task -> Task \cup {-1, NoFork}],
           Shares(tab, ts), Frames(tab, m, e, f),
           Schedule(tab, ts, m, e)
    PROVE  /\ current' \in tab
           /\ timespan' \in [Task -> 0 .. Quantum]
           /\ eax' \in [Task -> Task \cup {Ptr}]
           /\ mode' \in [Task -> {"user", "fork", "born"}]
           /\ mode'[current'] = "user"
           /\ ran' \in [Task -> Nat] /\ waited' \in [Task -> Nat]
           /\ \A i \in Task \ tab : ran[i] = 0 => ran'[i] = 0
           /\ \A i \in tab : ran'[i] + timespan'[i] <= Quantum
           /\ Frames(tab, mode', eax', f)
  <1> DEFINE idle == \A i \in tab : ts[i] = 0
             time == IF idle THEN Refill(tab, ts) ELSE ts
  <1>1. PICK n \in Task :
            /\ IsNext(n, tab, time)
            /\ current' = n
            /\ timespan' = Charge(n, time)
            /\ Resume(n, m, e)
            /\ ran' = [i \in Task |-> (IF idle THEN 0 ELSE ran[i])
                                      + (IF i = n THEN 1 ELSE 0)]
            /\ waited' = [i \in Task |-> IF i = n \/ i \notin alive THEN 0
                                         ELSE IF waited[i] > MaxWait THEN waited[i]
                                         ELSE waited[i] + 1]
    BY DEF Schedule
  <1>2. time \in [Task -> 0 .. Quantum]
    BY SchedAssumption DEF Refill
  <1>3. n \in tab /\ time[n] > 0
    BY <1>1 DEF IsNext
  <1>4. timespan' = [time EXCEPT ![n] = time[n] - 1]
    BY <1>1, <1>2 DEF Charge
  <1>5. \A i \in tab : (IF idle THEN 0 ELSE ran[i]) + time[i] <= Quantum
    BY SchedAssumption DEF Refill, Shares
  <1> HIDE DEF time, idle
  <1>6. timespan' \in [Task -> 0 .. Quantum]
    <2>1. time[n] - 1 \in 0 .. Quantum
      BY <1>2, <1>3, SchedAssumption
    <2>2. QED
      BY <1>2, <1>4, <2>1
  <1>7. ran' \in [Task -> Nat] /\ waited' \in [Task -> Nat]
    <2>1. \A i \in Task : ran[i] \in Nat /\ waited[i] \in Nat
      BY DEF TypeOK
    <2>2. \A i \in Task : (IF idle THEN 0 ELSE ran[i]) \in Nat
      BY <2>1
    <2>3. \A i \in Task : (IF i = n \/ i \notin alive THEN 0
                         ELSE IF waited[i] > MaxWait THEN waited[i]
                         ELSE waited[i] + 1) \in Nat
      BY <2>1
    <2>4. \A i \in Task :
            (IF idle THEN 0 ELSE ran[i]) + (IF i = n THEN 1 ELSE 0) \in Nat
      BY <2>2
    <2>5. ran' \in [Task -> Nat]
      BY <1>1, <2>4
    <2>6. QED
      BY <1>1, <2>3, <2>5
  <1>8. \A i \in Task \ tab : ran[i] = 0 => ran'[i] = 0
    BY <1>1, <1>3
  <1>9. ASSUME NEW i \in tab PROVE ran'[i] + timespan'[i] <= Quantum
    <2>1. ran[i] \in Nat /\ time[i] \in 0 .. Quantum
      BY <1>2 DEF TypeOK
    <2>2. CASE i = n
      BY <1>1, <1>2, <1>4, <1>5, <2>1, <2>2, SchedAssumption
    <2>3. CASE i # n
      BY <1>1, <1>2, <1>4, <1>5, <2>1, <2>3, SchedAssumption
    <2>4. QED
      BY <2>2, <2>3
  <1>10. /\ eax' \in [Task -> Task \cup {Ptr}]
         /\ mode' \in [Task -> {"user", "fork", "born"}]
         /\ mode'[n] = "user"
    BY <1>1 DEF Resume
  <1>11. Frames(tab, mode', eax', f)
    <2> SUFFICES ASSUME NEW i \in tab
                 PROVE  /\ mode'[i] = "user" => (eax'[i] = 0 <=> f[i] = NoFork)
                        /\ mode'[i] = "fork" => f[i] # NoFork
                        /\ mode'[i] = "born" => eax'[i] = 0 /\ f[i] = NoFork
      BY DEF Frames
    <2>1. CASE i = n
      BY <1>1, <2>1, SchedAssumption DEF Resume, Frames
    <2>2. CASE i # n
      BY <1>1, <2>2 DEF Resume, Frames
    <2>3. QED
      BY <2>1, <2>2
  <1>12. QED
    BY <1>1, <1>3, <1>6, <1>7, <1>8, <1>9, <1>10, <1>11

LEMMA ClockKeepsIInv ==
    ASSUME IInv, ClockInterrupt
    PROVE  IInv'
  <1>1. /\ Schedule(alive, timespan, mode, eax)
        /\ UNCHANGED <<alive, forked, halted>>
    BY DEF ClockInterrupt
  <1>2. /\ alive \in SUBSET Task /\ timespan \in [Task -> 0 .. Quantum]
        /\ mode \in [Task -> {"user", "fork", "born"}]
        /\ eax \in [Task -> Task \cup {Ptr}]
        /\ forked \in [Task -> Task \cup {-1, NoFork}]
    BY DEF IInv, TypeOK
  <1>3. /\ current' \in alive
        /\ timespan' \in [Task -> 0 .. Quantum]
        /\ eax' \in [Task -> Task \cup {Ptr}]
        /\ mode' \in [Task -> {"user", "fork", "born"}]
        /\ mode'[current'] = "user"
        /\ ran' \in [Task -> Nat] /\ waited' \in [Task -> Nat]
        /\ \A i \in Task \ alive : ran[i] = 0 => ran'[i] = 0
        /\ \A i \in alive : ran'[i] + timespan'[i] <= Quantum
        /\ Frames(alive, mode', eax', forked)
    <2>1. TypeOK /\ Shares(alive, timespan) /\ Frames(alive, mode, eax, forked)
      BY DEF IInv
    <2>2. QED
      BY <1>1, <1>2, <2>1, ScheduleStep
  <1>4. TypeOK'
    BY <1>1, <1>3 DEF IInv, TypeOK
  <1>5. FreshSlots'
    BY <1>1, <1>3 DEF IInv, FreshSlots
  <1>6. QED
    BY <1>1, <1>3, <1>4, <1>5 DEF IInv, Shares, Frames

LEMMA ForkKeepsIInv ==
    ASSUME IInv, Fork
    PROVE  IInv'
  <1> PICK p \in Task \ alive :
        /\ alive' = alive \cup {p}
        /\ forked' = [forked EXCEPT ![current] = p]
        /\ Schedule(alive \cup {p},
                    [timespan EXCEPT ![p] = timespan[current]],
                    [mode EXCEPT ![current] = "fork", ![p] = "born"],
                    [eax EXCEPT ![current] = p, ![p] = 0])
    BY DEF Fork
  <1> DEFINE tab == alive \cup {p}
             ts == [timespan EXCEPT ![p] = timespan[current]]
             m == [mode EXCEPT ![current] = "fork", ![p] = "born"]
             e == [eax EXCEPT ![current] = p, ![p] = 0]
  <1>1. current \in alive /\ current \in Task /\ p # current /\ halted' = halted
    BY DEF IInv, TypeOK, Fork
  <1>2. tab \in SUBSET Task /\ ts \in [Task -> 0 .. Quantum]
    BY <1>1 DEF IInv, TypeOK
  <1>3. /\ m \in [Task -> {"user", "fork", "born"}]
        /\ e \in [Task -> Task \cup {Ptr}]
        /\ forked' \in [Task -> Task \cup {-1, NoFork}]
    <2>1. 0 \in Task
      BY SchedAssumption DEF Task
    <2>2. QED
      BY <1>1, <2>1 DEF IInv, TypeOK
  <1>4. Shares(tab, ts)
    <2> SUFFICES ASSUME NEW i \in tab PROVE ran[i] + ts[i] <= Quantum
      BY DEF Shares
    <2>1. CASE i = p
      <3>1. ran[p] = 0 /\ ts[p] = timespan[current]
        BY DEF IInv, TypeOK, FreshSlots
      <3>2. timespan[current] \in 0 .. Quantum
        BY <1>1 DEF IInv, TypeOK
      <3>3. QED
        BY <2>1, <3>1, <3>2, SchedAssumption
    <2>2. CASE i \in alive /\ i # p
      BY <2>2 DEF IInv, TypeOK, Shares
    <2>3. QED
      BY <2>1, <2>2
  <1>5. Frames(tab, m, e, forked')
    <2> SUFFICES ASSUME NEW i \in tab
                 PROVE  /\ m[i] = "user" => (e[i] = 0 <=> forked'[i] = NoFork)
                        /\ m[i] = "fork" => forked'[i] # NoFork
                        /\ m[i] = "born" => e[i] = 0 /\ forked'[i] = NoFork
      BY DEF Frames
    <2>1. CASE i = p
      BY <1>1, <2>1 DEF IInv, TypeOK, FreshSlots
    <2>2. CASE i = current
      <3>1. m[i] = "fork" /\ forked'[i] = p
        BY <1>1, <2>2 DEF IInv, TypeOK
      <3>2. p \in Int
        BY DEF Task
      <3>3. QED
        BY <3>1, <3>2, SchedAssumption
    <2>3. CASE i \in alive /\ i # p /\ i # current
      BY <1>1, <2>3 DEF IInv, TypeOK, Frames
    <2>4. QED
      BY <2>1, <2>2, <2>3
  <1>6. Schedule(tab, ts, m, e)
    OBVIOUS
  <1>7. forked' = [forked EXCEPT ![current] = p] /\ alive' = tab
    OBVIOUS
  <1> HIDE DEF tab, ts, m, e
  <1>8. /\ TypeOK'
        /\ \A i \in Task \ tab : ran[i] = 0 => ran'[i] = 0
        /\ \A i \in tab : ran'[i] + timespan'[i] <= Quantum
        /\ Frames(tab, mode', eax', forked')
    <2>1. TypeOK
      BY DEF IInv
    <2>2. QED
      BY <1>1, <1>2, <1>3, <1>4, <1>5, <1>6, <1>7, <2>1, ScheduleStep DEF TypeOK
  <1>9. FreshSlots'
    <2>1. \A i \in Task \ tab : i \in Task \ alive /\ forked'[i] = forked[i]
      BY <1>1, <1>7 DEF IInv, TypeOK, tab
    <2>2. QED
      BY <1>7, <1>8, <2>1 DEF IInv, FreshSlots
  <1>10. QED
    BY <1>7, <1>8, <1>9 DEF IInv, Shares, Frames

LEMMA ForkNoSlotKeepsIInv ==
    ASSUME IInv, ForkNoSlot
    PROVE  IInv'
  <1>1. current \in alive /\ current \in Task
    BY DEF IInv, TypeOK
  <1>2. QED
    BY <1>1, SchedAssumption
       DEF ForkNoSlot, IInv, TypeOK, FreshSlots, Shares, Frames

LEMMA NextKeepsIInv == IInv /\ [Next]_vars => IInv'
  <1> SUFFICES ASSUME IInv, [Next]_vars PROVE IInv'
    OBVIOUS
  <1>1. CASE ClockInterrupt
    BY <1>1, ClockKeepsIInv
  <1>2. CASE Fork
    BY <1>2, ForkKeepsIInv
  <1>3. CASE ForkNoSlot
    BY <1>3, ForkNoSlotKeepsIInv
  <1>4. CASE ForkNoMemory
    BY <1>4 DEF ForkNoMemory, regs, IInv, TypeOK, FreshSlots, Shares, Frames
  <1>5. CASE UNCHANGED vars
    BY <1>5 DEF vars, regs, IInv, TypeOK, FreshSlots, Shares, Frames
  <1>6. QED
    BY <1>1, <1>2, <1>3, <1>4, <1>5 DEF Next, Stopped

LEMMA InvariantIInv == Spec => []IInv
  BY InitIInv, NextKeepsIInv, PTL DEF Spec

\* The current task is always in the table and no timespan leaves the range
\* 0 .. priority.
THEOREM TypeCorrect == Spec => []TypeOK
  BY InvariantIInv, InvImplies, PTL

\* No task gets more ticks between two resets than its priority, with any
\* number of tasks forked at any time.
THEOREM ShareIsBounded == Spec => []EpochShare
  BY InvariantIInv, InvImplies, PTL

\* 0 is what a child sees of the fork that made it, and nobody else.
THEOREM ForkTellsChild == Spec => []OnlyChildSeesZero
  BY InvariantIInv, InvImplies, PTL

-----------------------------------------------------------------------------
(* How long a task waits.  A task without time left waits for the others'  *)
(* ticks, and a slot that is still empty may bring a child with as many as *)
(* the priority; a task with time left waits for the slots before it.      *)

\* The ticks that the slots other than i have, or may still bring, before the
\* next reset.
Pending(i, tab, ts) ==
    {x \in (Task \ {i}) \X (1 .. Quantum) : x[1] \in tab => x[2] <= ts[x[1]]}

Waits(tab, ts) ==
    \A i \in tab :
        /\ ts[i] = 0 => waited[i] + Cardinality(Pending(i, tab, ts))
                            <= (NR_TASK - 1) * Quantum
        /\ ts[i] > 0 => waited[i] + Distance(i) <= MaxWait

\* An empty slot has not waited, so its child starts at 0.
Waiting ==
    /\ Waits(alive, timespan)
    /\ \A i \in Task \ alive : waited[i] = 0

\* Going round the table from the slot behind current.
LEMMA DistanceIs ==
    ASSUME current \in Task, NEW j \in Task
    PROVE  Distance(j) = IF j > current THEN j - current - 1
                         ELSE j - current - 1 + NR_TASK
  <1> PICK c, n, d : c = current /\ n = NR_TASK /\ d = j - c - 1
    OBVIOUS
  <1>1. /\ n \in Nat \ {0} /\ c \in Int /\ j \in Int /\ d \in Int
        /\ 0 <= c /\ c < n /\ 0 <= j /\ j < n
    BY SchedAssumption DEF Task
  <1>2. CASE j > c
    <2>1. d % n = d
      BY <1>1, <1>2
    <2>2. QED
      BY <2>1, <1>2 DEF Distance
  <1>3. CASE ~(j > c)
    <2>1. d % n = d + n
      BY <1>1, <1>3
    <2>2. QED
      BY <2>1, <1>3 DEF Distance
  <1>4. QED
    BY <1>2, <1>3

\* The same in the next state.
LEMMA DistanceIsNext ==
    ASSUME current' \in Task, NEW j \in Task
    PROVE  Distance(j)' = IF j > current' THEN j - current' - 1
                          ELSE j - current' - 1 + NR_TASK
  <1>1. (current \in Task => Distance(j) = IF j > current THEN j - current - 1
                                           ELSE j - current - 1 + NR_TASK)'
    BY DistanceIs, PTL
  <1>2. QED
    BY <1>1 DEF Task

LEMMA DistanceInRange ==
    ASSUME current \in Task, NEW j \in Task
    PROVE  Distance(j) \in 0 .. NR_TASK - 1
  <1>1. j \in Int /\ current \in Int /\ 0 <= j /\ j < NR_TASK
        /\ 0 <= current /\ current < NR_TASK /\ NR_TASK \in Nat
    BY SchedAssumption DEF Task
  <1>2. QED
    BY <1>1, DistanceIs

\* After the switch to n the search starts behind n: what lay behind n has
\* come nearer, and n itself is now last.
LEMMA DistanceShrinks ==
    ASSUME current \in Task, current' \in Task, NEW j \in Task
    PROVE  /\ Distance(j) \in 0 .. NR_TASK - 1
           /\ Distance(j)' \in 0 .. NR_TASK - 1
           /\ j # current' => Distance(j)' <= NR_TASK - 2
           /\ j # current' /\ Distance(current') <= Distance(j)
                => Distance(j)' < Distance(j)
  <1> PICK c, d, n : c = current /\ d = current' /\ n = NR_TASK
    OBVIOUS
  <1>1. /\ n \in Nat \ {0} /\ c \in Int /\ j \in Int /\ d \in Int
        /\ 0 <= c /\ c < n /\ 0 <= j /\ j < n /\ 0 <= d /\ d < n
    BY SchedAssumption DEF Task
  <1>2. Distance(j) = IF j > c THEN j - c - 1 ELSE j - c - 1 + n
    BY DistanceIs
  <1>3. Distance(current') = IF d > c THEN d - c - 1 ELSE d - c - 1 + n
    <2>1. d \in Task
      OBVIOUS
    <2>2. Distance(d) = IF d > c THEN d - c - 1 ELSE d - c - 1 + n
      BY <2>1, DistanceIs
    <2>3. QED
      BY <2>2
  <1>4. Distance(j)' = IF j > d THEN j - d - 1 ELSE j - d - 1 + n
    BY DistanceIsNext
  <1> PICK x, y, z : x = Distance(j) /\ y = Distance(current') /\ z = Distance(j)'
    OBVIOUS
  <1>5. /\ x = IF j > c THEN j - c - 1 ELSE j - c - 1 + n
        /\ y = IF d > c THEN d - c - 1 ELSE d - c - 1 + n
        /\ z = IF j > d THEN j - d - 1 ELSE j - d - 1 + n
    BY <1>2, <1>3, <1>4
  <1>6. /\ x \in 0 .. n - 1 /\ z \in 0 .. n - 1
        /\ j # d => z <= n - 2
        /\ j # d /\ y <= x => z < x
    BY ONLY <1>1, <1>5
  <1>7. QED
    BY <1>6

\* Every other slot adds its priority at most.
LEMMA PendingIsFinite ==
    ASSUME NEW i \in Task, NEW tab, NEW ts
    PROVE  /\ IsFiniteSet(Pending(i, tab, ts))
           /\ Cardinality(Pending(i, tab, ts)) \in Nat
           /\ Cardinality(Pending(i, tab, ts)) <= (NR_TASK - 1) * Quantum
  <1> DEFINE others == Task \ {i}
             ticks == 1 .. Quantum
  <1>1. NR_TASK \in Nat \ {0} /\ Quantum \in Nat \ {0}
    BY SchedAssumption
  <1>2. IsFiniteSet(Task) /\ Cardinality(Task) = NR_TASK
    BY <1>1, FS_Interval DEF Task
  <1>3. IsFiniteSet(others) /\ Cardinality(others) = NR_TASK - 1
    BY <1>2, FS_RemoveElement
  <1>4. IsFiniteSet(ticks) /\ Cardinality(ticks) = Quantum
    BY <1>1, FS_Interval
  <1>5. Pending(i, tab, ts) \in SUBSET (others \X ticks)
    BY DEF Pending
  <1> HIDE DEF others, ticks
  <1>6. /\ IsFiniteSet(others \X ticks)
        /\ Cardinality(others \X ticks) = (NR_TASK - 1) * Quantum
    BY <1>3, <1>4, FS_Product
  <1>7. IsFiniteSet(Pending(i, tab, ts))
        /\ Cardinality(Pending(i, tab, ts)) <= (NR_TASK - 1) * Quantum
    BY <1>5, <1>6, FS_Subset
  <1>8. QED
    BY <1>7, FS_CardinalityType

\* One round of the table for the slots' ticks, and one step each.
LEMMA MaxWaitIs ==
    /\ (NR_TASK - 1) * Quantum \in Nat
    /\ MaxWait = ((NR_TASK - 1) * Quantum) + (NR_TASK - 1)
    /\ MaxWait \in Nat
  <1> PICK n, q : n = NR_TASK - 1 /\ q = Quantum
    OBVIOUS
  <1>1. n \in Nat /\ q \in Nat
    BY SchedAssumption
  <1>2. n * q \in Nat /\ n * (q + 1) = (n * q) + n
    BY ONLY <1>1
  <1>3. QED
    BY <1>1, <1>2 DEF MaxWait

\* One call of schedule() pays for the step that it makes the others wait: with
\* a tick of the task it picks, or with the way to a slot that has time left.
LEMMA ScheduleWaits ==
    ASSUME TypeOK, NEW tab \in SUBSET Task,
           NEW ts \in [Task -> 0 .. Quantum], NEW m, NEW e,
           Waits(tab, ts),
           Schedule(tab, ts, m, e)
    PROVE  /\ \A i \in tab :
                /\ timespan'[i] = 0
                    => waited'[i] + Cardinality(Pending(i, tab, timespan'))
                        <= (NR_TASK - 1) * Quantum
                /\ timespan'[i] > 0 => waited'[i] + Distance(i)' <= MaxWait
           /\ \A i \in Task \ alive : waited'[i] = 0
  <1> DEFINE idle == \A i \in tab : ts[i] = 0
             time == IF idle THEN Refill(tab, ts) ELSE ts
  <1>1. PICK n \in Task :
            /\ IsNext(n, tab, time)
            /\ current' = n
            /\ timespan' = Charge(n, time)
            /\ waited' = [i \in Task |-> IF i = n \/ i \notin alive THEN 0
                                         ELSE IF waited[i] > MaxWait THEN waited[i]
                                         ELSE waited[i] + 1]
    BY DEF Schedule
  <1>2. time \in [Task -> 0 .. Quantum]
    BY SchedAssumption DEF Refill
  <1>3. n \in tab /\ time[n] > 0
    BY <1>1 DEF IsNext
  <1>4. timespan' = [time EXCEPT ![n] = time[n] - 1]
    BY <1>1, <1>2 DEF Charge
  <1>5. \A i \in tab : time[i] = IF idle THEN Quantum ELSE ts[i]
    BY DEF Refill
  <1>6. \A i \in Task : /\ waited[i] \in Nat /\ waited'[i] \in Nat
                        /\ waited'[i] <= waited[i] + 1
    <2> TAKE i \in Task
    <2>1. waited[i] \in Nat
      BY DEF TypeOK
    <2>2. waited'[i] \in {0, waited[i], waited[i] + 1}
      BY <1>1
    <2>3. QED
      BY <2>1, <2>2
  <1>7. \A i \in tab : time[i] > 0 => Distance(n) <= Distance(i)
    BY <1>1 DEF IsNext
  <1>8. current \in Task /\ current' \in Task
    BY <1>1 DEF TypeOK
  <1>9. \A i \in Task : /\ Distance(i) \in 0 .. NR_TASK - 1
                        /\ Distance(i)' \in 0 .. NR_TASK - 1
                        /\ i # n => Distance(i)' <= NR_TASK - 2
                        /\ i # n /\ Distance(n) <= Distance(i)
                             => Distance(i)' < Distance(i)
    BY <1>1, <1>8, DistanceShrinks
  <1>10. NR_TASK \in Nat \ {0} /\ Quantum \in Nat \ {0}
    BY SchedAssumption
  <1> HIDE DEF time, idle
  <1>11. ASSUME NEW i \in tab
         PROVE  /\ timespan'[i] = 0
                    => waited'[i] + Cardinality(Pending(i, tab, timespan'))
                        <= (NR_TASK - 1) * Quantum
                /\ timespan'[i] > 0 => waited'[i] + Distance(i)' <= MaxWait
    <2>1. CASE i = n
      <3>1. waited'[i] = 0
        BY <1>1, <2>1
      <3>2. Cardinality(Pending(i, tab, timespan')) \in Nat
            /\ Cardinality(Pending(i, tab, timespan')) <= (NR_TASK - 1) * Quantum
        BY PendingIsFinite
      <3>3. Distance(i)' \in 0 .. NR_TASK - 1
        BY <1>9
      <3>4. QED
        BY <3>1, <3>2, <3>3, <1>10, MaxWaitIs
    <2>2. CASE i # n /\ idle
      <3>1. timespan'[i] = Quantum /\ ts[i] = 0
        BY <1>2, <1>4, <1>5, <2>2 DEF idle
      <3>2. waited[i] + Cardinality(Pending(i, tab, ts)) <= (NR_TASK - 1) * Quantum
        BY <3>1 DEF Waits
      <3>3. Cardinality(Pending(i, tab, ts)) \in Nat
        BY PendingIsFinite
      <3>4. waited'[i] <= ((NR_TASK - 1) * Quantum) + 1
        BY <3>2, <3>3, <1>6, MaxWaitIs
      <3>5. Distance(i)' \in Int /\ Distance(i)' <= NR_TASK - 2
        BY <1>9, <2>2
      <3>6. QED
        BY <3>1, <3>4, <3>5, <1>6, <1>10, MaxWaitIs
    <2>3. CASE i # n /\ ~idle /\ ts[i] > 0
      <3>1. timespan'[i] = ts[i] /\ time[i] = ts[i]
        BY <1>2, <1>4, <1>5, <2>3
      <3>2. Distance(i)' < Distance(i)
        BY <1>7, <1>9, <2>3, <3>1
      <3>3. waited[i] + Distance(i) <= MaxWait
        BY <2>3 DEF Waits
      <3>4. Distance(i) \in Int /\ Distance(i)' \in Int
        BY <1>9
      <3>5. QED
        BY <2>3, <3>1, <3>2, <3>3, <3>4, <1>6, MaxWaitIs
    <2>4. CASE i # n /\ ~idle /\ ts[i] = 0
      <3>1. timespan'[i] = 0
        BY <1>2, <1>4, <1>5, <2>4
      <3>2. waited[i] + Cardinality(Pending(i, tab, ts)) <= (NR_TASK - 1) * Quantum
        BY <2>4 DEF Waits
      <3> DEFINE A == Pending(i, tab, ts)
                 B == Pending(i, tab, timespan')
                 x == <<n, ts[n]>>
      <3>3. ts[n] \in 1 .. Quantum /\ timespan'[n] = ts[n] - 1
        BY <1>2, <1>3, <1>4, <1>5, <2>4
      <3>4. x \in A
        BY <3>3, <2>4 DEF Pending
      <3>5. B \in SUBSET (A \ {x})
        <4>1. \A j \in tab : timespan'[j] = IF j = n THEN ts[j] - 1 ELSE ts[j]
          BY <1>2, <1>4, <1>5, <2>4
        <4>2. SUFFICES ASSUME NEW y \in B PROVE y \in A /\ y # x
          OBVIOUS
        <4>3. /\ y \in (Task \ {i}) \X (1 .. Quantum)
              /\ y[1] \in tab => y[2] <= timespan'[y[1]]
          BY DEF Pending
        <4>4. y[1] \in tab => y[2] <= ts[y[1]]
          BY <4>1, <4>3
        <4>5. y # x
          BY <4>1, <4>3, <1>3, <3>3
        <4>6. QED
          BY <4>3, <4>4, <4>5 DEF Pending
      <3>6. IsFiniteSet(A) /\ Cardinality(A) \in Nat /\ Cardinality(B) \in Nat
        BY PendingIsFinite
      <3> HIDE DEF A, B, x
      <3>7. IsFiniteSet(A \ {x}) /\ Cardinality(A \ {x}) = Cardinality(A) - 1
        BY <3>4, <3>6, FS_RemoveElement
      <3>8. Cardinality(B) <= Cardinality(A) - 1
        BY <3>5, <3>7, FS_Subset
      <3>9. waited'[i] + Cardinality(B) <= (NR_TASK - 1) * Quantum
        BY <3>2, <3>6, <3>8, <1>6, MaxWaitIs DEF A
      <3>10. QED
        BY <3>1, <3>9 DEF B
    <2>5. ts[i] = 0 \/ ts[i] > 0
      OBVIOUS
    <2>6. QED
      BY <2>1, <2>2, <2>3, <2>4, <2>5
  <1>12. \A i \in Task \ alive : waited'[i] = 0
    BY <1>1
  <1>13. QED
    BY <1>11, <1>12

LEMMA WaitingImplies == IInv /\ Waiting => BoundedWait
  <1> SUFFICES ASSUME IInv, Waiting, NEW i \in alive PROVE waited[i] <= MaxWait
    BY DEF BoundedWait
  <1>1. /\ i \in Task /\ current \in Task /\ waited[i] \in Nat
        /\ timespan[i] \in 0 .. Quantum
    BY DEF IInv, TypeOK
  <1>2. CASE timespan[i] = 0
    <2>1. waited[i] + Cardinality(Pending(i, alive, timespan))
            <= (NR_TASK - 1) * Quantum
      BY <1>2 DEF Waiting, Waits
    <2>2. Cardinality(Pending(i, alive, timespan)) \in Nat
      BY <1>1, PendingIsFinite
    <2>3. QED
      BY <1>1, <2>1, <2>2, MaxWaitIs, SchedAssumption
  <1>3. CASE timespan[i] > 0
    <2>1. waited[i] + Distance(i) <= MaxWait
      BY <1>3 DEF Waiting, Waits
    <2>2. Distance(i) \in Nat
      BY <1>1, DistanceInRange
    <2>3. QED
      BY <1>1, <2>1, <2>2, MaxWaitIs
  <1>4. QED
    BY <1>1, <1>2, <1>3

LEMMA InitWaiting == Init => Waiting
  <1> SUFFICES ASSUME Init PROVE Waiting
    OBVIOUS
  <1>1. alive = {0} /\ current = 0 /\ 0 \in Task
    BY SchedAssumption DEF Init, Task
  <1>2. timespan[0] = Quantum /\ \A i \in Task : waited[i] = 0
    BY <1>1 DEF Init
  <1>3. Distance(0) \in 0 .. NR_TASK - 1
    BY <1>1, DistanceInRange
  <1>4. Waits(alive, timespan)
    <2>1. waited[0] + Distance(0) <= MaxWait /\ timespan[0] # 0
      BY <1>1, <1>2, <1>3, MaxWaitIs, SchedAssumption
    <2>2. QED
      BY <1>1, <2>1 DEF Waits
  <1>5. QED
    BY <1>2, <1>4 DEF Waiting

\* Forking does not make the others wait longer: an empty slot was counted
\* with the whole priority, and the child has what its parent has left.
LEMMA ForkWaits ==
    ASSUME IInv, Waiting, NEW p \in Task \ alive
    PROVE  Waits(alive \cup {p}, [timespan EXCEPT ![p] = timespan[current]])
  <1> DEFINE tab == alive \cup {p}
             ts == [timespan EXCEPT ![p] = timespan[current]]
  <1>1. /\ alive \in SUBSET Task /\ current \in alive
        /\ timespan \in [Task -> 0 .. Quantum] /\ waited \in [Task -> Nat]
    BY DEF IInv, TypeOK
  <1>2. ts \in [Task -> 0 .. Quantum]
    BY <1>1
  <1>3. \A i \in alive : ts[i] = timespan[i]
    BY <1>1
  <1>4. waited[p] = 0
    BY DEF Waiting
  <1> HIDE DEF ts
  <1>5. ASSUME NEW i \in tab
        PROVE  /\ ts[i] = 0 => waited[i] + Cardinality(Pending(i, tab, ts))
                                    <= (NR_TASK - 1) * Quantum
               /\ ts[i] > 0 => waited[i] + Distance(i) <= MaxWait
    <2>1. i \in Task /\ waited[i] \in Nat /\ Distance(i) \in 0 .. NR_TASK - 1
      BY <1>1, DistanceInRange
    <2>2. CASE i = p
      <3>1. /\ Cardinality(Pending(i, tab, ts)) \in Nat
            /\ Cardinality(Pending(i, tab, ts)) <= (NR_TASK - 1) * Quantum
        BY <2>1, PendingIsFinite
      <3>2. waited[i] = 0 /\ Distance(i) <= MaxWait
        BY <1>4, <2>1, <2>2, MaxWaitIs, SchedAssumption
      <3>3. QED
        BY <2>1, <3>1, <3>2, MaxWaitIs
    <2>3. CASE i \in alive
      <3> DEFINE A == Pending(i, alive, timespan)
                 B == Pending(i, tab, ts)
      <3>1. B \in SUBSET A
        <4> SUFFICES ASSUME NEW y \in B PROVE y \in A
          OBVIOUS
        <4>1. /\ y \in (Task \ {i}) \X (1 .. Quantum)
              /\ y[1] \in tab => y[2] <= ts[y[1]]
          BY DEF Pending
        <4>2. y[1] \in alive => y[2] <= timespan[y[1]]
          BY <1>3, <4>1
        <4>3. QED
          BY <4>1, <4>2 DEF Pending
      <3>2. IsFiniteSet(A) /\ Cardinality(A) \in Nat /\ Cardinality(B) \in Nat
        BY <2>1, PendingIsFinite
      <3> HIDE DEF A, B
      <3>3. Cardinality(B) <= Cardinality(A)
        BY <3>1, <3>2, FS_Subset
      <3>4. timespan[i] = 0 => waited[i] + Cardinality(A) <= (NR_TASK - 1) * Quantum
        BY <2>3 DEF Waiting, Waits, A
      <3>5. timespan[i] > 0 => waited[i] + Distance(i) <= MaxWait
        BY <2>3 DEF Waiting, Waits
      <3>6. ts[i] = 0 => waited[i] + Cardinality(B) <= (NR_TASK - 1) * Quantum
        BY <1>3, <2>1, <2>3, <3>2, <3>3, <3>4, MaxWaitIs
      <3>7. QED
        BY <1>3, <2>3, <3>5, <3>6 DEF B
    <2>4. QED
      BY <2>2, <2>3
  <1>6. QED
    BY <1>5 DEF Waits, ts

\* What ScheduleWaits says of the next state, with the table that alive is then.
LEMMA WaitingFromSchedule ==
    ASSUME IInv, NEW tab \in SUBSET Task, alive \in SUBSET tab, alive' = tab,
           NEW ts \in [Task -> 0 .. Quantum], NEW m, NEW e,
           Waits(tab, ts), Schedule(tab, ts, m, e)
    PROVE  Waiting'
  <1>1. TypeOK
    BY DEF IInv
  <1>2. /\ \A i \in tab :
             /\ timespan'[i] = 0
                 => waited'[i] + Cardinality(Pending(i, tab, timespan'))
                     <= (NR_TASK - 1) * Quantum
             /\ timespan'[i] > 0 => waited'[i] + Distance(i)' <= MaxWait
        /\ \A i \in Task \ alive : waited'[i] = 0
    BY <1>1, ScheduleWaits
  <1>3. Waits(alive, timespan)'
    BY <1>2 DEF Waits
  <1>4. QED
    BY <1>2, <1>3 DEF Waiting

LEMMA NextKeepsWaiting == IInv /\ Waiting /\ [Next]_vars => Waiting'
  <1> SUFFICES ASSUME IInv, Waiting, [Next]_vars PROVE Waiting'
    OBVIOUS
  <1>1. /\ alive \in SUBSET Task /\ current \in alive
        /\ timespan \in [Task -> 0 .. Quantum]
    BY DEF IInv, TypeOK
  <1>2. CASE ClockInterrupt
    <2>1. Waits(alive, timespan) /\ alive' = alive
      BY <1>2 DEF Waiting, ClockInterrupt
    <2>2. Schedule(alive, timespan, mode, eax)
      BY <1>2 DEF ClockInterrupt
    <2>3. QED
      BY <1>1, <2>1, <2>2, WaitingFromSchedule
  <1>3. CASE Fork
    <2>1. PICK p \in Task \ alive :
            /\ alive' = alive \cup {p}
            /\ Schedule(alive \cup {p},
                        [timespan EXCEPT ![p] = timespan[current]],
                        [mode EXCEPT ![current] = "fork", ![p] = "born"],
                        [eax EXCEPT ![current] = p, ![p] = 0])
      BY <1>3 DEF Fork
    <2>2. Waits(alive \cup {p}, [timespan EXCEPT ![p] = timespan[current]])
      BY ForkWaits
    <2>3. /\ alive \cup {p} \in SUBSET Task /\ alive \in SUBSET (alive \cup {p})
          /\ [timespan EXCEPT ![p] = timespan[current]] \in [Task -> 0 .. Quantum]
      BY <1>1
    <2>4. QED
      BY <2>1, <2>2, <2>3, WaitingFromSchedule
  <1>4. CASE ForkNoSlot \/ ForkNoMemory \/ UNCHANGED vars
    <2>1. UNCHANGED <<alive, current, timespan, waited>>
      BY <1>4 DEF ForkNoSlot, ForkNoMemory, vars
    <2>2. QED
      BY <2>1 DEF Waiting, Waits, Pending, Distance
  <1>5. QED
    BY <1>2, <1>3, <1>4 DEF Next, Stopped

\* No task waits longer than the others' priorities and one round of the table,
\* with any number of forks on the way.
THEOREM WaitIsBounded == Spec => []BoundedWait
  <1>1. Spec => []Waiting
    BY InvariantIInv, InitWaiting, NextKeepsWaiting, PTL DEF Spec
  <1>2. QED
    BY <1>1, InvariantIInv, WaitingImplies, PTL
=============================================================================
