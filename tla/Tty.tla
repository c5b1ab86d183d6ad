-------------------------------- MODULE Tty ---------------------------------
(***************************************************************************)
(* The keyboard path: on_keyboard_interrupt, tty_cook and cook             *)
(* (kernel/io.c) over the two ring queues of a tty (include/io.h).         *)
(*                                                                         *)
(* Interrupts are off in the handler, so a byte arrives only when pc is    *)
(* "idle"; "cook" is the head of tty_cook's outer loop and "drain" the     *)
(* head of the loop that empties the secondary queue.  The scan code       *)
(* tables of keyboard.c are constants: a character is its index in them.   *)
(***************************************************************************)
EXTENDS ScanCodes, Sequences

CONSTANT QUEUE_BUF_SZ

\* Half a code and the byte that completes it must fit.
ASSUME QueueAssumption == QUEUE_BUF_SZ \in Nat \ {0, 1}

Cell == 0 .. QUEUE_BUF_SZ - 1

VARIABLES
    read_q, secondary,  \* struct tty_queue; head and tail as indices
    kb_flag,            \* modifier keys whose flag is set
    pc,
    last,               \* last character taken from secondary, 0 at first
    line,               \* what the calls of scroll_screen add up to
    halted,             \* "no", or the panic/assert the kernel spins in
    \* history:
    input, half         \* last byte sent; it was the first of a pair

history == <<input, half>>
screen == <<last, line>>
vars == <<read_q, secondary, kb_flag, pc, screen, halted, history>>

Queue == [head : Cell, tail : 0 .. QUEUE_BUF_SZ, count : 0 .. QUEUE_BUF_SZ,
          buffer : [Cell -> Byte]]

TypeOK ==
    /\ read_q \in Queue /\ secondary \in Queue
    /\ kb_flag \in SUBSET Modifier
    /\ pc \in {"idle", "cook", "drain"}
    /\ last \in Byte /\ line \in 0 .. NR_LINES - 1
    /\ halted \in {"no", "keyboard buffer is full"}
    /\ input \in Byte /\ half \in BOOLEAN

-----------------------------------------------------------------------------
(* The queue macros. *)

QUEUE_INIT == [head |-> 0, tail |-> 0, count |-> 0, buffer |-> [i \in Cell |-> 0]]

QUEUE_FULL(q) == q.count = QUEUE_BUF_SZ
QUEUE_EMPTY(q) == q.count = 0

\* mutant: tail is wrapped before the last cell is used
QUEUE_ENQ_early_wrap(q, v) ==
    LET t == IF q.tail >= QUEUE_BUF_SZ - 1 THEN 0 ELSE q.tail IN
    [head |-> q.head, tail |-> t + 1, count |-> q.count + 1,
     buffer |-> [q.buffer EXCEPT ![t] = v]]

\* tail may point behind the buffer and is wrapped before its use; head is
\* wrapped after it.
QUEUE_ENQ(q, v) ==
    LET t == IF q.tail >= QUEUE_BUF_SZ THEN q.tail - QUEUE_BUF_SZ ELSE q.tail IN
    [head |-> q.head, tail |-> t + 1, count |-> q.count + 1,
     buffer |-> [q.buffer EXCEPT ![t] = v]]

Front(q) == q.buffer[q.head]

\* mutant: head may point behind the buffer
QUEUE_DEQ_late_wrap(q) ==
    LET h == q.head + 1 IN
    [head |-> IF h > QUEUE_BUF_SZ THEN h - QUEUE_BUF_SZ ELSE h,
     tail |-> q.tail, count |-> q.count - 1, buffer |-> q.buffer]

QUEUE_DEQ(q) ==
    LET h == q.head + 1 IN
    [head |-> IF h >= QUEUE_BUF_SZ THEN h - QUEUE_BUF_SZ ELSE h,
     tail |-> q.tail, count |-> q.count - 1, buffer |-> q.buffer]

-----------------------------------------------------------------------------
Init ==
    /\ read_q = QUEUE_INIT /\ secondary = QUEUE_INIT
    /\ kb_flag = {} /\ pc = "idle"
    /\ last = 0 /\ line = 0
    /\ halted = "no"
    /\ input = 0 /\ half = FALSE

\* The interrupt, up to the call of tty_cook.
KeyboardInterrupt(code) ==
    /\ halted = "no" /\ pc = "idle"
    /\ IF QUEUE_FULL(read_q)
       THEN halted' = "keyboard buffer is full" /\ UNCHANGED <<read_q, pc>>
       ELSE /\ read_q' = QUEUE_ENQ(read_q, code)
            /\ pc' = "cook"
            /\ UNCHANGED halted
    /\ input' = code /\ half' = (~half /\ code = Prefix)
    /\ UNCHANGED <<secondary, kb_flag, screen>>

\* tty_cook's loop goes on.
Cooking == pc = "cook" /\ ~QUEUE_FULL(secondary) /\ ~QUEUE_EMPTY(read_q)

CookDone ==
    /\ pc = "cook" /\ (QUEUE_FULL(secondary) \/ QUEUE_EMPTY(read_q))
    /\ pc' = "drain"
    /\ UNCHANGED <<read_q, secondary, kb_flag, screen, halted, history>>

\* mutant: the prefix byte is not put back
CookPrefixAlone_no_restore ==
    /\ Cooking /\ Front(read_q) = Prefix /\ QUEUE_EMPTY(QUEUE_DEQ(read_q))
    /\ read_q' = QUEUE_DEQ(read_q)
    /\ pc' = "drain"
    /\ UNCHANGED <<secondary, kb_flag, screen, halted, history>>

\* The second byte is not there: head and count are restored, so the queue is
\* what it was, and tty_cook returns.
CookPrefixAlone ==
    /\ Cooking /\ Front(read_q) = Prefix /\ QUEUE_EMPTY(QUEUE_DEQ(read_q))
    /\ pc' = "drain"
    /\ UNCHANGED <<read_q, secondary, kb_flag, screen, halted, history>>

\* mutants: only the prefix is taken; a pair waits like a prefix alone
CookPair_one ==
    /\ Cooking /\ Front(read_q) = Prefix /\ ~QUEUE_EMPTY(QUEUE_DEQ(read_q))
    /\ read_q' = QUEUE_DEQ(read_q)
    /\ UNCHANGED <<secondary, kb_flag, pc, screen, halted, history>>
CookPair_waits ==
    /\ Cooking /\ Front(read_q) = Prefix /\ ~QUEUE_EMPTY(QUEUE_DEQ(read_q))
    /\ pc' = "drain"
    /\ UNCHANGED <<read_q, secondary, kb_flag, screen, halted, history>>

\* The prefix and the byte behind it are dropped.
CookPair ==
    /\ Cooking /\ Front(read_q) = Prefix /\ ~QUEUE_EMPTY(QUEUE_DEQ(read_q))
    /\ read_q' = QUEUE_DEQ(QUEUE_DEQ(read_q))
    /\ UNCHANGED <<secondary, kb_flag, pc, screen, halted, history>>

CookModifier ==
    /\ Cooking /\ Front(read_q) # Prefix /\ Key(Front(read_q)) \in Modifier
    /\ read_q' = QUEUE_DEQ(read_q)
    /\ kb_flag' = Toggle(Front(read_q), kb_flag)
    /\ UNCHANGED <<secondary, pc, screen, halted, history>>

\* One character goes to secondary.  There is room for it, since the loop runs
\* only while secondary is not full.
CookChar ==
    /\ Cooking /\ Front(read_q) \in Printable
    /\ read_q' = QUEUE_DEQ(read_q)
    /\ secondary' = QUEUE_ENQ(secondary, Ascii(Front(read_q), kb_flag))
    /\ UNCHANGED <<kb_flag, pc, screen, halted, history>>

\* A release, or a key without a printable character.
CookNothing ==
    /\ Cooking /\ Front(read_q) # Prefix
    /\ Key(Front(read_q)) \notin Modifier /\ Front(read_q) \notin Printable
    /\ read_q' = QUEUE_DEQ(read_q)
    /\ UNCHANGED <<secondary, kb_flag, pc, screen, halted, history>>

\* mutant: the loop looks at the character without taking it
Drain_no_deq ==
    /\ pc = "drain" /\ ~QUEUE_EMPTY(secondary)
    /\ last' = Front(secondary)
    /\ line' = Scroll(last', line)
    /\ UNCHANGED <<read_q, secondary, kb_flag, pc, halted, history>>

Drain ==
    /\ pc = "drain" /\ ~QUEUE_EMPTY(secondary)
    /\ last' = Front(secondary)
    /\ line' = Scroll(last', line)
    /\ secondary' = QUEUE_DEQ(secondary)
    /\ UNCHANGED <<read_q, kb_flag, pc, halted, history>>

Return ==
    /\ pc = "drain" /\ QUEUE_EMPTY(secondary)
    /\ pc' = "idle"
    /\ UNCHANGED <<read_q, secondary, kb_flag, screen, halted, history>>

Handler ==
    \/ CookDone \/ CookPrefixAlone \/ CookPair \/ CookModifier
    \/ CookChar \/ CookNothing \/ Drain \/ Return

Next == Handler \/ \E code \in ScanCode : KeyboardInterrupt(code)

\* The handler is code that runs with interrupts off; keys need not come.
Spec == Init /\ [][Next]_vars /\ WF_vars(Handler)

-----------------------------------------------------------------------------
(* Properties. *)

\* The element i places behind the head, and the queue as a sequence.
At(q, i) == q.buffer[IF q.head + i >= QUEUE_BUF_SZ THEN q.head + i - QUEUE_BUF_SZ
                     ELSE q.head + i]
Content(q) == [i \in 1 .. q.count |-> At(q, i - 1)]

\* head, tail and count of both rings agree, through wrapping and through the
\* rollback of tty_cook, although head wraps eagerly and tail lazily.
Agrees(q) == q.head + q.count - q.tail \in {-QUEUE_BUF_SZ, 0, QUEUE_BUF_SZ}
RingsAgree == Agrees(read_q) /\ Agrees(secondary)

\* Between two interrupts the queues hold nothing but the first byte of a pair
\* whose second byte has not come: nothing is left over or lost.
QueuesAtRest ==
    pc = "idle" =>
        /\ Content(secondary) = <<>>
        /\ Content(read_q) = IF half THEN <<Prefix>> ELSE <<>>

\* The panic "keyboard buffer is full" cannot happen, for any stream of bytes.
KeyboardNeverPanics == halted = "no"

\* tty_cook's loops and the drain loop end after every interrupt, also when a
\* prefix byte is put back into the queue that the loop empties.
HandlerReturns == pc # "idle" ~> pc = "idle"

\* What the handler is going to make of the bytes in the queues.
Coming(code) == pc = "cook" /\ ~QUEUE_EMPTY(read_q) /\ Front(read_q) = code
ComingChar ==
    IF ~QUEUE_EMPTY(secondary) THEN Front(secondary)
    ELSE IF \E code \in Printable : Coming(code)
    THEN Ascii(Front(read_q), kb_flag)
    ELSE 0
ComingFlags ==
    IF \E code \in ScanCode \ {Prefix} : Coming(code) /\ Key(code) \in Modifier
    THEN Toggle(Front(read_q), kb_flag)
    ELSE kb_flag

Decoder == INSTANCE KeyDecoder WITH
    held <- ComingFlags,
    last <- IF ComingChar = 0 THEN last ELSE ComingChar,
    line <- Scroll(ComingChar, line)

\* Every byte takes effect exactly once and in order: the flags and the screen
\* end up as if each byte had been decoded when it arrived.
ImplementsDecoder == Decoder!Spec
=============================================================================
