----------------------------- MODULE TtyProofs ------------------------------
(* The keyboard path for every queue size, every scan code table and every *)
(* stream of bytes.                                                        *)
EXTENDS Tty, TLAPS

-----------------------------------------------------------------------------
(* The ring macros implement a FIFO queue. *)

LEMMA EnqAppends ==
    ASSUME NEW q \in Queue, NEW v \in Byte, Agrees(q), q.count < QUEUE_BUF_SZ
    PROVE  /\ QUEUE_ENQ(q, v) \in Queue
           /\ Agrees(QUEUE_ENQ(q, v))
           /\ QUEUE_ENQ(q, v).count = q.count + 1
           /\ \A i \in 0 .. q.count - 1 : At(QUEUE_ENQ(q, v), i) = At(q, i)
           /\ At(QUEUE_ENQ(q, v), q.count) = v
  <1> DEFINE t == IF q.tail >= QUEUE_BUF_SZ THEN q.tail - QUEUE_BUF_SZ ELSE q.tail
             r == QUEUE_ENQ(q, v)
  <1>1. /\ q.head \in Nat /\ q.head < QUEUE_BUF_SZ
        /\ q.tail \in Nat /\ q.tail <= QUEUE_BUF_SZ
        /\ q.count \in Nat /\ q.count < QUEUE_BUF_SZ
        /\ q.buffer \in [Cell -> Byte]
        /\ QUEUE_BUF_SZ \in Nat /\ QUEUE_BUF_SZ > 1
    BY QueueAssumption DEF Queue, Cell
  <1>2. t = IF q.head + q.count >= QUEUE_BUF_SZ
            THEN q.head + q.count - QUEUE_BUF_SZ ELSE q.head + q.count
    BY <1>1 DEF Agrees
  <1>3. t \in Cell
    BY <1>1 DEF Cell
  <1>4. r = [head |-> q.head, tail |-> t + 1, count |-> q.count + 1,
             buffer |-> [q.buffer EXCEPT ![t] = v]]
    BY DEF QUEUE_ENQ
  <1>5. r \in Queue
    <2>1. [q.buffer EXCEPT ![t] = v] \in [Cell -> Byte]
      BY <1>1
    <2>2. q.head \in Cell /\ t + 1 \in 0 .. QUEUE_BUF_SZ /\ q.count + 1 \in 0 .. QUEUE_BUF_SZ
      BY <1>1, <1>3 DEF Cell
    <2>3. QED
      BY <1>4, <2>1, <2>2 DEF Queue
  <1>6. Agrees(r)
    BY <1>1, <1>2, <1>4 DEF Agrees
  <1>7. ASSUME NEW i \in 0 .. q.count - 1 PROVE At(r, i) = At(q, i)
    <2> DEFINE s == IF q.head + i >= QUEUE_BUF_SZ THEN q.head + i - QUEUE_BUF_SZ
                    ELSE q.head + i
    <2>1. s \in Cell /\ s # t
      BY <1>1, <1>2 DEF Cell
    <2>2. At(r, i) = r.buffer[s] /\ At(q, i) = q.buffer[s]
      BY <1>4 DEF At
    <2>3. QED
      BY <1>1, <1>4, <2>1, <2>2
  <1>8. At(r, q.count) = v
    BY <1>1, <1>2, <1>3, <1>4 DEF At
  <1>9. QED
    BY <1>4, <1>5, <1>6, <1>7, <1>8

LEMMA DeqTakesFront ==
    ASSUME NEW q \in Queue, Agrees(q), q.count > 0
    PROVE  /\ QUEUE_DEQ(q) \in Queue
           /\ Agrees(QUEUE_DEQ(q))
           /\ QUEUE_DEQ(q).count = q.count - 1
           /\ Front(q) = At(q, 0)
           /\ \A i \in 0 .. q.count - 2 : At(QUEUE_DEQ(q), i) = At(q, i + 1)
  <1> DEFINE hd == IF q.head + 1 >= QUEUE_BUF_SZ THEN q.head + 1 - QUEUE_BUF_SZ
                   ELSE q.head + 1
             r == QUEUE_DEQ(q)
  <1>1. /\ q.head \in Nat /\ q.head < QUEUE_BUF_SZ
        /\ q.tail \in Nat /\ q.tail <= QUEUE_BUF_SZ
        /\ q.count \in Nat /\ q.count <= QUEUE_BUF_SZ
        /\ q.buffer \in [Cell -> Byte]
        /\ QUEUE_BUF_SZ \in Nat /\ QUEUE_BUF_SZ > 1
    BY QueueAssumption DEF Queue, Cell
  <1>2. r = [head |-> hd, tail |-> q.tail, count |-> q.count - 1, buffer |-> q.buffer]
    BY <1>1 DEF QUEUE_DEQ
  <1>3. hd \in Cell /\ q.count - 1 \in 0 .. QUEUE_BUF_SZ
    BY <1>1 DEF Cell
  <1>4. r \in Queue
    BY <1>1, <1>2, <1>3 DEF Queue
  <1>5. Agrees(r)
    BY <1>1, <1>2 DEF Agrees
  <1>6. Front(q) = At(q, 0)
    BY <1>1 DEF Front, At
  <1>7. ASSUME NEW i \in 0 .. q.count - 2 PROVE At(r, i) = At(q, i + 1)
    BY <1>1, <1>2 DEF At
  <1>8. QED
    BY <1>2, <1>4, <1>5, <1>6, <1>7

LEMMA InitQueue ==
    /\ QUEUE_INIT \in Queue /\ Agrees(QUEUE_INIT) /\ QUEUE_INIT.count = 0
  BY QueueAssumption DEF QUEUE_INIT, Queue, Agrees, Cell, Byte
(* What the handler needs of it. *)
LEMMA EnqFront ==
    ASSUME NEW q \in Queue, NEW v \in Byte, Agrees(q), q.count < QUEUE_BUF_SZ
    PROVE  Front(QUEUE_ENQ(q, v)) = IF q.count = 0 THEN v ELSE Front(q)
  <1>1. QUEUE_ENQ(q, v) \in Queue /\ q.count \in Nat
    BY EnqAppends DEF Queue
  <1>2. /\ \A i \in 0 .. q.count - 1 : At(QUEUE_ENQ(q, v), i) = At(q, i)
        /\ At(QUEUE_ENQ(q, v), q.count) = v
    BY EnqAppends
  <1>3. ASSUME NEW r \in Queue PROVE Front(r) = At(r, 0)
    BY <1>3, QueueAssumption DEF Front, At, Queue, Cell
  <1>4. q.count > 0 => At(QUEUE_ENQ(q, v), 0) = At(q, 0)
    BY <1>1, <1>2
  <1>5. QED
    BY <1>1, <1>2, <1>3, <1>4

-----------------------------------------------------------------------------
(* The invariant: what the queues hold at each place of the handler. *)

Shape ==
    /\ halted = "no"
    /\ secondary.count <= 1
    /\ secondary.count = 1 => Front(secondary) # 0
    /\ half => read_q.count >= 1 /\ Front(read_q) = Prefix
    /\ pc = "idle" => secondary.count = 0
    /\ pc # "cook" => read_q.count = IF half THEN 1 ELSE 0
    /\ pc = "cook" =>
        /\ read_q.count # 0 => secondary.count = 0
        /\ half => read_q.count = 1
        /\ ~half => \/ read_q.count = 0
                    \/ read_q.count = 1 /\ Front(read_q) \in ScanCode \ {Prefix}
                    \/ read_q.count = 2 /\ Front(read_q) = Prefix

IInv == TypeOK /\ RingsAgree /\ Shape

LEMMA InitIInv == Init => IInv
  <1> USE QueueAssumption, ScanCodeAssumption
  <1>1. ASSUME Init PROVE TypeOK
    <2>1. read_q \in Queue /\ secondary \in Queue
      BY <1>1, InitQueue DEF Init
    <2>2. half \in BOOLEAN /\ kb_flag \in SUBSET Modifier
      BY <1>1 DEF Init
    <2>3. last \in Byte /\ input \in Byte /\ line \in 0 .. NR_LINES - 1
      BY <1>1 DEF Init, Byte
    <2>4. QED
      BY <1>1, <2>1, <2>2, <2>3 DEF Init, TypeOK
  <1>0. ASSUME Init PROVE RingsAgree
    BY <1>0, InitQueue DEF Init, RingsAgree
  <1>2. ASSUME Init PROVE Shape
    BY <1>2, InitQueue DEF Init, Shape
  <1>3. QED
    BY <1>0, <1>1, <1>2 DEF IInv

LEMMA CodeFacts ==
    /\ \A code \in ScanCode, mods \in SUBSET Modifier :
        Key(code) \in Modifier => Toggle(code, mods) \in SUBSET Modifier
    /\ \A code \in Printable : \A mods : Ascii(code, mods) \in Byte \ {0}
    /\ \A code \in Printable : code # Prefix /\ Key(code) \notin Modifier
    /\ \A c \in Byte, at \in 0 .. NR_LINES - 1 : Scroll(c, at) \in 0 .. NR_LINES - 1
    /\ \A at : Scroll(0, at) = at
  <1> USE ScanCodeAssumption
  <1>1. \A code \in ScanCode, mods \in SUBSET Modifier :
          Key(code) \in Modifier => Toggle(code, mods) \in SUBSET Modifier
    BY DEF Toggle
  <1>2. \A code \in Printable : \A mods : Ascii(code, mods) \in Byte \ {0}
    BY DEF Ascii, Byte
  <1>3. \A code \in Printable : code # Prefix /\ Key(code) \notin Modifier
    BY DEF Key
  <1>4. \A at \in Int : at % NR_LINES \in 0 .. NR_LINES - 1
    OBVIOUS
  <1>5. \A c \in Byte, at \in 0 .. NR_LINES - 1 : Scroll(c, at) \in 0 .. NR_LINES - 1
    BY <1>4 DEF Scroll
  <1>6. \A at : Scroll(0, at) = at
    BY DEF Scroll
  <1>7. QED
    BY <1>1, <1>2, <1>3, <1>5, <1>6

LEMMA InterruptIInv ==
    ASSUME IInv, NEW code \in ScanCode, KeyboardInterrupt(code)
    PROVE  IInv'
  <1> USE QueueAssumption
  <1>1. /\ read_q \in Queue /\ Agrees(read_q) /\ code \in Byte /\ pc = "idle"
        /\ secondary.count = 0 /\ read_q.count = IF half THEN 1 ELSE 0
    <2>1. secondary \in Queue
      BY DEF IInv, TypeOK
    <2>2. secondary.count \in Nat
      BY <2>1 DEF Queue
    <2>3. QED
      BY <2>2, ScanCodeAssumption DEF IInv, TypeOK, RingsAgree, Shape, KeyboardInterrupt
  <1>2. ~QUEUE_FULL(read_q)
    BY <1>1 DEF QUEUE_FULL
  <1>3. /\ read_q' = QUEUE_ENQ(read_q, code) /\ pc' = "cook" /\ halted' = halted
        /\ input' = code /\ half' = (~half /\ code = Prefix)
        /\ UNCHANGED <<secondary, kb_flag, screen>>
    BY <1>2 DEF KeyboardInterrupt
  <1>4. /\ read_q' \in Queue /\ Agrees(read_q') /\ read_q'.count = read_q.count + 1
        /\ Front(read_q') = IF read_q.count = 0 THEN code ELSE Front(read_q)
    BY <1>1, <1>3, EnqAppends, EnqFront
  <1>5. TypeOK'
    BY <1>1, <1>3, <1>4 DEF IInv, TypeOK, screen
  <1>6. RingsAgree'
    BY <1>3, <1>4 DEF IInv, RingsAgree
  <1>7. Shape'
    <2>1. half' <=> ~half /\ code = Prefix
      BY <1>3
    <2>2. half => read_q.count = 1 /\ Front(read_q) = Prefix
      BY <1>1 DEF IInv, Shape
    <2>3. /\ half => read_q'.count = 2 /\ Front(read_q') = Prefix
          /\ ~half => read_q'.count = 1 /\ Front(read_q') = code
      BY <1>1, <1>4, <2>2
    <2>4. /\ halted' = "no" /\ secondary'.count = 0 /\ pc' = "cook"
      BY <1>1, <1>3 DEF IInv, Shape
    <2>5. QED
      BY <2>1, <2>3, <2>4 DEF Shape
  <1>8. QED
    BY <1>5, <1>6, <1>7 DEF IInv

LEMMA HandlerIInv ==
    ASSUME IInv, Handler
    PROVE  IInv'
  <1> USE QueueAssumption DEF screen, history
  <1>1. /\ read_q \in Queue /\ Agrees(read_q) /\ secondary \in Queue /\ Agrees(secondary)
        /\ read_q.count \in Nat /\ secondary.count \in Nat
    <2>1. read_q \in Queue /\ Agrees(read_q) /\ secondary \in Queue /\ Agrees(secondary)
      BY DEF IInv, TypeOK, RingsAgree
    <2>2. QED
      BY <2>1 DEF Queue
  <1>2. CASE CookDone
    <2>1. read_q.count = 0 /\ ~half
      BY <1>1, <1>2 DEF CookDone, QUEUE_FULL, QUEUE_EMPTY, IInv, Shape
    <2>2. TypeOK' /\ RingsAgree'
      BY <1>2 DEF CookDone, IInv, TypeOK, RingsAgree
    <2>3. QED
      BY <1>2, <2>1, <2>2 DEF CookDone, IInv, Shape
  <1>3. ASSUME Cooking
        PROVE  /\ read_q.count > 0 /\ secondary.count = 0 /\ pc = "cook"
               /\ QUEUE_DEQ(read_q) \in Queue /\ Agrees(QUEUE_DEQ(read_q))
               /\ QUEUE_DEQ(read_q).count = read_q.count - 1
    <2>1. read_q.count > 0 /\ secondary.count = 0 /\ pc = "cook"
      BY <1>1, <1>3 DEF Cooking, QUEUE_EMPTY, IInv, Shape
    <2>2. QED
      BY <1>1, <2>1, DeqTakesFront
  <1>4. CASE CookPrefixAlone
    <2>1. Cooking /\ half /\ read_q.count = 1
      BY <1>1, <1>3, <1>4 DEF CookPrefixAlone, QUEUE_EMPTY, IInv, Shape
    <2>2. TypeOK' /\ RingsAgree'
      BY <1>4 DEF CookPrefixAlone, IInv, TypeOK, RingsAgree
    <2>3. QED
      BY <1>3, <1>4, <2>1, <2>2 DEF CookPrefixAlone, IInv, Shape
  <1>5. CASE CookPair
    <2>1. Cooking /\ ~half /\ read_q.count = 2
      BY <1>1, <1>3, <1>5 DEF CookPair, QUEUE_EMPTY, IInv, Shape
    <2>2. read_q' \in Queue /\ Agrees(read_q') /\ read_q'.count = 0
      BY <1>3, <1>5, <2>1, DeqTakesFront DEF CookPair
    <2>3. TypeOK'
      BY <1>5, <2>2 DEF CookPair, IInv, TypeOK
    <2>4. RingsAgree' /\ Shape'
      BY <1>3, <1>5, <2>1, <2>2 DEF CookPair, IInv, RingsAgree, Shape
    <2>5. QED
      BY <2>3, <2>4 DEF IInv
  <1>6. ASSUME Cooking, Front(read_q) # Prefix
        PROVE  /\ ~half /\ Front(read_q) \in ScanCode
               /\ QUEUE_DEQ(read_q).count = 0
    BY <1>1, <1>3, <1>6 DEF IInv, Shape
  <1>7. CASE CookModifier
    <2>1. Cooking /\ Front(read_q) # Prefix /\ read_q' = QUEUE_DEQ(read_q)
      BY <1>7 DEF CookModifier
    <2>2. kb_flag' \in SUBSET Modifier
      BY <1>6, <1>7, <2>1, CodeFacts DEF CookModifier, IInv, TypeOK
    <2>3. TypeOK'
      BY <1>3, <1>7, <2>1, <2>2 DEF CookModifier, IInv, TypeOK
    <2>4. RingsAgree' /\ Shape'
      BY <1>3, <1>6, <1>7, <2>1 DEF CookModifier, IInv, RingsAgree, Shape
    <2>5. QED
      BY <2>3, <2>4 DEF IInv
  <1>8. CASE CookChar
    <2> DEFINE c == Ascii(Front(read_q), kb_flag)
    <2>1. Cooking /\ Front(read_q) # Prefix /\ c \in Byte \ {0}
      BY <1>8, CodeFacts DEF CookChar
    <2>2. /\ read_q' = QUEUE_DEQ(read_q) /\ secondary' = QUEUE_ENQ(secondary, c)
          /\ UNCHANGED <<kb_flag, pc, screen, halted, history>>
      BY <1>8 DEF CookChar
    <2> HIDE DEF c
    <2>3. /\ secondary' \in Queue /\ Agrees(secondary') /\ secondary'.count = 1
          /\ Front(secondary') = c
      BY <1>1, <1>3, <2>1, <2>2, EnqAppends, EnqFront
    <2>4. TypeOK'
      BY <1>3, <2>1, <2>2, <2>3 DEF IInv, TypeOK
    <2>5. RingsAgree' /\ Shape'
      BY <1>3, <1>6, <2>1, <2>2, <2>3 DEF IInv, RingsAgree, Shape
    <2>6. QED
      BY <2>4, <2>5 DEF IInv
  <1>9. CASE CookNothing
    <2>1. Cooking /\ Front(read_q) # Prefix /\ read_q' = QUEUE_DEQ(read_q)
      BY <1>9 DEF CookNothing
    <2>2. TypeOK'
      BY <1>3, <1>9, <2>1 DEF CookNothing, IInv, TypeOK
    <2>3. RingsAgree' /\ Shape'
      BY <1>3, <1>6, <1>9, <2>1 DEF CookNothing, IInv, RingsAgree, Shape
    <2>4. QED
      BY <2>2, <2>3 DEF IInv
  <1>10. CASE Drain
    <2>1. secondary.count = 1 /\ pc = "drain"
      BY <1>1, <1>10 DEF Drain, QUEUE_EMPTY, IInv, Shape
    <2>2. secondary' \in Queue /\ Agrees(secondary') /\ secondary'.count = 0
      BY <1>1, <1>10, <2>1, DeqTakesFront DEF Drain
    <2>3. last' \in Byte /\ line' \in 0 .. NR_LINES - 1
      <3>1. Front(secondary) \in Byte
        BY <1>1 DEF Front, Queue
      <3>2. QED
        BY <1>10, <3>1, CodeFacts DEF Drain, IInv, TypeOK
    <2>4. TypeOK'
      BY <1>10, <2>2, <2>3 DEF Drain, IInv, TypeOK
    <2>5. RingsAgree' /\ Shape'
      BY <1>10, <2>1, <2>2 DEF Drain, IInv, RingsAgree, Shape
    <2>6. QED
      BY <2>4, <2>5 DEF IInv
  <1>11. CASE Return
    <2>1. TypeOK' /\ RingsAgree'
      BY <1>11 DEF Return, IInv, TypeOK, RingsAgree
    <2>2. QED
      BY <1>11, <2>1 DEF Return, QUEUE_EMPTY, IInv, Shape
  <1>12. QED
    BY <1>2, <1>4, <1>5, <1>7, <1>8, <1>9, <1>10, <1>11 DEF Handler

LEMMA Invariance == Spec => []IInv
  <1>1. IInv /\ [Next]_vars => IInv'
    <2>1. ASSUME IInv, UNCHANGED vars PROVE IInv'
      BY <2>1 DEF vars, screen, history, IInv, TypeOK, RingsAgree, Shape
    <2>2. QED
      BY <2>1, InterruptIInv, HandlerIInv DEF Next
  <1>2. QED
    BY <1>1, InitIInv, PTL DEF Spec

-----------------------------------------------------------------------------
(* The theorems. *)

\* The rings, the flags and the screen position stay in their ranges.
THEOREM TypeCorrect == Spec => []TypeOK
  BY Invariance, PTL DEF IInv

\* head, tail and count agree however the rings have been wrapped.
THEOREM RingsStayConsistent == Spec => []RingsAgree
  BY Invariance, PTL DEF IInv

\* The panic of on_keyboard_interrupt is unreachable.
THEOREM NoPanic == Spec => []KeyboardNeverPanics
  <1>1. IInv => KeyboardNeverPanics
    BY DEF IInv, Shape, KeyboardNeverPanics
  <1>2. QED
    BY <1>1, Invariance, PTL

\* Between two interrupts the queues hold at most the first byte of a pair.
THEOREM NothingLeftOver == Spec => []QueuesAtRest
  <1>1. IInv => QueuesAtRest
    <2> SUFFICES ASSUME IInv, pc = "idle" PROVE QueuesAtRest
      BY DEF QueuesAtRest
    <2> USE QueueAssumption
    <2>1. /\ read_q \in Queue /\ secondary.count = 0
          /\ read_q.count = IF half THEN 1 ELSE 0
          /\ half => Front(read_q) = Prefix
      BY DEF IInv, TypeOK, Shape
    <2>2. At(read_q, 0) = Front(read_q)
      BY <2>1 DEF At, Front, Queue, Cell
    <2>3. Content(secondary) = <<>>
      BY <2>1 DEF Content
    <2>4. half => Content(read_q) = <<Prefix>>
      BY <2>1, <2>2 DEF Content
    <2>5. ~half => Content(read_q) = <<>>
      BY <2>1 DEF Content
    <2>6. QED
      BY <2>3, <2>4, <2>5 DEF QueuesAtRest
  <1>2. QED
    BY <1>1, Invariance, PTL

-----------------------------------------------------------------------------
(* The handler implements the decoder. *)

AbsLast == IF ComingChar = 0 THEN last ELSE ComingChar
AbsLine == Scroll(ComingChar, line)
Abs == <<ComingFlags, AbsLast, AbsLine>>

\* What the queues hold in store, by the place of the handler.
StoreShape ==
    /\ secondary.count # 0 =>
         /\ secondary.count = 1 /\ Front(secondary) # 0
         /\ ComingChar = Front(secondary) /\ ComingFlags = kb_flag
    /\ secondary.count = 0 /\ (pc # "cook" \/ read_q.count = 0) =>
         ComingChar = 0 /\ ComingFlags = kb_flag
    /\ pc = "cook" /\ read_q.count # 0 =>
         /\ secondary.count = 0
         /\ ComingChar = IF Front(read_q) \in Printable
                         THEN Ascii(Front(read_q), kb_flag) ELSE 0
         /\ ComingFlags = IF /\ Front(read_q) \in ScanCode \ {Prefix}
                             /\ Key(Front(read_q)) \in Modifier
                          THEN Toggle(Front(read_q), kb_flag) ELSE kb_flag

LEMMA Store == IInv => StoreShape
  <1> SUFFICES ASSUME IInv PROVE StoreShape
    OBVIOUS
  <1>1. /\ read_q.count \in Nat /\ secondary.count \in Nat
    <2>1. read_q \in Queue /\ secondary \in Queue
      BY DEF IInv, TypeOK
    <2>2. QED
      BY <2>1, QueueAssumption DEF Queue
  <1>2. secondary.count # 0 =>
          /\ secondary.count = 1 /\ Front(secondary) # 0
          /\ pc # "cook" \/ read_q.count = 0
    BY <1>1 DEF IInv, Shape
  <1>3. \A code : Coming(code) <=>
          pc = "cook" /\ read_q.count # 0 /\ Front(read_q) = code
    BY DEF Coming, QUEUE_EMPTY
  <1>4. ComingFlags =
          IF /\ pc = "cook" /\ read_q.count # 0
             /\ Front(read_q) \in ScanCode \ {Prefix} /\ Key(Front(read_q)) \in Modifier
          THEN Toggle(Front(read_q), kb_flag) ELSE kb_flag
    BY <1>3 DEF ComingFlags
  <1>5. ComingChar =
          IF secondary.count # 0 THEN Front(secondary)
          ELSE IF pc = "cook" /\ read_q.count # 0 /\ Front(read_q) \in Printable
          THEN Ascii(Front(read_q), kb_flag) ELSE 0
    BY <1>3 DEF ComingChar, QUEUE_EMPTY
  <1>6. Front(read_q) \in Printable =>
          Front(read_q) # Prefix /\ Key(Front(read_q)) \notin Modifier
    BY CodeFacts
  <1>7. QED
    BY <1>1, <1>2, <1>4, <1>5, <1>6 DEF StoreShape

LEMMA StoreNext == IInv' => StoreShape'
  BY Store, PTL

\* A step of the handler leaves what is in store and what has taken effect
\* together unchanged.
LEMMA HandlerStutters ==
    ASSUME IInv, Handler
    PROVE  Abs' = Abs /\ UNCHANGED history
  <1> USE DEF screen, history
  <1>0. StoreShape /\ StoreShape'
    BY HandlerIInv, Store, StoreNext
  <1>2. ASSUME NEW n \in {read_q, secondary} PROVE n.count \in Nat
    <2>1. n \in Queue
      BY <1>2 DEF IInv, TypeOK
    <2>2. QED
      BY <2>1, QueueAssumption DEF Queue
  <1>3. ASSUME ComingFlags' = ComingFlags, ComingChar' = ComingChar,
               UNCHANGED screen
        PROVE  Abs' = Abs
    BY <1>3 DEF Abs, AbsLast, AbsLine
  <1>4. CASE CookDone
    <2>1. read_q.count = 0 /\ pc # "idle"
      BY <1>2, <1>4, QueueAssumption DEF CookDone, QUEUE_FULL, QUEUE_EMPTY, IInv, Shape
    <2>2. ComingFlags' = ComingFlags /\ ComingChar' = ComingChar
      BY <1>4, <2>1 DEF CookDone, ComingFlags, ComingChar, Coming, QUEUE_EMPTY
    <2>3. QED
      BY <1>3, <1>4, <2>2 DEF CookDone
  <1>5. CASE CookPrefixAlone
    <2>1. /\ pc = "cook" /\ read_q.count # 0 /\ Front(read_q) = Prefix
          /\ pc' = "drain" /\ UNCHANGED <<read_q, secondary, kb_flag, screen, history>>
      BY <1>5 DEF CookPrefixAlone, Cooking, QUEUE_EMPTY
    <2>2. Prefix \notin Printable
      BY ScanCodeAssumption
    <2>3. ComingChar = 0 /\ ComingFlags = kb_flag /\ secondary.count = 0
      BY <2>1, <2>2, <1>0 DEF StoreShape
    <2>4. ComingChar' = 0 /\ ComingFlags' = kb_flag'
      BY <2>1, <2>3, <1>0 DEF StoreShape
    <2>5. QED
      BY <1>3, <2>1, <2>3, <2>4
  <1>6. ASSUME Cooking
        PROVE  /\ pc = "cook" /\ read_q.count # 0 /\ secondary.count = 0
               /\ read_q' = QUEUE_DEQ(read_q) => read_q'.count = read_q.count - 1
               /\ Front(read_q) # Prefix => read_q.count = 1 /\ Front(read_q) \in ScanCode
    <2>1. pc = "cook" /\ read_q.count # 0 /\ secondary.count = 0
      BY <1>6, <1>0 DEF StoreShape, Cooking, QUEUE_EMPTY
    <2>2. QUEUE_DEQ(read_q).count = read_q.count - 1
      BY DEF QUEUE_DEQ
    <2>3. Front(read_q) # Prefix => read_q.count = 1 /\ Front(read_q) \in ScanCode
      BY <2>1 DEF IInv, Shape
    <2>4. QED
      BY <2>1, <2>2, <2>3
  <1>7. CASE CookPair
    <2>1. /\ Cooking /\ Front(read_q) = Prefix
          /\ UNCHANGED <<secondary, kb_flag, pc, screen, history>>
      BY <1>7 DEF CookPair
    <2>2. Prefix \notin Printable
      BY ScanCodeAssumption
    <2>3. ComingChar = 0 /\ ComingFlags = kb_flag
      BY <1>6, <2>1, <2>2, <1>0 DEF StoreShape
    <2>4. read_q.count = 2
      BY <1>6, <1>7, <2>1 DEF CookPair, QUEUE_DEQ, QUEUE_EMPTY, IInv, Shape
    <2>5. read_q'.count = 0
      BY <1>7, <2>4 DEF CookPair, QUEUE_DEQ
    <2>6. ComingChar' = 0 /\ ComingFlags' = kb_flag'
      BY <1>6, <2>1, <2>5, <1>0 DEF StoreShape
    <2>7. QED
      BY <1>3, <2>1, <2>3, <2>6
  <1>8. CASE CookModifier
    <2>1. /\ Cooking /\ Front(read_q) # Prefix /\ Key(Front(read_q)) \in Modifier
          /\ read_q' = QUEUE_DEQ(read_q) /\ kb_flag' = Toggle(Front(read_q), kb_flag)
          /\ UNCHANGED <<secondary, pc, screen, history>>
      BY <1>8 DEF CookModifier
    <2>2. Front(read_q) \notin Printable
      BY <2>1, CodeFacts
    <2>3. ComingChar = 0 /\ ComingFlags = Toggle(Front(read_q), kb_flag)
      BY <1>6, <2>1, <2>2, <1>0 DEF StoreShape
    <2>4. ComingChar' = 0 /\ ComingFlags' = kb_flag'
      BY <1>6, <2>1, <1>0 DEF StoreShape
    <2>5. QED
      BY <1>3, <2>1, <2>3, <2>4
  <1>9. CASE CookChar
    <2>1. /\ Cooking /\ Front(read_q) \in Printable /\ Front(read_q) # Prefix
          /\ secondary' = QUEUE_ENQ(secondary, Ascii(Front(read_q), kb_flag))
          /\ UNCHANGED <<kb_flag, pc, screen, history>>
      BY <1>9, CodeFacts DEF CookChar
    <2>2. ComingChar = Ascii(Front(read_q), kb_flag) /\ ComingFlags = kb_flag
      BY <1>0, <1>6, <2>1, CodeFacts DEF StoreShape
    <2>3. /\ secondary.count = 0 /\ secondary \in Queue /\ Agrees(secondary)
          /\ Ascii(Front(read_q), kb_flag) \in Byte
      BY <1>6, <2>1, CodeFacts DEF IInv, TypeOK, RingsAgree
    <2>4. secondary'.count = 1 /\ Front(secondary') = Ascii(Front(read_q), kb_flag)
      BY <2>1, <2>3, EnqAppends, EnqFront, QueueAssumption
    <2>5. ComingChar' = Front(secondary') /\ ComingFlags' = kb_flag'
      BY <2>4, <1>0 DEF StoreShape
    <2>6. QED
      BY <1>3, <2>1, <2>2, <2>4, <2>5
  <1>10. CASE CookNothing
    <2>1. /\ Cooking /\ Front(read_q) # Prefix /\ Key(Front(read_q)) \notin Modifier
          /\ Front(read_q) \notin Printable /\ read_q' = QUEUE_DEQ(read_q)
          /\ UNCHANGED <<secondary, kb_flag, pc, screen, history>>
      BY <1>10 DEF CookNothing
    <2>2. ComingChar = 0 /\ ComingFlags = kb_flag
      BY <1>6, <2>1, <1>0 DEF StoreShape
    <2>3. ComingChar' = 0 /\ ComingFlags' = kb_flag'
      BY <1>6, <2>1, <1>0 DEF StoreShape
    <2>4. QED
      BY <1>3, <2>1, <2>2, <2>3
  <1>11. CASE Drain
    <2>1. /\ pc = "drain" /\ secondary.count # 0
          /\ last' = Front(secondary) /\ line' = Scroll(last', line)
          /\ secondary' = QUEUE_DEQ(secondary)
          /\ UNCHANGED <<read_q, kb_flag, pc, history>>
      BY <1>11 DEF Drain, QUEUE_EMPTY
    <2>2. /\ secondary.count = 1 /\ Front(secondary) # 0
          /\ ComingChar = Front(secondary) /\ ComingFlags = kb_flag
      BY <2>1, <1>0 DEF StoreShape
    <2>3. secondary'.count = 0
      BY <2>1, <2>2 DEF QUEUE_DEQ
    <2>4. ComingChar' = 0 /\ ComingFlags' = kb_flag'
      BY <2>1, <2>3, <1>0 DEF StoreShape
    <2>5. AbsLast' = AbsLast
      BY <2>1, <2>2, <2>4 DEF AbsLast
    <2>6. AbsLine' = AbsLine
      BY <2>1, <2>2, <2>4, CodeFacts DEF AbsLine
    <2>7. QED
      BY <2>1, <2>2, <2>4, <2>5, <2>6 DEF Abs
  <1>12. CASE Return
    <2>1. /\ secondary.count = 0 /\ pc = "drain" /\ pc' = "idle"
          /\ UNCHANGED <<read_q, secondary, kb_flag, screen, history>>
      BY <1>12 DEF Return, QUEUE_EMPTY
    <2>2. ComingFlags' = ComingFlags /\ ComingChar' = ComingChar
      BY <2>1, <1>0 DEF StoreShape
    <2>3. QED
      BY <1>3, <2>1, <2>2
  <1>13. UNCHANGED history
    BY DEF Handler, CookDone, CookPrefixAlone, CookPair, CookModifier, CookChar,
           CookNothing, Drain, Return
  <1>14. QED
    BY <1>4, <1>5, <1>7, <1>8, <1>9, <1>10, <1>11, <1>12, <1>13 DEF Handler

\* A byte that arrives is decoded by one step of the decoder.
LEMMA InterruptDecodes ==
    ASSUME IInv, NEW code \in ScanCode, KeyboardInterrupt(code)
    PROVE  Decoder!Next
  <1>0. StoreShape /\ StoreShape'
    BY InterruptIInv, Store, StoreNext
  <1>2. /\ read_q \in Queue /\ Agrees(read_q) /\ code \in Byte /\ pc = "idle"
        /\ secondary.count = 0 /\ read_q.count = IF half THEN 1 ELSE 0
        /\ half => Front(read_q) = Prefix
    <2>1. secondary \in Queue
      BY DEF IInv, TypeOK
    <2>2. secondary.count \in Nat
      BY <2>1, QueueAssumption DEF Queue
    <2>3. QED
      BY <2>2, ScanCodeAssumption DEF IInv, TypeOK, RingsAgree, Shape, KeyboardInterrupt
  <1>3. ~QUEUE_FULL(read_q)
    BY <1>2, QueueAssumption DEF QUEUE_FULL
  <1>4. /\ read_q' = QUEUE_ENQ(read_q, code) /\ pc' = "cook"
        /\ input' = code /\ half' = (~half /\ code = Prefix)
        /\ UNCHANGED <<secondary, kb_flag, last, line>>
    BY <1>3 DEF KeyboardInterrupt, screen
  <1>5. /\ read_q'.count # 0
        /\ Front(read_q') = IF half THEN Prefix ELSE code
    BY <1>2, <1>4, QueueAssumption, EnqAppends, EnqFront
  <1>6. ComingChar = 0 /\ ComingFlags = kb_flag /\ AbsLast = last /\ AbsLine = line
    BY <1>2, <1>0, CodeFacts DEF StoreShape, AbsLast, AbsLine
  <1>7. Prefix \notin Printable
    BY ScanCodeAssumption
  <1>14. ~half /\ code # Prefix => half' = half
    <2>1. half \in BOOLEAN
      BY DEF IInv, TypeOK
    <2>2. QED
      BY <1>4, <2>1
  <1>15. /\ \A c : Decoder!Key(c) = Key(c)
         /\ \A c, mods : /\ Decoder!Toggle(c, mods) = Toggle(c, mods)
                         /\ Decoder!Ascii(c, mods) = Ascii(c, mods)
         /\ \A c, at : Decoder!Scroll(c, at) = Scroll(c, at)
    BY DEF Decoder!Key, Decoder!Toggle, Decoder!Released, Decoder!Ascii, Decoder!Scroll,
           Key, Toggle, Released, Ascii, Scroll
  <1>8. CASE half
    <2>1. ComingChar' = 0 /\ ComingFlags' = kb_flag
      BY <1>4, <1>5, <1>7, <1>8, <1>0 DEF StoreShape
    <2>2. half' = FALSE /\ Abs' = Abs
      BY <1>4, <1>6, <1>8, <2>1, CodeFacts DEF Abs, AbsLast, AbsLine
    <2>3. Decoder!SecondOfPair
      BY <1>8, <2>2 DEF Decoder!SecondOfPair, Abs, AbsLast, AbsLine
    <2>4. QED
      BY <1>4, <2>3 DEF Decoder!Next
  <1>9. CASE ~half /\ code = Prefix
    <2>1. ComingChar' = 0 /\ ComingFlags' = kb_flag
      BY <1>4, <1>5, <1>7, <1>9, <1>0 DEF StoreShape
    <2>2. half' = TRUE /\ Abs' = Abs
      BY <1>4, <1>6, <1>9, <2>1, CodeFacts DEF Abs, AbsLast, AbsLine
    <2>3. Decoder!FirstOfPair(code)
      BY <1>9, <2>2 DEF Decoder!FirstOfPair, Abs, AbsLast, AbsLine
    <2>4. QED
      BY <1>4, <2>3 DEF Decoder!Next
  <1>10. CASE ~half /\ code # Prefix /\ Key(code) \in Modifier
    <2>1. code \notin Printable
      BY <1>10, CodeFacts
    <2>2. ComingChar' = 0 /\ ComingFlags' = Toggle(code, kb_flag)
      BY <1>4, <1>5, <1>10, <2>1, <1>0 DEF StoreShape
    <2>3. AbsLast' = AbsLast /\ AbsLine' = AbsLine
      BY <1>4, <1>6, <1>10, <2>2, CodeFacts DEF AbsLast, AbsLine
    <2>4. Decoder!ModifierKey(code)
      BY <1>6, <1>10, <1>14, <1>15, <2>2, <2>3 DEF Decoder!ModifierKey, AbsLast, AbsLine
    <2>5. QED
      BY <1>4, <2>4 DEF Decoder!Next
  <1>11. CASE ~half /\ code \in Printable
    <2>1. code # Prefix /\ Ascii(code, kb_flag) # 0
      BY <1>11, CodeFacts
    <2>2. ComingChar' = Ascii(code, kb_flag) /\ ComingFlags' = kb_flag
      BY CodeFacts, <1>4, <1>5, <1>11, <1>0 DEF StoreShape
    <2>3. /\ AbsLast' = Ascii(code, kb_flag)
          /\ AbsLine' = Scroll(Ascii(code, kb_flag), line)
      BY <1>4, <1>11, <2>1, <2>2 DEF AbsLast, AbsLine
    <2>4. Decoder!Press(code)
      BY <1>6, <1>11, <1>14, <1>15, <2>1, <2>2, <2>3 DEF Decoder!Press, AbsLast, AbsLine
    <2>5. QED
      BY <1>4, <2>4 DEF Decoder!Next
  <1>12. CASE /\ ~half /\ code # Prefix
              /\ Key(code) \notin Modifier /\ code \notin Printable
    <2>1. ComingChar' = 0 /\ ComingFlags' = kb_flag
      BY <1>4, <1>5, <1>12, <1>0 DEF StoreShape
    <2>2. Abs' = Abs
      BY <1>4, <1>6, <1>12, <2>1, CodeFacts DEF Abs, AbsLast, AbsLine
    <2>3. Decoder!NoEffect(code)
      BY <1>12, <1>14, <1>15, <2>2 DEF Decoder!NoEffect, Abs, AbsLast, AbsLine
    <2>4. QED
      BY <1>4, <2>3 DEF Decoder!Next
  <1>13. QED
    BY <1>8, <1>9, <1>10, <1>11, <1>12

\* For every stream of bytes each byte takes effect once and in order.
THEOREM TtyIsDecoder == Spec => ImplementsDecoder
  <1>1. Init => Decoder!Init
    <2> SUFFICES ASSUME Init PROVE Decoder!Init
      OBVIOUS
    <2>1. IInv /\ secondary.count = 0 /\ pc = "idle"
      BY InitIInv, InitQueue DEF Init
    <2>2. ComingChar = 0 /\ ComingFlags = kb_flag
      BY <2>1, Store DEF StoreShape
    <2>3. QED
      BY <2>2, CodeFacts DEF Init, Decoder!Init
  <1>2. IInv /\ [Next]_vars => [Decoder!Next]_(Decoder!vars)
    <2> SUFFICES ASSUME IInv, [Next]_vars PROVE [Decoder!Next]_(Decoder!vars)
      OBVIOUS
    <2>1. ASSUME NEW code \in ScanCode, KeyboardInterrupt(code) PROVE Decoder!Next
      BY <2>1, InterruptDecodes
    <2>2. CASE Handler
      BY <2>2, HandlerStutters DEF Abs, AbsLast, AbsLine, history, Decoder!vars
    <2>3. CASE UNCHANGED vars
      BY <2>3 DEF vars, screen, history, Decoder!vars, ComingChar, ComingFlags, Coming,
                  QUEUE_EMPTY
    <2>4. QED
      BY <2>1, <2>2, <2>3 DEF Next
  <1>3. QED
    BY <1>1, <1>2, Invariance, PTL DEF Spec, ImplementsDecoder, Decoder!Spec
=============================================================================
