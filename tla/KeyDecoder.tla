----------------------------- MODULE KeyDecoder -----------------------------
(***************************************************************************)
(* What the keyboard path promises: every byte the keyboard sends takes    *)
(* effect once, when it arrives, in the order of arrival.  A prefix byte   *)
(* and the byte behind it are one code without effect; modifier keys set   *)
(* and clear flags; a press of a printable key delivers its character to   *)
(* the screen.                                                             *)
(***************************************************************************)
EXTENDS ScanCodes

VARIABLES
    input,      \* last byte sent
    half,       \* it was the first of a pair
    held,       \* modifier keys that are held
    last,       \* last character delivered, 0 at first
    line        \* screen position

vars == <<input, half, held, last, line>>

Init == input = 0 /\ half = FALSE /\ held = {} /\ last = 0 /\ line = 0

FirstOfPair(code) ==
    /\ ~half /\ code = Prefix
    /\ half' = TRUE
    /\ UNCHANGED <<held, last, line>>

SecondOfPair ==
    /\ half /\ half' = FALSE
    /\ UNCHANGED <<held, last, line>>

ModifierKey(code) ==
    /\ ~half /\ code # Prefix /\ Key(code) \in Modifier
    /\ held' = Toggle(code, held)
    /\ UNCHANGED <<half, last, line>>

Press(code) ==
    /\ ~half /\ code \in Printable
    /\ last' = Ascii(code, held)
    /\ line' = Scroll(last', line)
    /\ UNCHANGED <<half, held>>

\* A release, or a key without a character.
NoEffect(code) ==
    /\ ~half /\ code # Prefix
    /\ Key(code) \notin Modifier /\ code \notin Printable
    /\ UNCHANGED <<half, held, last, line>>

Next ==
    \E code \in ScanCode :
        /\ input' = code
        /\ FirstOfPair(code) \/ SecondOfPair \/ ModifierKey(code)
           \/ Press(code) \/ NoEffect(code)

Spec == Init /\ [][Next]_vars
=============================================================================
