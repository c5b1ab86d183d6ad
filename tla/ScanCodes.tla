----------------------------- MODULE ScanCodes ------------------------------
(* Scan codes of the keyboard and what the tables of kernel/keyboard.c make *)
(* of them.  A character is its index in the ascii table.                   *)
EXTENDS Integers

CONSTANTS
    ScanCode,       \* bytes the keyboard sends
    Prefix,         \* 0xe0
    Modifier,       \* key codes of KEY_CTRL_L, KEY_SHIFT_L, KEY_ALT_L
    Shift,          \* KEY_SHIFT_L
    Printable,      \* key codes whose character isprint accepts
    Down, Up,       \* 'j' and 'J', 'k' and 'K'
    NR_LINES        \* bound: the screen position is counted modulo this

Byte == 0 .. 255

\* The tables have no character for key 0 and for the modifier keys.
ASSUME ScanCodeAssumption ==
    /\ ScanCode \subseteq Byte /\ Prefix \in 128 .. 255
    /\ Modifier \subseteq 0 .. 127 /\ Printable \subseteq 1 .. 127
    /\ Modifier \cap Printable = {}
    /\ 0 \notin Down \cup Up
    /\ NR_LINES \in Nat \ {0}

Released(code) == code >= 128
Key(code) == code % 128

\* kb_ascii: a row per key code, the second column with shift.
Ascii(code, mods) == 2 * code + (IF Shift \in mods THEN 1 ELSE 0)

Toggle(code, mods) ==
    IF Released(code) THEN mods \ {Key(code)} ELSE mods \cup {Key(code)}

Scroll(c, at) ==
    IF c \in Down THEN (at + 3) % NR_LINES
    ELSE IF c \in Up THEN (at - 3) % NR_LINES
    ELSE at
=============================================================================
