----------------------------- MODULE FileStore -----------------------------
(***************************************************************************)
(* What the file system promises of the disk, seen as a reboot would find  *)
(* it: named files with contents.  One call runs at a time.  Creating a    *)
(* file is one step.  A write shows up cell by cell in the part of the     *)
(* file that exists, and the file grows only with the last step of the     *)
(* call, when everything asked for is there.  A crash or a panic ends the  *)
(* call and changes no file.                                               *)
(***************************************************************************)
EXTENDS Naturals, Sequences

CONSTANTS Name, Value

VARIABLES
    files,      \* function from the names that exist to sequences of cells
    call        \* the write in progress: [name, pos, buf], or NoCall

vars == <<files, call>>
NoCall == [name |-> {}, pos |-> 0, buf |-> << >>]

Asked(c) == c.pos + 1 .. c.pos + Len(c.buf)

\* contents f with the cells in S as the call asks
Stored(f, c, S) ==
    [k \in 1 .. Len(f) |-> IF k \in S THEN c.buf[k - c.pos] ELSE f[k]]

\* contents f after all of the call
Written(f, c) ==
    [k \in 1 .. (IF c.pos + Len(c.buf) > Len(f) THEN c.pos + Len(c.buf)
                 ELSE Len(f)) |->
        IF k \in Asked(c) THEN c.buf[k - c.pos] ELSE f[k]]

Init == files = << >> /\ call = NoCall

Create ==
    \E n \in Name \ DOMAIN files :
        /\ files' = [m \in DOMAIN files \cup {n} |->
                        IF m = n THEN << >> ELSE files[m]]
        /\ UNCHANGED call

Begin ==
    /\ call = NoCall
    /\ call'.name \in DOMAIN files
    /\ call'.pos \in 0 .. Len(files[call'.name])
    /\ call'.buf \in Seq(Value) \ {<< >>}
    /\ UNCHANGED files

Overwrite ==
    /\ call # NoCall
    /\ \E S \in SUBSET (Asked(call) \cap 1 .. Len(files[call.name])) :
        files' = [files EXCEPT ![call.name] = Stored(@, call, S)]
    /\ UNCHANGED call

End ==
    /\ call # NoCall
    /\ files' = [files EXCEPT ![call.name] = Written(@, call)]
    /\ call' = NoCall

\* a panic or a crash in the call
Abandon == call # NoCall /\ call' = NoCall /\ UNCHANGED files

Next == Create \/ Begin \/ Overwrite \/ End \/ Abandon

Spec == Init /\ [][Next]_vars
=============================================================================
