------------------------------ MODULE Keyboard ------------------------------
(***************************************************************************)
(* The keyboard interrupt up to the character it types                     *)
(* (src/arch/x86/hw/ps2.c, ps2cs.h, src/sys/ctype.c).                      *)
(***************************************************************************)
EXTENDS Integers

CONSTANTS
    Plain, Alt,   \* x86_ps2_scan and x86_ps2_scan_alt: a character for each scan code
    Capital       \* pairs of a small letter and its capital

LShift == "lshift"
RShift == "rshift"
ShiftDown == {LShift, RShift}
ReleaseOf(shift) == IF shift = LShift THEN "lshift up" ELSE "rshift up"
ShiftUp   == {ReleaseOf(shift) : shift \in ShiftDown}
CapsLock  == "caps lock"

\* ps2_flags
NoKeys == [shift |-> FALSE, caps |-> FALSE]

ToggleCase(c) ==
    IF \E p \in Capital : p[2] = c THEN (CHOOSE p \in Capital : p[2] = c)[1]
    ELSE IF \E p \in Capital : p[1] = c THEN (CHOOSE p \in Capital : p[1] = c)[2]
    ELSE c

\* ps2_lookup_char
LookupChar(flags, scan) ==
    LET c == IF flags.shift THEN Alt[scan] ELSE Plain[scan]
    IN  IF flags.caps THEN ToggleCase(c) ELSE c

\* Mutant: only the left key ends the shift.
Flags_OneUp(flags, code) ==
    CASE code \in ShiftDown -> [flags EXCEPT !.shift = TRUE]
      [] code = ReleaseOf(LShift) -> [flags EXCEPT !.shift = FALSE]
      [] code = CapsLock -> [flags EXCEPT !.caps = ~@]
      [] OTHER -> flags

\* x86_irq_handler_1: the shift that is down is one flag for both keys.
Flags(flags, code) ==
    CASE code \in ShiftDown -> [flags EXCEPT !.shift = TRUE]
      [] code \in ShiftUp -> [flags EXCEPT !.shift = FALSE]
      [] code = CapsLock -> [flags EXCEPT !.caps = ~@]
      [] OTHER -> flags

Types(code) == code \in DOMAIN Plain
=============================================================================
