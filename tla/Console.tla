------------------------------ MODULE Console ------------------------------
(***************************************************************************)
(* The screen in text mode (src/arch/x86/hw/console.c): a record of the    *)
(* cells and of the cursor. Characters below ' ' other than a new line and *)
(* a backspace are shown as "?", and so are those above 127.               *)
(***************************************************************************)
EXTENDS Integers, Sequences, SequencesExt, FiniteSetsExt

CONSTANTS
    Width, Height,   \* con_width and con_height: 80 and 25
    Printable        \* the characters from ' ' on

ASSUME ConsoleAssumption == Width \in Nat /\ Width > 1 /\ Height \in Nat /\ Height > 1

Blank     == "blank"
NewLine   == "newline"
BackSpace == "backspace"

ASSUME PrintableAssumption == NewLine \notin Printable /\ BackSpace \notin Printable

Row == 0..Height - 1
Col == 0..Width - 1

\* x86_con_init
EmptyScreen == [cell |-> [p \in Row \X Col |-> Blank], x |-> 0, y |-> 0]

\* x86_con_scroll: every line moves up, the last one is cleared.
Scroll(s) ==
    [s EXCEPT !.cell = [p \in Row \X Col |-> IF p[1] < Height - 1 THEN @[<<p[1] + 1, p[2]>>] ELSE Blank]]

\* Mutant: the cursor stays in the last line when it has scrolled.
KeepAbove_Late(s) == IF s.y = Height - 1 THEN Scroll(s) ELSE s

\* The last line is never written: the lines above it move up instead.
KeepAbove(s) == IF s.y = Height - 1 THEN Scroll([s EXCEPT !.y = Height - 2]) ELSE s

\* The last column is never written either: the cursor goes to the next line.
Wrap(s) == IF s.x = Width - 1 THEN [s EXCEPT !.x = 0, !.y = @ + 1] ELSE s

Show(s, c) == LET k == KeepAbove(Wrap(s)) IN [k EXCEPT !.cell[<<k.y, k.x>>] = c, !.x = @ + 1]

\* x86_con_putc
PutChar(s, c) ==
    CASE c = NewLine -> KeepAbove([s EXCEPT !.x = 0, !.y = @ + 1])
      [] c = BackSpace -> IF s.x = 0 THEN s ELSE [s EXCEPT !.cell[<<s.y, s.x - 1>>] = Blank, !.x = @ - 1]
      [] OTHER    -> Show(s, IF c \in Printable THEN c ELSE "?")

-----------------------------------------------------------------------------
(***************************************************************************)
(* What one expects to see: the end of the text, in lines of Width - 1.    *)
(***************************************************************************)
Typed(lines, c) ==
    LET last == lines[Len(lines)]
        up   == SubSeq(lines, 1, Len(lines) - 1)
    IN  CASE c = NewLine -> Append(lines, <<>>)
          [] c = BackSpace -> Append(up, IF last = <<>> THEN last ELSE SubSeq(last, 1, Len(last) - 1))
          [] OTHER    -> LET d == IF c \in Printable THEN c ELSE "?"
                         IN  IF Len(last) = Width - 1 THEN Append(lines, <<d>>)
                             ELSE Append(up, Append(last, d))

EndOf(lines) ==
    LET shown == SubSeq(lines, Max({1, Len(lines) - Height + 2}), Len(lines))
    IN  [cell |-> [p \in Row \X Col |->
                      IF p[1] < Len(shown) /\ p[2] < Len(shown[p[1] + 1]) THEN shown[p[1] + 1][p[2] + 1]
                      ELSE Blank],
         x |-> Len(shown[Len(shown)]), y |-> Len(shown) - 1]
=============================================================================
