------------------------------ MODULE Formats ------------------------------
(***************************************************************************)
(* Numbers and formats: debugf of the kernel (src/sys/debug.c), printf of  *)
(* the programs (usr/lib/posix/vsnprintf.c), and the helpers that read and *)
(* write numbers. A number is its bits, from 0 on; a text is the sequence  *)
(* of its characters.                                                      *)
(***************************************************************************)
EXTENDS Integers, Sequences, SequencesExt

CONSTANTS IntBits, LongBits   \* 32 and 64

ASSUME FormatsAssumption == IntBits \in Nat \ {0} /\ LongBits \in Nat /\ LongBits > IntBits

Null   == <<"null">>   \* a string that is not there
Nul    == "nul"        \* a byte of zero
Digits == <<"0", "1", "2", "3", "4", "5", "6", "7", "8", "9", "a", "b", "c", "d", "e", "f">>
Capitals == SubSeq(Digits, 1, 10) \o <<"A", "B", "C", "D", "E", "F">>

Repeated(c, n) == [i \in 1..n |-> c]
Signed(x, bits) == IF x >= 2^(bits - 1) THEN x - 2^bits ELSE x

\* debug_xs, and debug_ds without a sign: the digits from the lowest on, turned round.
Number(v, base, set) ==
    LET low[n \in Nat] == IF n = 0 THEN <<>> ELSE <<set[(n % base) + 1]>> \o low[n \div base]
    IN  IF v = 0 THEN <<"0">> ELSE Reverse(low[v])

\* debug_ds with a sign. The least int has no negative in an int: what the
\* overflow makes is widened with its sign, or was computed in 64 bits.
SignedTexts(x, bits) ==
    LET n == Signed(x, bits)
    IN  IF n >= 0 THEN {Number(x, 10, Digits)}
        ELSE {<<"-">> \o Number(v, 10, Digits) :
                v \in {-n} \cup IF bits = IntBits /\ n = -2^(bits - 1) THEN {2^LongBits + n} ELSE {}}

-----------------------------------------------------------------------------
(***************************************************************************)
(* A format is a sequence of characters and directives. The flags are the  *)
(* "0" and "-" that stand before the width, in their order.                *)
(***************************************************************************)
Given(conv, flags, width, num, text) ==
    [conv |-> conv, flags |-> flags, width |-> width, long |-> FALSE, num |-> num, text |-> text]
Char(c) == Given("plain", <<>>, 0, 0, <<c>>)
String(flags, width, text) == Given("s", flags, width, 0, text)
Numeral(flags, width, conv, num) == Given(conv, flags, width, num, <<>>)

Letter(d) == IF d.conv = "X" THEN Capitals ELSE Digits
StringOf(s) == IF s = Null THEN <<"(", "n", "u", "l", "l", ")">> ELSE s

\* Mutant: the text is put on the wrong side.
Padded_Right(text, fill, n, left) ==
    LET pad == Repeated(fill, n - Len(text)) IN IF left THEN pad \o text ELSE text \o pad

\* debugspl and debugspr
Padded(text, fill, n, left) ==
    LET pad == Repeated(fill, n - Len(text)) IN IF left THEN text \o pad ELSE pad \o text

\* debugfv: the texts a directive may print. A "0" is not skipped before a "-" is
\* looked for, so that "%0-" is no directive.
KernelTexts(d) ==
    LET bits  == IF d.long THEN LongBits ELSE IntBits
        first == IF d.flags = <<>> THEN "" ELSE d.flags[1]
        In(text) == Padded(text, IF first = "0" THEN "0" ELSE " ", d.width, first = "-")
    IN  CASE d.conv = "plain" -> {d.text}
          [] d.flags = <<"0", "-">> -> {<<"%", "-">> \o Number(d.width, 10, Digits) \o <<d.conv>>}
          [] d.conv = "d" -> {In(text) : text \in SignedTexts(d.num, bits)}
          [] d.conv = "u" -> {In(Number(d.num, 10, Digits))}
          [] d.conv \in {"x", "X"} -> {In(Number(d.num, 16, Letter(d)))}
          [] d.conv = "p" -> {<<"0", "x">> \o Padded(Number(d.num, 16, Digits), "0", bits \div 4, FALSE)}
          [] d.conv = "c" -> {d.text}
          [] d.conv = "s" -> {In(StringOf(d.text))}
          [] OTHER -> {<<"%", d.conv>>}

KernelFormat(f) == FoldLeft(LAMBDA texts, d : {a \o b : a \in texts, b \in KernelTexts(d)}, {<<>>}, f)

-----------------------------------------------------------------------------
\* vsnprintf writes to a buffer of some length; once it is full, it is done. The field
\* wild is there when it has copied far beyond the buffer.
Buffer(len) == [text |-> <<>>, len |-> len, done |-> FALSE, wild |-> FALSE]

\* The macro __putc. A buffer whose last byte is filled already is not full for it.
PutC(b, c) ==
    IF b.done THEN b
    ELSE IF Len(b.text) = b.len - 1 THEN [b EXCEPT !.done = TRUE]
    ELSE [b EXCEPT !.text = Append(@, c)]

\* One memset or strncpy of __puts. It may fill the last byte, where the end of
\* the text belongs; after that what is left of the buffer is a huge number.
PutPart(b, text) ==
    IF b.done THEN b
    ELSE IF Len(b.text) + Len(text) < b.len + 1 THEN [b EXCEPT !.text = @ \o text]
    ELSE IF Len(b.text) >= b.len THEN [b EXCEPT !.done = TRUE, !.wild = TRUE]
    ELSE [b EXCEPT !.text = @ \o SubSeq(text, 1, b.len - 1 - Len(@)), !.done = TRUE]

\* The macro __puts
PutS(b, text, fill, width, left) ==
    LET pad == Repeated(fill, width - Len(text))
    IN  IF left THEN PutPart(PutPart(b, text), pad) ELSE PutPart(PutPart(b, pad), text)

UserDirective(b, d) ==
    LET fill == IF d.flags # <<>> /\ d.flags[1] = "0" THEN "0" ELSE " "
        left == \E i \in DOMAIN d.flags : d.flags[i] = "-"
        In(text) == PutS(b, text, fill, d.width, left)
    IN  CASE d.conv \in {"plain", "c"} -> PutC(b, d.text[1])
          [] d.conv = "d" -> In(IF Signed(d.num, IntBits) < 0 THEN <<"-">> \o Number(-Signed(d.num, IntBits), 10, Digits)
                                ELSE Number(d.num, 10, Digits))
          [] d.conv = "u" -> In(Number(d.num, 10, Digits))
          [] d.conv \in {"x", "X"} -> In(Number(d.num, 16, Letter(d)))
          [] d.conv = "p" -> PutS(PutC(PutC(b, "0"), "x"), Number(d.num, 16, Digits), "0", IntBits \div 4, FALSE)
          [] d.conv = "s" -> In(StringOf(d.text))
          [] OTHER -> PutC(PutC(b, "%"), d.conv)

\* vsnprintf
UserFormat(f, len) == FoldLeft(UserDirective, Buffer(len), f)

-----------------------------------------------------------------------------
\* fmtsiz: halves of a unit are still shown in the unit below.
Powers == <<"k", "M", "G", "T", "P", "E", "?", "?", "?">>
FmtSiz(sz) ==
    LET down[n \in Nat] == IF n = 0 THEN [f |-> sz, r |-> 0, pwr |-> 0]
                           ELSE LET s == down[n - 1]
                                IN  IF s.f < 1536 THEN s
                                    ELSE [f |-> s.f \div 1024, r |-> ((s.f % 1024) * 10) \div 1024, pwr |-> s.pwr + 1]
        end == down[4]
    IN  Number(end.f, 10, Digits)
        \o (IF end.pwr = 0 THEN <<>> ELSE <<".", Digits[end.r + 1], Powers[end.pwr], "i">>) \o <<"B">>

ValueOf(c) == (CHOOSE i \in 1..10 : Digits[i] = c) - 1
IsDigit(c) == \E i \in 1..10 : Digits[i] = c

\* atoi, up to the first character that is no digit; it knows no sign.
Atoi(s) ==
    LET Step(a, c) == IF a.end \/ ~IsDigit(c) THEN [a EXCEPT !.end = TRUE] ELSE [a EXCEPT !.r = 10 * @ + ValueOf(c)]
    IN  FoldLeft(Step, [r |-> 0, end |-> FALSE], s).r

\* tar_oct2u32: bytes of zero, wherever they are, are left out.
Octal(s) == FoldLeft(LAMBDA r, c : IF c = Nul THEN r ELSE 8 * r + ValueOf(c), 0, s)

-----------------------------------------------------------------------------
(***************************************************************************)
(* What a format should print.                                             *)
(***************************************************************************)
IntegerText(n) == IF n < 0 THEN <<"-">> \o Number(-n, 10, Digits) ELSE Number(n, 10, Digits)

Body(d) ==
    CASE d.conv = "d" -> IntegerText(Signed(d.num, IF d.long THEN LongBits ELSE IntBits))
      [] d.conv = "u" -> IntegerText(d.num)
      [] d.conv \in {"x", "X"} -> Number(d.num, 16, Letter(d))
      [] d.conv = "s" -> StringOf(d.text)
      [] d.conv = "p" -> LET v == Number(d.num, 16, Digits)
                         IN  <<"0", "x">> \o Repeated("0", (IF d.long THEN LongBits ELSE IntBits) \div 4 - Len(v)) \o v
      [] OTHER -> d.text

\* Whether the padding comes behind
Left(d) == \E i \in DOMAIN d.flags : d.flags[i] = "-"
WantedText(d) ==
    LET body == Body(d)
        missing == d.width - Len(body)
    IN  CASE d.conv = "p" -> body
          [] Left(d) -> body \o Repeated(" ", missing)
          [] d.flags = <<"0">> /\ body[1] = "-" -> <<"-">> \o Repeated("0", missing) \o Tail(body)
          [] d.flags = <<"0">> -> Repeated("0", missing) \o body
          [] OTHER -> Repeated(" ", missing) \o body

Wanted(f) == FlattenSeq([i \in 1..Len(f) |-> WantedText(f[i])])

\* Where one of the parts that are copied at once ends.
Ends(f) ==
    UNION {LET before == Len(Wanted(SubSeq(f, 1, k - 1)))
               all    == Len(WantedText(f[k]))
           IN  {before + all, before + IF Left(f[k]) THEN Len(Body(f[k])) ELSE all - Len(Body(f[k]))} : k \in 1..Len(f)}

\* Where both are known to differ from it: zeros go before the sign, "%0-" is not
\* understood or pads with zeros behind the number, and the least int.
Known(d) ==
    \/ d.flags = <<"0", "-">>
    \/ d.conv = "d" /\ d.flags = <<"0">> /\ Signed(d.num, IF d.long THEN LongBits ELSE IntBits) < 0
    \/ d.conv = "d" /\ ~d.long /\ d.num = 2^(IntBits - 1)
=============================================================================
