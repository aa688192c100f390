------------------------------ MODULE MCShell ------------------------------
(* An instance of Shell for TLC. *)
EXTENDS Shell

\* Tasks differ only in their names.
TaskSymmetry == Permutations(Task)

\* What a machine has that does nothing of interest.
Bare == [archive |-> <<>>, paths |-> {}, modes |-> {}, lengths |-> {}, texts |-> {}, programs |-> {}, tasks |-> 1, fds |-> 2,
         printed |-> 0, keys |-> <<>>, contents |-> <<>>, tries |-> FALSE]

\* The ramdisk as the build makes it, with the directories bin and etc. The first
\* file ends in the middle of a block, the second at the end of one.
Built == [Bare EXCEPT
    !.archive = << Directory(<<"bin">>), File(<<"bin", "init">>, 3), File(<<"bin", "cpuid">>, 2),
                   Directory(<<"etc">>), File(<<"etc", "network.conf">>, 1) >>,
    !.programs = { <<"bin", "init">>, <<"bin", "cpuid">> },
    !.paths   = { <<"", "bin", "init">>, <<"", "bin">> },
    !.modes   = {{"rd"}}, !.lengths = {2}, !.tasks = 2 ]

\* An empty file, a directory in a directory, directories whose names begin alike, a
\* directory at the end.
Odd == [Bare EXCEPT
    !.archive = << File(<<"a">>, 0), Directory(<<"bin">>), File(<<"bin", "x">>, 4),
                   Directory(<<"bin2">>), Directory(<<"bin2", "d">>),
                   File(<<"bin2", "d", "x">>, 1), Directory(<<"etc">>) >>,
    !.paths   = { Root, <<"", "bin">>, <<"", "bin2">>, <<"", "bin2", "d", "x">>, <<"", "a">>, <<"", "dev">>,
                  <<"dev", "zero">>, <<"dev">> },
    !.modes   = {{"rd"}}, !.lengths = {3} ]

\* Slashes in front and at the end, and neither; an empty path.
Slashes == [Bare EXCEPT
    !.archive = Odd.archive, !.fds = 1,
    !.paths   = { <<"", "bin", "">>, <<"", "bin2", "">>, <<"", "", "bin">>, <<"bin", "x">>, <<"xbin", "x">>, <<"x">>, <<"">> },
    !.modes   = {{"rd"}}, !.lengths = {3} ]

\* A program that only writes, to terminals and to what cannot be written.
Writer == [Bare EXCEPT
    !.archive = << Directory(<<"bin">>), File(<<"bin", "x">>, 1) >>,
    !.paths   = { <<"", "dev", "ttyS0">>, <<"", "dev", "null">>, <<"", "bin", "x">> },
    !.modes   = {{"wr"}}, !.printed = 5,
    !.texts   = { <<"x">>, <<BackSpace>>, <<"escape", NewLine>> } ]

\* The shell with a file and a directory, and somebody at the keyboard: who looks at
\* files; who takes back what he typed, with both shift keys; who runs programs.
Session == [Bare EXCEPT
    !.archive  = << File(<<"x">>, 5), Directory(<<"d">>), File(<<"d", "y">>, 4) >>,
    !.contents = <<"x">> :> <<"y", "y", "tab", "x", "y">> @@ <<"d", "y">> :> <<"x", "x", "y", NewLine>>,
    !.programs = {<<"x">>}, !.texts = {<<"y", NewLine>>}, !.tasks = 2, !.fds = 3, !.printed = 60 ]
Looking == [Session EXCEPT !.keys =
    << {"h", "c", "l"}, {"space", NewLine}, {"/", "x"}, {"x", "d", BackSpace}, {NewLine, "q"}, {"p", NewLine}, {NewLine} >>]
Typing == [Session EXCEPT !.keys =
    << {"e", LShift, BackSpace}, {"space", RShift, CapsLock}, {"x", LShift, ReleaseOf(LShift)},
       {"y", BackSpace, CapsLock, ReleaseOf(RShift), "tab"}, {"x", BackSpace, ReleaseOf(LShift)}, {"x", "space", NewLine}, {"x", NewLine} >>]
Running == [Session EXCEPT !.keys =
    << {"/", "p", "q"}, {"x", NewLine}, {"x", NewLine, "space"}, {NewLine, BackSpace}, {NewLine, "/"}, {NewLine} >>]

Numbers == {0, 1, 9, 10, 127, 128, 200, 255}
Flags3 == {<<>>, <<"0">>, <<"-">>, <<"-", "0">>, <<"0", "-">>}
Single == {<<Numeral(f, w, c, n)>> : f \in Flags3, w \in {0, 2, 4}, c \in {"d", "u", "x", "X"}, n \in Numbers}
Long   == {<<[Numeral(f, 6, c, n) EXCEPT !.long = TRUE]>> : f \in Flags3, c \in {"d", "u", "x", "p"}, n \in Numbers \cup {32768, 65535}}
Texts  == {<<Char("x"), String(f, w, s), Char("y"), Given("c", <<>>, 0, 0, <<"z">>)>> :
            f \in {<<>>, <<"-">>}, w \in {0, 3}, s \in {<<>>, <<"a", "b">>, Null}}
Desk == [Bare EXCEPT !.tries = TRUE]
MCDirectives == Single \cup Long \cup Texts
MCBuffers == {3, 5, 20}
MCSizes == (0..40) \cup {1023, 1024, 1535, 1536, 1537, 10240, 1572863, 1572864, 99999999}

MCMachine == {Built, Odd, Slashes, Writer, Looking, Typing, Running, Desk}
MCLonger == { <<"bin", "bin2">> }
MCLetters == {"x", "y", "d", "h", "c", "l", "e", "p", "q"}
MCSpelling == [s \in UNION {[1..n -> MCLetters] : n \in 1..2} |-> IF Len(s) = 1 THEN s[1] ELSE s[1] \o s[2]]
MCShorter == [w \in {MCSpelling[s] : s \in DOMAIN MCSpelling} |->
                LET s == CHOOSE s \in DOMAIN MCSpelling : MCSpelling[s] = w IN IF Len(s) = 1 THEN "" ELSE s[2]]
    @@ Other :> Other @@ "xbin" :> "bin" @@ "bin" :> "in" @@ "bin2" :> "in2" @@ "dev" :> "ev" @@ "etc" :> "tc"
    @@ "a" :> ""
MCPrintable == {"x", "y", "d", "h", "c", "l", "e", "p", "q", "/", " ", "#", "!", "|", ".", "1", "X", "Y", "D", "E"}
MCPlain == [k \in {"x", "y", "d", "h", "c", "l", "e", "p", "q", "/", "tab", BackSpace, NewLine} |-> k] @@ ("space" :> " ")
MCAlt   == [MCPlain EXCEPT !["x"] = "X", !["y"] = "Y", !["e"] = "E", !["space"] = "tab"]
MCCapital == {<<"x", "X">>, <<"y", "Y">>, <<"d", "D">>, <<"e", "E">>}
MCBuiltin == <<"h">> :> "hex" @@ <<"c">> :> "cat" @@ <<"l">> :> "ls" @@ <<"e">> :> "echo" @@ <<"p">> :> "pid" @@ <<"q">> :> "exit"
MCCode == [c \in MCPrintable |-> 100] @@ ("tab" :> 9) @@ (NewLine :> 10)
=============================================================================
