------------------------------- MODULE Shell -------------------------------
(***************************************************************************)
(* The shell (usr/bin/init.c) with the C library it calls, on top of the   *)
(* files of the kernel, and the keyboard it reads. Every system call of    *)
(* the shell is a step, so that keys are pressed and its children run      *)
(* between any two of them. A machine without a shell runs any programs.   *)
(* Messages of perror and of assert are one text, Complaint.               *)
(***************************************************************************)
EXTENDS Files, Formats, Keyboard

CONSTANTS
    LineSize,    \* characters of the line and one more: 256
    CmdSize,     \* and of the command: 64
    Chunk,       \* bytes that cat and hex read at once: 256
    HexLen,      \* bytes that hex shows in a line: 16
    PrintSize,   \* the buffer of printf: 512
    Directives, Buffers, Sizes,   \* formats, lengths and numbers that are tried
    Builtin,     \* the names of the commands it knows itself, and what each is
    Spelling,    \* the components that are typed, by their characters
    Code         \* the code of a character

\* What the shell writes at once is not more than sys_write copies at once.
ASSUME ShellAssumption ==
    /\ {LineSize, CmdSize, Chunk, HexLen, PrintSize} \subseteq Nat \ {0}
    /\ LineSize > 1 /\ PrintSize > 2 /\ Chunk % HexLen = 0
    /\ {Chunk, PrintSize, 4 * HexLen + 3} \subseteq 1..Piece
    /\ Spelling \in [DOMAIN Spelling -> DOMAIN Shorter] /\ Other \in DOMAIN Shorter

VARIABLES
    shell,   \* what it does, and its variables
    keys,    \* what will be pressed: a set of scan codes for each key
    held,    \* the shift keys that are down
    flags    \* ps2_flags

shellVars == <<shell, keys, held, flags>>
Space == " "
Slash == "/"
NoArg == <<"no", "argument">>
Prompt    == <<"#", Space>>
Complaint == <<"!", NewLine>>

\* printf, with the text that vsnprintf leaves in the buffer
Printf(f) == UserFormat(f, PrintSize).text
PrintLine(s) == Printf(<<String(<<>>, 0, s), Char(NewLine)>>)

\* A path as the kernel takes it, and a name as it is printed: the components of the
\* names that a shell lists are single characters.
Component(s) == IF s = <<>> THEN "" ELSE IF s \in DOMAIN Spelling THEN Spelling[s] ELSE Other
PathOf(s) ==
    LET Step(p, c) == IF c = Slash THEN Append(p, <<>>) ELSE [p EXCEPT ![Len(p)] = Append(@, c)]
        parts == FoldLeft(Step, <<<<>>>>, s)
    IN  [i \in 1..Len(parts) |-> Component(parts[i])]
TextOf(name) ==
    FlattenSeq([i \in 1..Len(name) |->
        (IF i > 1 THEN <<Slash>> ELSE <<>>) \o (IF name[i] = "" THEN <<>> ELSE <<name[i]>>)])

-----------------------------------------------------------------------------
NoShell == [at |-> "none"]
Me == shell.me   \* the task of the shell
NoChild == [does |-> "nothing"]
\* What the shell does first: it prints its prompt. The field out is not in the code:
\* it is what the last command printed.
FirstPrompt(t) == [me |-> t, at |-> "prompt", line |-> <<>>, char |-> "", cmd |-> <<>>, arg |-> NoArg,
                   fd |-> 0, todo |-> <<>>, then |-> "prompt", out |-> <<>>, child |-> NoChild]

ShellInit ==
    /\ FilesInit
    /\ keys = machine.keys /\ held = {} /\ flags = NoKeys
    /\ IF machine.keys = <<>> THEN shell = NoShell ELSE \E t \in alive : shell = FirstPrompt(t)

Alone == UNCHANGED <<keys, held, flags>>
At(where) == shell.at = where /\ Runs(shell.me)
Say(text) == Write(Me, 0, text)

\* printf("# ") and the call of readline
ShowPrompt ==
    /\ At("prompt") /\ Say(Printf(<<Char("#"), Char(Space)>>))
    /\ shell' = [FirstPrompt(Me) EXCEPT !.at = "read"]

\* A key is pressed or let go. A character reaches the shell if it waits for one, and
\* is lost if not.
Key(code) ==
    /\ stopped = "" /\ keys # <<>> /\ code \in Head(keys)
    /\ code \in ShiftUp => \E s \in held : code = ReleaseOf(s)
    /\ code \notin held
    /\ keys' = Tail(keys)
    /\ held' = IF code \in ShiftDown THEN held \cup {code} ELSE {s \in held : ReleaseOf(s) # code}
    /\ flags' = Flags(flags, code)
    /\ shell' = IF shell.at = "read" /\ Types(code)
                THEN [shell EXCEPT !.at = "got", !.char = LookupChar(flags, code)] ELSE shell
    /\ UNCHANGED filesVars

IsPrinted(c) == c \in Printable

\* Mutant: a backspace is shown though the line is empty.
GotBackSpace_Always ==
    /\ At("got") /\ shell.char = BackSpace
    /\ Say(<<BackSpace>>)
    /\ shell' = [shell EXCEPT !.at = "read", !.line = IF @ = <<>> THEN @ ELSE Front(@)]

\* readline: the last character is taken back, if there is one.
GotBackSpace ==
    /\ At("got") /\ shell.char = BackSpace
    /\ IF shell.line = <<>> THEN UNCHANGED filesVars ELSE Say(<<BackSpace>>)
    /\ shell' = [shell EXCEPT !.at = "read", !.line = IF @ = <<>> THEN @ ELSE Front(@)]

\* readline: a character is kept and shown. The line ends when the buffer is full.
GotCharacter ==
    /\ At("got") /\ IsPrinted(shell.char) /\ Say(<<shell.char>>)
    /\ LET line == Append(shell.line, shell.char)
       IN  shell' = [shell EXCEPT !.line = line, !.at = IF Len(line) < LineSize - 1 THEN "read" ELSE "split"]

GotNewLine ==
    /\ At("got") /\ shell.char = NewLine /\ Say(<<NewLine>>)
    /\ shell' = [shell EXCEPT !.at = "split"]

GotOther ==
    /\ At("got") /\ ~IsPrinted(shell.char) /\ shell.char \notin {NewLine, BackSpace}
    /\ UNCHANGED filesVars /\ shell' = [shell EXCEPT !.at = "read"]

-----------------------------------------------------------------------------
FirstSpace(line) == Min({i \in 1..Len(line) : line[i] = Space} \cup {Len(line) + 1})

\* main: the command and its argument, what stands behind the first space.
Split ==
    LET n == FirstSpace(shell.line)
    IN  /\ At("split") /\ n - 1 < CmdSize /\ UNCHANGED filesVars
        /\ shell' = [shell EXCEPT !.at = "run", !.cmd = SubSeq(shell.line, 1, n - 1),
                         !.arg = IF n > Len(shell.line) THEN NoArg ELSE From(shell.line, n + 1)]

\* The assertion of main: abort ends the program.
SplitTooLong ==
    /\ At("split") /\ FirstSpace(shell.line) - 1 >= CmdSize
    /\ Exit(Me) /\ shell' = [shell EXCEPT !.at = "ended"]

Does(name) == At("run") /\ shell.cmd \in DOMAIN Builtin /\ Builtin[shell.cmd] = name

\* Texts that are printed one after the other, and what comes then.
Prints(texts, then) == [shell EXCEPT !.at = "put", !.todo = texts, !.then = then]
Put ==
    /\ At("put") /\ Say(Head(shell.todo))
    /\ shell' = [shell EXCEPT !.todo = Tail(@), !.out = @ \o Head(shell.todo),
                     !.at = IF Len(shell.todo) = 1 THEN shell.then ELSE "put"]

Echo ==
    /\ Does("echo") /\ UNCHANGED filesVars
    /\ shell' = Prints(<<PrintLine(IF shell.arg = NoArg THEN Null ELSE shell.arg)>>, "prompt")

\* The shell is the first task.
Pid ==
    /\ Does("pid") /\ UNCHANGED filesVars
    /\ shell' = Prints(<<Printf(<<Numeral(<<>>, 0, "d", 1), Char(NewLine)>>)>>, "prompt")

Quit == Does("exit") /\ Exit(Me) /\ shell' = [shell EXCEPT !.at = "ended"]

\* b_cat, b_hex and b_ls open what they are about. Without an argument there is no
\* page to copy the path from: an assertion of the kernel fails.
OpenArgument ==
    LET dir == Builtin[shell.cmd] = "ls"
    IN  /\ Does("ls") \/ Does("cat") \/ Does("hex")
        /\ \/ /\ shell.arg = NoArg /\ ~dir
              /\ Stop("argument") /\ shell' = [shell EXCEPT !.at = "ended"]
           \/ /\ shell.arg # NoArg \/ dir
              /\ \E path \in IF shell.arg = NoArg THEN {Root} ELSE Meant(PathOf(shell.arg)) :
                    LET f == IF dir THEN OpenedDir(path) ELSE Opened(path, TRUE, FALSE)
                    IN  /\ Open(Me, path, TRUE, FALSE, dir)
                        /\ shell' = IF f = None THEN Prints(<<Complaint>>, "prompt")
                                    ELSE [shell EXCEPT !.at = IF dir THEN "list" ELSE "pump", !.fd = Min(FreeFds(Me))]

\* What lies in the ramdisk from an address on.
Stored(at, n) ==
    LET i == CHOOSE i \in 1..Len(Archived) : Data(Archived, i) <= at /\ at < Data(Archived, i) + Archived[i].size
        from == at - Data(Archived, i)
    IN  SubSeq(machine.contents[Archived[i].name], from + 1, from + n)

\* b_hex: a line for every HexLen bytes; one step for all the calls of printf in it.
HexLine(data, i) ==
    LET row == SubSeq(data, i + 1, Min({i + HexLen, Len(data)}))
        Byte(j) == IF j <= Len(row) THEN Printf(<<Numeral(<<"0">>, 2, "x", Code[row[j]]), Char(Space)>>)
                   ELSE <<Space, Space, Space>>
    IN  FlattenSeq([j \in 1..HexLen |-> Byte(j)]) \o <<"|", Space>>
        \o [j \in 1..Len(row) |-> IF row[j] \in Printable THEN row[j] ELSE "."] \o <<NewLine>>
HexLines(data) == [k \in 1..(Len(data) + HexLen - 1) \div HexLen |-> HexLine(data, HexLen * (k - 1))]

\* Mutant: a read that did not fill the buffer is taken for the last.
Pump_Short ==
    LET f == files[Me][shell.fd]
        n == Min({Chunk, f.left})
        data == Stored(f.pos, n)
    IN  /\ At("pump") /\ Read(Me, shell.fd, Chunk)
        /\ shell' = IF n < Chunk THEN [shell EXCEPT !.at = "close"]
                    ELSE Prints(IF Builtin[shell.cmd] = "cat" THEN <<data>> ELSE HexLines(data), "pump")

\* The loops of b_cat and b_hex: until a read returns nothing.
Pump ==
    LET f == files[Me][shell.fd]
        n == Min({Chunk, f.left})
        data == Stored(f.pos, n)
    IN  /\ At("pump") /\ Read(Me, shell.fd, Chunk)
        /\ shell' = IF n = 0 THEN [shell EXCEPT !.at = "close"]
                    ELSE Prints(IF Builtin[shell.cmd] = "cat" THEN <<data>> ELSE HexLines(data), "pump")

\* The loop of b_ls
List ==
    LET f == files[Me][shell.fd]
        entry == ReadEntry(Archived, f.rel, f.next)
    IN  /\ At("list") /\ ReadDir(Me, shell.fd)
        /\ shell' = IF entry.ok THEN Prints(<<PrintLine(TextOf(entry.name))>>, "list")
                    ELSE [shell EXCEPT !.at = "close"]

\* Mutant: the file stays open.
CloseFile_Open ==
    At("close") /\ UNCHANGED filesVars /\ shell' = [shell EXCEPT !.at = "prompt"]

CloseFile == At("close") /\ Close(Me, shell.fd) /\ shell' = [shell EXCEPT !.at = "prompt"]

-----------------------------------------------------------------------------
\* execute: everything else is a program. A child is forked, and waited for.
Launch ==
    /\ At("run") /\ shell.cmd \notin DOMAIN Builtin
    /\ \E c \in Task :
        Fork(Me, c) /\ shell' = [shell EXCEPT !.at = "wait", !.child = [does |-> "exec", task |-> c]]

ChildDoes(what) == shell.at = "wait" /\ shell.child.does = what /\ Runs(shell.child.task)
ChildThen(what) == shell' = [shell EXCEPT !.child.does = what]

\* execve of the command: the child goes on as the program, or there is no such file.
\* task_execve asserts that a file is a program.
ChildExec ==
    /\ ChildDoes("exec")
    /\ \E path \in Meant(PathOf(shell.cmd)) :
        \/ GetM(path) = Naddr /\ UNCHANGED filesVars /\ ChildThen("fail")
        \/ GetM(path) # Naddr /\ IsProgram(GetM(path)) /\ UNCHANGED filesVars /\ ChildThen("program")
        \/ GetM(path) # Naddr /\ ~IsProgram(GetM(path)) /\ Stop("program") /\ shell' = [shell EXCEPT !.at = "ended"]
ChildFails  == ChildDoes("fail") /\ Write(shell.child.task, 0, Complaint) /\ ChildThen("exit")
\* A program, which prints something or nothing.
ChildPrints ==
    ChildDoes("program") /\ \E text \in machine.texts : Write(shell.child.task, 0, text) /\ ChildThen("exit")
ChildExits  ==
    (ChildDoes("program") \/ ChildDoes("exit")) /\ Exit(shell.child.task) /\ ChildThen("nothing")

\* waitpid
Waited ==
    /\ At("wait") /\ shell.child.does = "nothing" /\ UNCHANGED filesVars
    /\ shell' = [shell EXCEPT !.at = "prompt"]

\* The keyboard is not used any more.
Quiet == keys = <<>> /\ shell.at = "read" /\ UNCHANGED <<filesVars, shellVars>>

ShellStep ==
    \/ ShowPrompt \/ GotBackSpace \/ GotCharacter \/ GotNewLine \/ GotOther \/ Split \/ SplitTooLong
    \/ Put \/ Echo \/ Pid \/ Quit \/ OpenArgument \/ Pump \/ List \/ CloseFile
    \/ Launch \/ ChildExec \/ ChildFails \/ ChildPrints \/ ChildExits \/ Waited

ShellNext ==
    \/ shell.at = "none" /\ FilesNext /\ UNCHANGED shellVars
    \/ shell.at # "none" /\ ShellStep /\ Alone
    \/ \E code \in UNION ToSet(keys) : Key(code)
    \/ shell.at # "none" /\ FilesStopped /\ UNCHANGED shellVars
    \/ Quiet

ShellSpec == ShellInit /\ [][ShellNext]_<<filesVars, shellVars>>

-----------------------------------------------------------------------------
HasShell == shell.at # "none"
Places == {"prompt", "read", "got", "split", "run", "put", "list", "pump", "close", "wait", "ended"}

\* Every variable keeps its type, and the line and the command fit into their buffers.
ShellTypeOK ==
    /\ FilesTypeOK
    /\ held \subseteq ShiftDown /\ flags \in [shift : BOOLEAN, caps : BOOLEAN]
    /\ HasShell =>
        /\ shell.at \in Places /\ shell.me \in Task /\ shell.fd \in Fd
        /\ Len(shell.line) < LineSize /\ Len(shell.cmd) < CmdSize

\* A shift that is set is held: the shift never sticks, whichever of the two keys
\* was let go first.
ShiftSound == flags.shift => held # {}

\* What stands in the last line of a terminal when all of this was sent.
OnLine(line, w) ==
    CASE w[2] = NewLine -> <<>>
      [] w[2] = BackSpace -> IF line = <<>> THEN line ELSE Front(line)
      [] OTHER -> Append(line, w[2])
LastLine(sent) == FoldLeft(OnLine, <<>>, sent)

\* While the shell waits for a key, the terminal shows the prompt and behind it what the
\* shell has kept, whatever was typed, taken back or lost.
EchoAgrees ==
    /\ ShellTypeOK
    /\ HasShell /\ shell.at = "read" =>
        IsSuffix(Prompt \o shell.line, LastLine(serial))

\* What the commands should print of a file, and of a directory.
HexOf(data) ==
    LET RowAt(k) == SubSeq(data, HexLen * k + 1, Min({HexLen * (k + 1), Len(data)}))
        Line(row) ==
            FlattenSeq([j \in 1..Len(row) |-> Wanted(<<Numeral(<<"0">>, 2, "x", Code[row[j]]), Char(Space)>>)])
            \o Repeated(Space, 3 * (HexLen - Len(row))) \o <<"|", Space>>
            \o [j \in 1..Len(row) |-> IF row[j] \in Printable THEN row[j] ELSE "."] \o <<NewLine>>
    IN  FlattenSeq([k \in 1..(Len(data) + HexLen - 1) \div HexLen |-> Line(RowAt(k - 1))])

ListOf(rel) ==
    LET in == Children(Archived, rel)
    IN  FlattenSeq([i \in 1..Len(in) |->
            TextOf(OwnName(rel, Archived[in[i]].name)) \o <<NewLine>>])

Expected(f) ==
    CASE IsDir(f) -> ListOf(f.rel)
      [] Builtin[shell.cmd] = "cat" -> machine.contents[Skip(f.path)]
      [] OTHER -> HexOf(machine.contents[Skip(f.path)])

\* When the shell closes what it has opened, it has printed all of it, once and in order,
\* but for the directories whose listing is known to go wrong.
OutputRight ==
    HasShell /\ shell.at = "close" =>
        LET f == files[shell.me][shell.fd]
        IN  shell.out = Expected(f) \/ (IsDir(f) /\ Confused(Archived, f.rel))

\* At its prompt the shell has nothing open but its terminal, and no child.
ShellCloses ==
    HasShell /\ shell.at \in {"prompt", "read"} => files[shell.me] = StartFiles /\ alive = {shell.me}

\* A number's digits are read back as the number, with zero bytes around octal
\* ones; fmtsiz cuts a size to a tenth of its unit, or one less.
SizesRight ==
    \A s \in Sizes :
        /\ Atoi(Number(s, 10, Digits) \o <<"x">>) = s
        /\ Octal(<<Nul>> \o Number(s, 8, Digits) \o <<Nul>>) = s
        /\ \/ s < 1536 /\ FmtSiz(s) = Number(s, 10, Digits) \o <<"B">>
           \/ s >= 1536 /\ \E p \in 1..2, less \in 0..1 :
                LET tenths == (10 * s) \div 1024^p - less
                IN  /\ tenths \in 10..15360
                    /\ FmtSiz(s) = Number(tenths \div 10, 10, Digits)
                                   \o <<".", Digits[(tenths % 10) + 1], Powers[p], "i", "B">>

\* debugf and printf print a number or a text as the format says, but for the known
\* exceptions. A buffer that is too small gets the beginning of it and room for the end
\* of the text, if no part ends exactly where the buffer does.
FormatsRight ==
    machine.tries =>
      /\ SizesRight
      /\ \A f \in Directives : (\A i \in 1..Len(f) : ~Known(f[i])) =>
        /\ KernelFormat(f) = {Wanted(f)}
        /\ (\A i \in 1..Len(f) : ~f[i].long) => \A n \in Buffers \ Ends(f) :
                UserFormat(f, n).text = SubSeq(Wanted(f), 1, Min({n - 1, Len(Wanted(f))}))
=============================================================================
