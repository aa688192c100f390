---------------------------- MODULE ShellProofs ----------------------------
(***************************************************************************)
(* Theorems about Shell for every ramdisk, every set of tasks, every size  *)
(* of its buffers and every order of keys: the shift never sticks, the     *)
(* shell leaves nothing behind, neither a file nor a child, open files     *)
(* stay where their paths say, descriptors are what OpenFiles promises,    *)
(* the screen shows the end of what was written, its last line is the      *)
(* prompt and what the shell has kept while it waits for a key, and a      *)
(* directory lists what is in it.                                          *)
(***************************************************************************)
EXTENDS Shell, FiniteSetTheorems, WellFoundedInduction, TLAPS

-----------------------------------------------------------------------------
(***************************************************************************)
(* The keyboard.                                                           *)
(***************************************************************************)

\* The flags are what the handler's two bits are, and only shift keys are held.
KeysInv ==
    /\ held \subseteq ShiftDown
    /\ flags \in [shift : BOOLEAN, caps : BOOLEAN]
    /\ ShiftSound

\* What the flags become: no key is two of the three.
LEMMA FlagsAre ==
    ASSUME NEW F, F = [shift : BOOLEAN, caps : BOOLEAN], flags \in F, NEW code
    PROVE  /\ Flags(flags, code) \in F
           /\ code \in ShiftUp => ~Flags(flags, code).shift
           /\ code \notin ShiftUp \cup ShiftDown => Flags(flags, code).shift = flags.shift
<1>1. ASSUME NEW b \in BOOLEAN
      PROVE  [flags EXCEPT !.shift = b] \in F /\ [flags EXCEPT !.shift = b].shift = b
    OBVIOUS
<1>2. ASSUME NEW b \in BOOLEAN
      PROVE  [flags EXCEPT !.caps = b] \in F /\ [flags EXCEPT !.caps = b].shift = flags.shift
    OBVIOUS
<1>3. (~flags.caps) \in BOOLEAN /\ TRUE \in BOOLEAN /\ FALSE \in BOOLEAN
    OBVIOUS
<1>4. ShiftDown \cap ShiftUp = {} /\ CapsLock \notin ShiftDown \cup ShiftUp
    BY DEF ShiftDown, ShiftUp, CapsLock, ReleaseOf, LShift, RShift
<1>5. CASE code \in ShiftDown
    <2>1. Flags(flags, code) = [flags EXCEPT !.shift = TRUE]
        BY <1>4, <1>5, Zenon DEF Flags
    <2> QED
        BY <1>1, <1>3, <1>4, <1>5, <2>1
<1>6. CASE code \in ShiftUp
    <2>1. Flags(flags, code) = [flags EXCEPT !.shift = FALSE]
        BY <1>4, <1>6, Zenon DEF Flags
    <2> QED
        BY <1>1, <1>3, <1>6, <2>1
<1>7. CASE code = CapsLock
    <2>1. Flags(flags, code) = [flags EXCEPT !.caps = ~flags.caps]
        BY <1>4, <1>7, Zenon DEF Flags
    <2> QED
        BY <1>2, <1>3, <1>4, <1>7, <2>1
<1>8. CASE code \notin ShiftDown \cup ShiftUp \cup {CapsLock}
    <2>1. Flags(flags, code) = flags
        BY <1>8, Zenon DEF Flags
    <2> QED
        BY <1>8, <2>1
<1> QED
    BY <1>5, <1>6, <1>7, <1>8

\* A key that goes down or up keeps the flags and the held keys in step.
LEMMA KeyKeepsShift ==
    ASSUME KeysInv, NEW code, Key(code)
    PROVE  KeysInv'
<1>1. /\ held' = IF code \in ShiftDown THEN held \cup {code} ELSE {s \in held : ReleaseOf(s) # code}
      /\ flags' = Flags(flags, code)
      /\ code \notin held
    BY DEF Key
<1>2. \A s \in ShiftDown : ReleaseOf(s) \in ShiftUp /\ ReleaseOf(s) \notin ShiftDown
    BY DEF ShiftDown, ShiftUp, ReleaseOf, LShift, RShift
<1>3. flags' \in [shift : BOOLEAN, caps : BOOLEAN]
    BY <1>1, FlagsAre DEF KeysInv
<1>4. CASE code \in ShiftDown
    BY <1>1, <1>3, <1>4 DEF KeysInv, ShiftSound
<1>5. CASE code \in ShiftUp
    <2>1. ~flags'.shift
        BY <1>1, <1>5, FlagsAre DEF KeysInv
    <2>2. held' \subseteq ShiftDown
        BY <1>1 DEF KeysInv
    <2> QED
        BY <1>3, <2>1, <2>2 DEF KeysInv, ShiftSound
<1>6. CASE code \notin ShiftDown \cup ShiftUp
    <2>1. held' = held
        BY <1>1, <1>2, <1>6 DEF KeysInv
    <2>2. flags'.shift = flags.shift
        BY <1>1, <1>6, FlagsAre DEF KeysInv
    <2> QED
        BY <1>3, <2>1, <2>2 DEF KeysInv, ShiftSound
<1> QED
    BY <1>4, <1>5, <1>6

LEMMA KeysStep ==
    ASSUME KeysInv, [ShellNext]_<<filesVars, shellVars>>
    PROVE  KeysInv'
<1>1. CASE \E code \in UNION ToSet(keys) : Key(code)
    BY <1>1, KeyKeepsShift
<1>2. CASE UNCHANGED <<held, flags>>
    BY <1>2 DEF KeysInv, ShiftSound
<1> QED
    BY <1>1, <1>2 DEF ShellNext, Alone, Quiet, shellVars

\* The shift never sticks: whichever keys are pressed and let go, in whatever
\* order, the one bit that x86_irq_handler_1 keeps for both shift keys is set
\* only while one of them is down.
THEOREM ShiftNeverSticks == ShellSpec => []ShiftSound
<1>1. ShellInit => KeysInv
    BY DEF ShellInit, KeysInv, ShiftSound, NoKeys
<1>2. KeysInv /\ [ShellNext]_<<filesVars, shellVars>> => KeysInv'
    BY KeysStep
<1>3. KeysInv => ShiftSound
    BY DEF KeysInv
<1> QED
    BY <1>1, <1>2, <1>3, PTL DEF ShellSpec

-----------------------------------------------------------------------------
(***************************************************************************)
(* What the shell leaves behind.                                           *)
(***************************************************************************)

\* The shell has its terminals and no child.
Tidy == files[Me] = StartFiles /\ alive = {Me}

\* It has one file more.
OneMore ==
    /\ alive = {Me} /\ shell.fd \in Fd \ {0, 1}
    /\ DOMAIN files[Me] = Fd
    /\ \A fd \in Fd \ {shell.fd} : files[Me][fd] = StartFiles[fd]
    /\ files[Me] = [fd \in Fd |-> files[Me][fd]]

\* It waits for its child, or the child has ended.
Waits ==
    /\ {"does", "task"} \subseteq DOMAIN shell.child
    /\ files[Me] = StartFiles
    /\ IF shell.child.does = "nothing" THEN alive = {Me}
       ELSE alive = {Me, shell.child.task} /\ shell.child.task \in Task \ {Me}

\* Where the shell is, it has nothing open, one file, or a child.
Home(at)   == at \in {"prompt", "read", "got", "split", "run"}
Abroad(at) == at \in {"list", "pump", "close"}

\* The variables of the shell that this is about.
Fields == {"at", "me", "fd", "then", "child"}

ShellInv ==
    HasShell =>
        /\ Fields \subseteq DOMAIN shell
        /\ Me \in Task /\ DOMAIN files = Task
        /\ shell.at \in {"prompt", "read"} => stopped = ""
        /\ stopped = "" =>
            /\ Home(shell.at) => Tidy
            /\ Abroad(shell.at) => OneMore
            /\ shell.at = "wait" => Waits
            /\ shell.at = "put" => (shell.then = "prompt" /\ Tidy) \/ (Abroad(shell.then) /\ OneMore)

\* The least of some descriptors is one of them.
LEMMA LeastFd ==
    ASSUME NEW S \in SUBSET Fd, S # {}
    PROVE  Min(S) \in S
<1> DEFINE R == {ss \in Nat \X Nat : ss[1] < ss[2]}
<1>1. S \in SUBSET Nat
    BY FilesAssumption DEF Fd
<1>2. R = OpToRel(<, Nat)
    BY DEF OpToRel
<1>3. IsWellFoundedOn(R, Nat)
    BY <1>2, NatLessThanWellFounded
<1>4. \A x, y \in Nat : <<y, x>> \notin R => x <= y
    OBVIOUS
<1> HIDE DEF R
<1>5. \E x \in S : \A y \in S : <<y, x>> \notin R
    BY <1>1, <1>3, WFMin
<1>6. \E x \in S : \A y \in S : x <= y
    BY <1>1, <1>4, <1>5
<1> QED
    BY <1>6 DEF Min

\* The terminals are descriptors 0 and 1.
LEMMA StartFacts ==
    /\ DOMAIN StartFiles = Fd /\ 0 \in Fd /\ 1 \in Fd
    /\ StartFiles = [fd \in Fd |-> StartFiles[fd]]
    /\ StartFiles[0] = Terminal(FALSE, TRUE)
    /\ \A fd \in Fd : StartFiles[fd] = None <=> fd \notin {0, 1}
<1>1. Fd = 0..NFds-1 /\ 0 \in Fd /\ 1 \in Fd
    BY FilesAssumption DEF Fd
<1>2. \A rd, wr \in BOOLEAN : Terminal(rd, wr).kind # None.kind
    BY DEF Terminal, None
<1>3. StartFiles[0] = Terminal(FALSE, TRUE) /\ StartFiles[1] = Terminal(TRUE, FALSE)
    BY <1>1 DEF StartFiles
<1>4. \A fd \in Fd \ {0, 1} : StartFiles[fd] = None
    BY DEF StartFiles
<1>5. DOMAIN StartFiles = Fd /\ StartFiles = [fd \in Fd |-> StartFiles[fd]]
    BY DEF StartFiles
<1> QED
    BY <1>1, <1>2, <1>3, <1>4, <1>5

\* What the shell prints changes nothing but the terminal.
LEMMA SayKeeps ==
    ASSUME NEW text, Say(text), files[Me][0] = StartFiles[0]
    PROVE  UNCHANGED <<machine, files, alive, stopped>>
<1>1. VfsWrite(files[Me][0], Sent(text))
    BY DEF Say, Write
<1>2. /\ files[Me][0].kind = "dev" /\ files[Me][0].wr /\ files[Me][0].node = 4
    BY StartFacts DEF Terminal
<1>3. HasHandlers(Nodes[4])
    BY DEF HasHandlers, Nodes
<1>4. TtyWrite(4, Sent(text))
    BY <1>1, <1>2, <1>3 DEF VfsWrite, IsDir
<1> QED
    BY <1>4 DEF TtyWrite

\* A step that leaves the files and the tasks as they are.
LEMMA StepStays ==
    ASSUME ShellInv, HasShell, stopped = "", UNCHANGED <<files, alive, stopped>>,
           Fields \subseteq DOMAIN shell', shell'.me = shell.me,
           \/ /\ Tidy
              /\ Home(shell'.at) \/ (shell'.at = "put" /\ shell'.then = "prompt")
           \/ /\ OneMore /\ shell'.fd = shell.fd
              /\ Abroad(shell'.at) \/ (shell'.at = "put" /\ Abroad(shell'.then))
    PROVE  ShellInv'
<1>1. Me' = Me
    BY DEF Me
<1>2. CASE /\ Tidy
           /\ Home(shell'.at) \/ (shell'.at = "put" /\ shell'.then = "prompt")
    BY <1>1, <1>2 DEF ShellInv, Tidy, Home, Abroad
<1>3. CASE /\ OneMore /\ shell'.fd = shell.fd
           /\ Abroad(shell'.at) \/ (shell'.at = "put" /\ Abroad(shell'.then))
    BY <1>1, <1>3 DEF ShellInv, OneMore, Home, Abroad
<1> QED
    BY <1>2, <1>3

\* Once the kernel has stopped, only the place of the shell matters.
LEMMA StepStops ==
    ASSUME ShellInv, HasShell, stopped' # "", DOMAIN files' = Task,
           Fields \subseteq DOMAIN shell', shell'.me = shell.me, shell'.at \notin {"prompt", "read"}
    PROVE  ShellInv'
BY DEF ShellInv, Me

\* A program that has ended has no place either.
LEMMA StepEnds ==
    ASSUME ShellInv, HasShell, DOMAIN files' = Task,
           Fields \subseteq DOMAIN shell', shell'.me = shell.me, shell'.at = "ended"
    PROVE  ShellInv'
BY DEF ShellInv, Me, Home, Abroad

\* readline and the commands that print what they know.
LEMMA LineInv ==
    ASSUME ShellInv, HasShell,
           \/ ShowPrompt \/ GotBackSpace \/ GotCharacter \/ GotNewLine \/ GotOther \/ Split
           \/ Echo \/ Pid
    PROVE  ShellInv'
<1>1. /\ Fields \subseteq DOMAIN shell /\ stopped = ""
      /\ Home(shell.at) /\ Tidy
    BY DEF ShellInv, ShowPrompt, GotBackSpace, GotCharacter, GotNewLine, GotOther, Split, Echo, Pid,
           Does, At, Runs, Home
<1>2. files[Me][0] = StartFiles[0]
    BY <1>1 DEF Tidy
<1>3. UNCHANGED <<files, alive, stopped>>
    BY <1>2, SayKeeps, Zenon DEF ShowPrompt, GotBackSpace, GotCharacter, GotNewLine, GotOther, Split,
           Echo, Pid, filesVars
<1>4. CASE ShowPrompt
    <2>1. shell' = [FirstPrompt(Me) EXCEPT !.at = "read"]
        BY <1>4 DEF ShowPrompt
    <2>2. /\ Fields \subseteq DOMAIN shell' /\ shell'.me = shell.me /\ shell'.at = "read"
        BY <2>1 DEF FirstPrompt, Fields, Me
    <2> QED
        BY <1>1, <1>3, <2>2, StepStays DEF Home
<1>5. CASE GotBackSpace
    <2>1. PICK line : shell' = [shell EXCEPT !.at = "read", !.line = line]
        BY <1>5 DEF GotBackSpace
    <2>2. /\ Fields \subseteq DOMAIN shell' /\ shell'.me = shell.me /\ shell'.at = "read"
        BY <1>1, <2>1 DEF Fields
    <2> QED
        BY <1>1, <1>3, <2>2, StepStays DEF Home
<1>6. CASE GotCharacter
    <2>1. PICK line, at : at \in {"read", "split"} /\ shell' = [shell EXCEPT !.line = line, !.at = at]
        BY <1>6 DEF GotCharacter
    <2>2. /\ Fields \subseteq DOMAIN shell' /\ shell'.me = shell.me /\ Home(shell'.at)
        BY <1>1, <2>1 DEF Fields, Home
    <2> QED
        BY <1>1, <1>3, <2>2, StepStays
<1>7. CASE GotNewLine \/ GotOther
    <2>1. PICK at \in {"read", "split"} : shell' = [shell EXCEPT !.at = at]
        BY <1>7 DEF GotNewLine, GotOther
    <2>2. /\ Fields \subseteq DOMAIN shell' /\ shell'.me = shell.me /\ Home(shell'.at)
        BY <1>1, <2>1 DEF Fields, Home
    <2> QED
        BY <1>1, <1>3, <2>2, StepStays
<1>8. CASE Split
    <2>1. PICK cmd, arg : shell' = [shell EXCEPT !.at = "run", !.cmd = cmd, !.arg = arg]
        BY <1>8 DEF Split
    <2>2. /\ Fields \subseteq DOMAIN shell' /\ shell'.me = shell.me /\ Home(shell'.at)
        BY <1>1, <2>1 DEF Fields, Home
    <2> QED
        BY <1>1, <1>3, <2>2, StepStays
<1>9. CASE Echo \/ Pid
    <2>1. PICK texts : shell' = [shell EXCEPT !.at = "put", !.todo = texts, !.then = "prompt"]
        BY <1>9 DEF Echo, Pid, Prints
    <2>2. /\ Fields \subseteq DOMAIN shell' /\ shell'.me = shell.me
          /\ shell'.at = "put" /\ shell'.then = "prompt"
        BY <1>1, <2>1 DEF Fields
    <2> QED
        BY <1>1, <1>3, <2>2, StepStays
<1> QED
    BY <1>4, <1>5, <1>6, <1>7, <1>8, <1>9

\* exit, and the assertion of main.
LEMMA LeaveInv ==
    ASSUME ShellInv, HasShell, Quit \/ SplitTooLong
    PROVE  ShellInv'
<1>1. shell' = [shell EXCEPT !.at = "ended"] /\ Exit(Me)
    BY DEF Quit, SplitTooLong
<1>2. Fields \subseteq DOMAIN shell' /\ shell'.me = shell.me /\ shell'.at = "ended"
    BY <1>1 DEF ShellInv, Fields
<1>3. DOMAIN files' = Task
    BY <1>1 DEF Exit, ShellInv
<1> QED
    BY <1>2, <1>3, StepEnds

\* The texts of a command, one after the other.
LEMMA PutInv ==
    ASSUME ShellInv, HasShell, Put
    PROVE  ShellInv'
<1>1. /\ shell.at = "put" /\ stopped = "" /\ Say(Head(shell.todo))
      /\ Fields \subseteq DOMAIN shell
      /\ (shell.then = "prompt" /\ Tidy) \/ (Abroad(shell.then) /\ OneMore)
    BY DEF Put, At, Runs, ShellInv
<1>2. files[Me][0] = StartFiles[0]
    BY <1>1, StartFacts DEF Tidy, OneMore
<1>3. UNCHANGED <<files, alive, stopped>>
    BY <1>1, <1>2, SayKeeps
<1>4. PICK todo, out, at : /\ shell' = [shell EXCEPT !.todo = todo, !.out = out, !.at = at]
                           /\ at \in {shell.then, "put"}
    BY DEF Put
<1>5. /\ Fields \subseteq DOMAIN shell' /\ shell'.me = shell.me /\ shell'.fd = shell.fd
      /\ shell'.then = shell.then /\ shell'.at \in {shell.then, "put"}
    BY <1>1, <1>4 DEF Fields
<1> QED
    BY <1>1, <1>3, <1>5, StepStays DEF Home

\* What it has opened is closed, and nothing else.
LEMMA CloseInv ==
    ASSUME ShellInv, HasShell, CloseFile
    PROVE  ShellInv'
<1>1. /\ shell.at = "close" /\ stopped = "" /\ Me \in Task /\ DOMAIN files = Task
      /\ OneMore /\ Fields \subseteq DOMAIN shell
    BY DEF CloseFile, At, Runs, ShellInv, Abroad
<1>2. /\ files' = [files EXCEPT ![Me] = [files[Me] EXCEPT ![shell.fd] = None]]
      /\ alive' = alive /\ stopped' = stopped
      /\ shell' = [shell EXCEPT !.at = "prompt"]
    BY DEF CloseFile, Close, OnlyFiles
<1>3. /\ Fields \subseteq DOMAIN shell' /\ shell'.me = Me /\ shell'.at = "prompt"
    BY <1>1, <1>2 DEF Fields, Me
<1>4. DOMAIN files' = Task /\ files'[Me] = [files[Me] EXCEPT ![shell.fd] = None]
    BY <1>1, <1>2
<1>5. files'[Me] = [fd \in Fd |-> IF fd = shell.fd THEN None ELSE files[Me][fd]]
    BY <1>1, <1>4 DEF OneMore
<1>6. \A fd \in Fd : (IF fd = shell.fd THEN None ELSE files[Me][fd]) = StartFiles[fd]
    BY <1>1, StartFacts DEF OneMore
<1>7. files'[Me] = StartFiles
    BY <1>5, <1>6, StartFacts
<1>8. Me' = Me
    BY <1>3 DEF Me
<1> QED
    BY <1>1, <1>2, <1>3, <1>4, <1>7, <1>8 DEF ShellInv, Tidy, OneMore, Home, Abroad

\* A step that changes the one file and nothing else of the files.
LEMMA FileStep ==
    ASSUME ShellInv, HasShell, stopped = "", OneMore, NEW f,
           files' = [files EXCEPT ![Me] = [files[Me] EXCEPT ![shell.fd] = f]],
           UNCHANGED <<alive, stopped>>,
           Fields \subseteq DOMAIN shell', shell'.me = shell.me, shell'.fd = shell.fd,
           Abroad(shell'.at) \/ (shell'.at = "put" /\ Abroad(shell'.then))
    PROVE  ShellInv'
<1>1. Me \in Task /\ DOMAIN files = Task /\ Me' = Me
    BY DEF ShellInv, Me
<1>2. DOMAIN files' = Task /\ files'[Me] = [files[Me] EXCEPT ![shell.fd] = f]
    BY <1>1
<1>3. files'[Me] = [fd \in Fd |-> IF fd = shell.fd THEN f ELSE files[Me][fd]]
    <2> DEFINE g == files[Me]
               at == shell.fd
    <2>1. DOMAIN g = Fd /\ files'[Me] = [g EXCEPT ![at] = f]
        BY <1>2 DEF OneMore
    <2> HIDE DEF g, at
    <2>2. files'[Me] = [fd \in Fd |-> IF fd = at THEN f ELSE g[fd]]
        BY <2>1
    <2> QED
        BY <2>2 DEF g, at
<1>4. files'[Me] = [fd \in Fd |-> files'[Me][fd]] /\ DOMAIN files'[Me] = Fd
    BY <1>3
<1>5. \A fd \in Fd \ {shell.fd} : files'[Me][fd] = StartFiles[fd]
    <2>1. \A fd \in Fd \ {shell.fd} : files'[Me][fd] = files[Me][fd]
        BY <1>3
    <2> QED
        BY <2>1 DEF OneMore
<1>6. OneMore'
    BY <1>1, <1>4, <1>5 DEF OneMore
<1> QED
    BY <1>1, <1>2, <1>6 DEF ShellInv, Home, Abroad

\* The loops of b_cat, b_hex and b_ls.
LEMMA LoopInv ==
    ASSUME ShellInv, HasShell, Pump \/ List
    PROVE  ShellInv'
<1>1. /\ shell.at \in {"pump", "list"} /\ stopped = "" /\ OneMore /\ Fields \subseteq DOMAIN shell
      /\ DOMAIN files = Task
    BY DEF Pump, List, At, Runs, ShellInv, Abroad
<1>2. PICK texts, at : /\ at \in {"pump", "list"}
                       /\ \/ shell' = [shell EXCEPT !.at = "close"]
                          \/ shell' = [shell EXCEPT !.at = "put", !.todo = texts, !.then = at]
    BY DEF Pump, List, Prints
<1>3. /\ Fields \subseteq DOMAIN shell' /\ shell'.me = shell.me /\ shell'.fd = shell.fd
      /\ Abroad(shell'.at) \/ (shell'.at = "put" /\ Abroad(shell'.then))
    BY <1>1, <1>2 DEF Fields, Abroad
<1>4. CASE stopped' # ""
    <2>1. DOMAIN files' = Task
        BY <1>4, <1>1 DEF Pump, List, Read, ReadDir, Stop, NoFiles, OnlyFiles
    <2> QED
        BY <1>3, <1>4, <2>1, StepStops DEF Abroad
<1>5. CASE stopped' = ""
    <2>1. /\ UNCHANGED <<alive, stopped>>
          /\ \E f : files' = [files EXCEPT ![Me] = [files[Me] EXCEPT ![shell.fd] = f]]
        <3>1. CASE Pump
            <4>1. Read(Me, shell.fd, Chunk)
                BY <3>1 DEF Pump
            <4>2. CASE Stop("device")
                BY <1>5, <4>2 DEF Stop
            <4> QED
                BY <4>1, <4>2 DEF Read, OnlyFiles
        <3>2. CASE List
            <4>1. ReadDir(Me, shell.fd)
                BY <3>2 DEF List
            <4>2. PICK n : files' = [files EXCEPT ![Me] = [files[Me] EXCEPT ![shell.fd] =
                                        [files[Me][shell.fd] EXCEPT !.next = n]]]
                BY <4>1, Zenon DEF ReadDir
            <4> QED
                BY <4>1, <4>2 DEF ReadDir, OnlyFiles
        <3> QED
            BY <3>1, <3>2
    <2> QED
        BY <1>1, <1>3, <2>1, FileStep
<1> QED
    BY <1>4, <1>5

\* open and opendir: the file gets a descriptor of its own, behind the terminals.
LEMMA OpenInv ==
    ASSUME ShellInv, HasShell, OpenArgument
    PROVE  ShellInv'
<1>1. /\ shell.at = "run" /\ stopped = "" /\ Tidy /\ Fields \subseteq DOMAIN shell
      /\ DOMAIN files = Task /\ Me \in Task
    BY DEF OpenArgument, Does, At, Runs, Stop, ShellInv, Home, Open
<1>2. CASE Stop("argument") /\ shell' = [shell EXCEPT !.at = "ended"]
    <2>1. /\ Fields \subseteq DOMAIN shell' /\ shell'.me = shell.me /\ shell'.at = "ended"
          /\ DOMAIN files' = Task
        BY <1>1, <1>2 DEF Fields, Stop, NoFiles
    <2> QED
        BY <2>1, StepEnds
<1>3. ASSUME NEW path, NEW dir \in BOOLEAN, NEW f, Open(Me, path, TRUE, FALSE, dir),
             f = IF dir THEN OpenedDir(path) ELSE Opened(path, TRUE, FALSE),
             shell' = IF f = None THEN Prints(<<Complaint>>, "prompt")
                      ELSE [shell EXCEPT !.at = IF dir THEN "list" ELSE "pump", !.fd = Min(FreeFds(Me))]
      PROVE  ShellInv'
    <2> DEFINE m == Min(FreeFds(Me))
    <2>1. /\ FreeFds(Me) # {}
          /\ \/ Stop("path")
             \/ files' = [files EXCEPT ![Me] = [files[Me] EXCEPT ![m] = f]] /\ UNCHANGED <<alive, stopped>>
        BY <1>3, Zenon DEF Open, OnlyFiles
    <2>2. FreeFds(Me) \in SUBSET Fd
        BY DEF FreeFds
    <2>3. m \in FreeFds(Me)
        BY <2>1, <2>2, LeastFd
    <2>4. m \in Fd \ {0, 1} /\ StartFiles[m] = None
        BY <1>1, <2>3, StartFacts DEF FreeFds, Tidy
    <2> HIDE DEF m
    <2>5. /\ Fields \subseteq DOMAIN shell' /\ shell'.me = shell.me
          /\ shell'.at \notin {"prompt", "read"}
          /\ IF f = None THEN shell'.at = "put" /\ shell'.then = "prompt"
             ELSE shell'.at \in {"list", "pump"} /\ shell'.fd = m
        <3>1. CASE f = None
            BY <1>1, <1>3, <3>1 DEF Fields, Prints
        <3>2. CASE f # None
            <4>1. PICK at \in {"list", "pump"} : shell' = [shell EXCEPT !.at = at, !.fd = m]
                BY <1>3, <3>2 DEF m
            <4> QED
                BY <1>1, <3>2, <4>1 DEF Fields
        <3> QED
            BY <3>1, <3>2
    <2>6. CASE Stop("path")
        <3>1. stopped' # "" /\ DOMAIN files' = Task
            BY <2>6 DEF Stop, NoFiles
        <3> QED
            BY <2>5, <3>1, StepStops
    <2>7. CASE /\ files' = [files EXCEPT ![Me] = [files[Me] EXCEPT ![m] = f]]
               /\ UNCHANGED <<alive, stopped>>
        <3>1. Me' = Me /\ DOMAIN files' = Task /\ files'[Me] = [StartFiles EXCEPT ![m] = f]
            BY <1>1, <2>5, <2>7 DEF Tidy, Me
        <3>2. files'[Me] = [fd \in Fd |-> IF fd = m THEN f ELSE StartFiles[fd]]
            BY <3>1, StartFacts
        <3>3. CASE f = None
            <4>1. \A fd \in Fd : (IF fd = m THEN f ELSE StartFiles[fd]) = StartFiles[fd]
                BY <2>4, <3>3
            <4>2. files'[Me] = StartFiles
                BY <3>2, <4>1, StartFacts
            <4> QED
                BY <1>1, <2>5, <2>7, <3>1, <3>3, <4>2 DEF ShellInv, Tidy, Home, Abroad
        <3>4. CASE f # None
            <4>1. /\ DOMAIN files'[Me] = Fd /\ files'[Me] = [fd \in Fd |-> files'[Me][fd]]
                  /\ \A fd \in Fd \ {m} : files'[Me][fd] = StartFiles[fd]
                BY <3>2
            <4>2. OneMore'
                BY <1>1, <2>4, <2>5, <2>7, <3>1, <3>4, <4>1 DEF OneMore, Tidy
            <4> QED
                BY <1>1, <2>5, <2>7, <3>1, <3>4, <4>2 DEF ShellInv, Home, Abroad
        <3> QED
            BY <3>3, <3>4
    <2> QED
        BY <2>1, <2>6, <2>7
<1>4. CASE ~(Stop("argument") /\ shell' = [shell EXCEPT !.at = "ended"])
    <2> DEFINE dir == Builtin[shell.cmd] = "ls"
    <2>1. PICK path : LET f == IF dir THEN OpenedDir(path) ELSE Opened(path, TRUE, FALSE)
                      IN  /\ Open(Me, path, TRUE, FALSE, dir)
                          /\ shell' = IF f = None THEN Prints(<<Complaint>>, "prompt")
                                      ELSE [shell EXCEPT !.at = IF dir THEN "list" ELSE "pump", !.fd = Min(FreeFds(Me))]
        BY <1>4, Zenon DEF OpenArgument
    <2>2. dir \in BOOLEAN
        OBVIOUS
    <2> HIDE DEF dir
    <2> QED
        BY <1>3, <2>1, <2>2
<1> QED
    BY <1>2, <1>4

\* A child is forked: it has files of its own.
LEMMA LaunchInv ==
    ASSUME ShellInv, HasShell, Launch
    PROVE  ShellInv'
<1>1. PICK c \in Task :
        Fork(Me, c) /\ shell' = [shell EXCEPT !.at = "wait", !.child = [does |-> "exec", task |-> c]]
    BY DEF Launch
<1>2. /\ shell.at = "run" /\ stopped = "" /\ Tidy /\ Fields \subseteq DOMAIN shell
      /\ DOMAIN files = Task /\ Me \in Task
    BY DEF Launch, Fork, At, Runs, ShellInv, Home
<1>3. /\ c \notin alive /\ alive' = alive \cup {c} /\ files' = [files EXCEPT ![c] = StartFiles]
      /\ stopped' = stopped
    BY <1>1 DEF Fork
<1>4. /\ Fields \subseteq DOMAIN shell' /\ shell'.me = Me /\ shell'.at = "wait"
      /\ shell'.child = [does |-> "exec", task |-> c]
    BY <1>1, <1>2 DEF Fields, Me
<1>5. Me' = Me /\ DOMAIN files' = Task
    BY <1>2, <1>3, <1>4 DEF Me
<1>6. /\ alive' = {Me, c} /\ c # Me /\ files'[Me] = StartFiles
    BY <1>2, <1>3 DEF Tidy
<1>7. /\ shell'.child.does = "exec" /\ shell'.child.task = c
      /\ {"does", "task"} \subseteq DOMAIN shell'.child
    BY <1>4
<1>8. Waits'
    BY <1>5, <1>6, <1>7 DEF Waits
<1> QED
    BY <1>2, <1>4, <1>5, <1>8 DEF ShellInv, Home, Abroad

\* The child's own steps: it prints, or is no program, which may stop the kernel, and it
\* ends.
LEMMA ChildInv ==
    ASSUME ShellInv, HasShell, ChildExec \/ ChildFails \/ ChildPrints \/ ChildExits
    PROVE  ShellInv'
<1>1. /\ shell.at = "wait" /\ stopped = "" /\ shell.child.does # "nothing"
      /\ Waits /\ Fields \subseteq DOMAIN shell /\ DOMAIN files = Task /\ Me \in Task
    BY DEF ChildExec, ChildFails, ChildPrints, ChildExits, ChildDoes, Runs, ShellInv
<1>2. \/ Stop("program") /\ shell' = [shell EXCEPT !.at = "ended"]
      \/ \E what : /\ shell' = [shell EXCEPT !.child = [shell.child EXCEPT !.does = what]]
                   /\ what = "nothing" => ChildExits
                   /\ \/ ChildExits /\ what = "nothing"
                      \/ UNCHANGED <<files, alive, stopped>>
                      \/ \E why \in {"device", "regular", "directory"} : Stop(why)
    <2>1. CASE ChildExec
        BY <2>1 DEF ChildExec, ChildThen, filesVars
    <2>2. CASE ChildFails
        BY <2>2 DEF ChildFails, ChildThen, Write, VfsWrite, TtyWrite
    <2>3. CASE ChildPrints
        <3>1. PICK text : Write(shell.child.task, 0, text) /\ ChildThen("exit")
            BY <2>3 DEF ChildPrints
        <3>2. UNCHANGED <<files, alive, stopped>> \/ \E why \in {"device", "regular", "directory"} : Stop(why)
            BY <3>1 DEF Write, VfsWrite, TtyWrite
        <3> QED
            BY <3>1, <3>2 DEF ChildThen
    <2>4. CASE ChildExits
        BY <2>4 DEF ChildExits, ChildThen
    <2> QED
        BY <2>1, <2>2, <2>3, <2>4
<1>3. CASE Stop("program") /\ shell' = [shell EXCEPT !.at = "ended"]
    <2>1. DOMAIN files' = Task
        BY <1>3 DEF Stop, NoFiles
    <2>2. Fields \subseteq DOMAIN shell' /\ shell'.me = shell.me /\ shell'.at = "ended"
        BY <1>1, <1>3 DEF Fields
    <2> QED
        BY <2>1, <2>2, StepEnds
<1>4. ASSUME NEW what, shell' = [shell EXCEPT !.child = [shell.child EXCEPT !.does = what]],
             what = "nothing" => ChildExits,
             \/ ChildExits /\ what = "nothing"
             \/ UNCHANGED <<files, alive, stopped>>
             \/ \E why \in {"device", "regular", "directory"} : Stop(why)
      PROVE  ShellInv'
    <2>1. /\ Fields \subseteq DOMAIN shell' /\ shell'.me = Me /\ shell'.at = "wait"
          /\ shell'.child = [shell.child EXCEPT !.does = what]
        BY <1>1, <1>4 DEF Fields, Me
    <2>2. /\ shell'.child.does = what /\ shell'.child.task = shell.child.task
          /\ {"does", "task"} \subseteq DOMAIN shell'.child
        BY <1>1, <2>1 DEF Waits
    <2>3. Me' = Me
        BY <2>1 DEF Me
    <2>4. CASE ChildExits
        <3>1. Exit(shell.child.task)
            BY <2>4 DEF ChildExits
        <3>2. what = "nothing"
            BY <2>1, <2>2, <2>4, <1>1 DEF ChildExits, ChildThen, Waits, Fields
        <3>3. alive' = {Me} /\ files'[Me] = StartFiles /\ DOMAIN files' = Task
            BY <1>1, <3>1 DEF Exit, Waits
        <3>4. Waits'
            BY <2>2, <2>3, <3>2, <3>3 DEF Waits
        <3> QED
            BY <1>1, <2>1, <2>3, <3>3, <3>4 DEF ShellInv, Home, Abroad
    <2>5. CASE ~ChildExits /\ UNCHANGED <<files, alive, stopped>>
        <3>1. Waits'
            BY <1>1, <1>4, <2>2, <2>3, <2>5 DEF Waits
        <3> QED
            BY <1>1, <2>1, <2>3, <2>5, <3>1 DEF ShellInv, Home, Abroad
    <2>6. ASSUME NEW why \in {"device", "regular", "directory"}, Stop(why) PROVE ShellInv'
        <3>1. stopped' # "" /\ DOMAIN files' = Task
            BY <2>6 DEF Stop, NoFiles
        <3> QED
            BY <2>1, <3>1, StepStops DEF Me
    <2> QED
        BY <1>4, <2>4, <2>5, <2>6
<1> QED
    BY <1>2, <1>3, <1>4

\* The shell goes on when its child has ended.
LEMMA WaitedInv ==
    ASSUME ShellInv, HasShell, Waited
    PROVE  ShellInv'
<1>1. /\ stopped = "" /\ Tidy /\ Fields \subseteq DOMAIN shell
      /\ UNCHANGED <<files, alive, stopped>> /\ shell' = [shell EXCEPT !.at = "prompt"]
    BY DEF Waited, At, Runs, ShellInv, Waits, Tidy, filesVars
<1>2. Fields \subseteq DOMAIN shell' /\ shell'.me = shell.me /\ shell'.at = "prompt"
    BY <1>1 DEF Fields
<1> QED
    BY <1>1, <1>2, StepStays DEF Home

\* A key changes what the shell has read, if it waits for one.
LEMMA KeyKeepsShell ==
    ASSUME ShellInv, NEW code, Key(code)
    PROVE  ShellInv'
<1>1. /\ stopped = "" /\ UNCHANGED <<files, alive, stopped>>
      /\ \/ shell' = shell
         \/ /\ shell.at = "read"
            /\ \E char : shell' = [shell EXCEPT !.at = "got", !.char = char]
    BY DEF Key, filesVars
<1>2. CASE shell' = shell
    BY <1>1, <1>2 DEF ShellInv, HasShell, Tidy, OneMore, Waits, Me
<1>3. CASE shell' # shell
    <2>1. PICK char : shell.at = "read" /\ shell' = [shell EXCEPT !.at = "got", !.char = char]
        BY <1>1, <1>3
    <2>2. HasShell /\ Tidy /\ Fields \subseteq DOMAIN shell
        BY <1>1, <2>1 DEF HasShell, ShellInv, Home
    <2>3. Fields \subseteq DOMAIN shell' /\ shell'.me = shell.me /\ shell'.at = "got"
        BY <2>1, <2>2 DEF Fields
    <2> QED
        BY <1>1, <2>2, <2>3, StepStays DEF Home
<1> QED
    BY <1>2, <1>3

\* Every step keeps the shell's things in order.
LEMMA ShellNextInv ==
    ASSUME ShellInv, [ShellNext]_<<filesVars, shellVars>>
    PROVE  ShellInv'
<1>1. CASE UNCHANGED <<filesVars, shellVars>>
    BY <1>1 DEF filesVars, shellVars, ShellInv, HasShell, Tidy, OneMore, Waits, Me
<1>2. CASE shell.at = "none" /\ UNCHANGED shellVars
    BY <1>2 DEF shellVars, ShellInv, HasShell
<1>3. CASE HasShell /\ ShellStep
    BY <1>3, LineInv, LeaveInv, PutInv, CloseInv, LoopInv, OpenInv, LaunchInv, ChildInv, WaitedInv, Zenon
       DEF ShellStep
<1>4. ASSUME NEW code, Key(code) PROVE ShellInv'
    BY <1>4, KeyKeepsShell
<1>5. CASE (FilesStopped /\ UNCHANGED shellVars) \/ Quiet
    BY <1>1, <1>5 DEF FilesStopped, Quiet
<1> QED
    BY <1>1, <1>2, <1>3, <1>4, <1>5 DEF ShellNext, HasShell

\* It starts with its terminals.
LEMMA ShellFirstInv ==
    ASSUME ShellInit
    PROVE  ShellInv
<1> SUFFICES ASSUME HasShell PROVE ShellInv
    BY DEF ShellInv
<1>1. PICK t \in alive : shell = FirstPrompt(t)
    BY DEF ShellInit, HasShell, NoShell
<1>2. PICK u \in Task : alive = {u} /\ files = [NoFiles EXCEPT ![u] = StartFiles] /\ stopped = ""
    BY DEF ShellInit, FilesInit
<1>3. /\ Me = u /\ u = t /\ DOMAIN files = Task /\ files[u] = StartFiles
    BY <1>1, <1>2 DEF FirstPrompt, Me, NoFiles
<1>4. Fields \subseteq DOMAIN shell /\ shell.at = "prompt"
    BY <1>1 DEF Fields, FirstPrompt
<1> QED
    BY <1>2, <1>3, <1>4 DEF ShellInv, Tidy, Abroad

\* At its prompt the shell has its terminals open and nothing else, and no child
\* lives: b_cat, b_hex and b_ls close what they open on every path, and main
\* waits for every program it starts, whatever the kernel answers.
THEOREM ShellLeavesNothing == ShellSpec => []ShellCloses
<1>1. ShellInit => ShellInv
    BY ShellFirstInv
<1>2. ShellInv /\ [ShellNext]_<<filesVars, shellVars>> => ShellInv'
    BY ShellNextInv
<1>3. ShellInv => ShellCloses
    BY DEF ShellInv, ShellCloses, Home, Tidy, Me
<1> QED
    BY <1>1, <1>2, <1>3, PTL DEF ShellSpec

-----------------------------------------------------------------------------
(***************************************************************************)
(* Folds over sequences: what each step keeps holds at the end.            *)
(***************************************************************************)

\* What holds at first and is kept by each step, holds at the end.
LEMMA StepsKeep ==
    ASSUME NEW S, NEW N \in Nat, NEW f, f[0] \in S,
           \A n \in 1..N : f[n - 1] \in S => f[n] \in S
    PROVE  f[N] \in S
<1> DEFINE B == {n \in 0..N : f[n] \notin S}
           R == {ss \in Nat \X Nat : ss[1] < ss[2]}
<1>1. SUFFICES ASSUME f[N] \notin S
               PROVE  FALSE
    OBVIOUS
<1>2. B \in SUBSET Nat /\ B # {}
    BY <1>1
<1>3. R = OpToRel(<, Nat)
    BY DEF OpToRel
<1>4. IsWellFoundedOn(R, Nat)
    BY <1>3, NatLessThanWellFounded
<1>5. \A x, y \in Nat : y < x => <<y, x>> \in R
    OBVIOUS
<1> HIDE DEF R
<1>6. PICK x \in B : \A y \in B : <<y, x>> \notin R
    BY <1>2, <1>4, WFMin
<1>7. x # 0 /\ x \in 1..N /\ x - 1 \in 0..N
    BY <1>6
<1>8. x - 1 \notin B
    <2>1. x \in Nat /\ x - 1 \in Nat /\ x - 1 < x
        BY <1>7
    <2>2. <<x - 1, x>> \in R
        BY <1>5, <2>1
    <2> QED
        BY <1>6, <2>2
<1> QED
    BY <1>6, <1>7, <1>8

LEMMA LeastOf ==
    ASSUME NEW T \in SUBSET Nat, T # {}
    PROVE  Min(T) \in T /\ \A y \in T : Min(T) <= y
<1> DEFINE R == {ss \in Nat \X Nat : ss[1] < ss[2]}
<1>1. R = OpToRel(<, Nat)
    BY DEF OpToRel
<1>2. IsWellFoundedOn(R, Nat)
    BY <1>1, NatLessThanWellFounded
<1>3. \A x, y \in Nat : <<y, x>> \notin R => x <= y
    OBVIOUS
<1> HIDE DEF R
<1>4. \E x \in T : \A y \in T : <<y, x>> \notin R
    BY <1>2, WFMin
<1>5. \E x \in T : \A y \in T : x <= y
    BY <1>3, <1>4
<1> QED
    BY <1>5 DEF Min

\* The greatest of some places up to k, if k is one of them.
LEMMA GreatestIs ==
    ASSUME NEW k \in Nat, NEW s \in SUBSET (1..k), k \in s
    PROVE  Max(s) = k
<1>1. \A x \in s : x \in Nat /\ k >= x
    OBVIOUS
<1>2. \A x \in s : (\A y \in s : x >= y) => x = k
    BY <1>1
<1> QED
    BY <1>1, <1>2 DEF Max

\* A fold over N places exists, as a function of the set of places.
FoldOver(S, N, b, F) ==
    {f \in [SUBSET (1..N) -> S] :
        f = [s \in SUBSET (1..N) |-> IF s = {} THEN b ELSE F[<<Max(s), f[s \ {Max(s)}]>>]]}

LEMMA FoldExists ==
    ASSUME NEW S, NEW N \in Nat, NEW b \in S, NEW F \in [(1..N) \X S -> S]
    PROVE  FoldOver(S, N, b, F) # {}
<1> DEFINE h == [M \in 0..N |-> IF FoldOver(S, M, b, F) # {} THEN 1 ELSE 0]
<1>1. FoldOver(S, 0, b, F) # {}
    <2> DEFINE f == [s \in SUBSET (1..0) |-> b]
    <2>1. \A s \in SUBSET (1..0) : s = {}
        OBVIOUS
    <2>2. f \in [SUBSET (1..0) -> S]
        OBVIOUS
    <2>3. f = [s \in SUBSET (1..0) |-> IF s = {} THEN b ELSE F[<<Max(s), f[s \ {Max(s)}]>>]]
        BY <2>1
    <2> QED
        BY <2>2, <2>3 DEF FoldOver
<1>2. ASSUME NEW M \in 1..N, FoldOver(S, M - 1, b, F) # {}
      PROVE  FoldOver(S, M, b, F) # {}
    <2>1. PICK g \in [SUBSET (1..M - 1) -> S] :
            g = [s \in SUBSET (1..M - 1) |-> IF s = {} THEN b ELSE F[<<Max(s), g[s \ {Max(s)}]>>]]
        BY <1>2 DEF FoldOver
    <2> DEFINE f == [s \in SUBSET (1..M) |-> IF M \in s THEN F[<<M, g[s \ {M}]>>] ELSE g[s]]
    <2>2. \A s \in SUBSET (1..M) : s \ {M} \in SUBSET (1..M - 1) /\ (M \notin s => s \in SUBSET (1..M - 1))
        OBVIOUS
    <2>3. f \in [SUBSET (1..M) -> S]
        <3>1. M \in 1..N
            OBVIOUS
        <3>2. \A s \in SUBSET (1..M) : IF M \in s THEN F[<<M, g[s \ {M}]>>] \in S ELSE g[s] \in S
            BY <2>1, <2>2
        <3> QED
            BY <3>2
    <2>4. ASSUME NEW s \in SUBSET (1..M)
          PROVE  f[s] = IF s = {} THEN b ELSE F[<<Max(s), f[s \ {Max(s)}]>>]
        <3>1. CASE M \in s
            <4>1. Max(s) = M
                BY <3>1, GreatestIs
            <4>2. f[s] = F[<<M, g[s \ {M}]>>] /\ s \ {M} \in SUBSET (1..M) /\ M \notin s \ {M}
                BY <3>1
            <4>3. f[s \ {M}] = g[s \ {M}]
                BY <4>2
            <4> HIDE DEF f
            <4> QED
                BY <3>1, <4>1, <4>2, <4>3
        <3>2. CASE M \notin s
            <4>1. f[s] = g[s] /\ s \in SUBSET (1..M - 1)
                BY <2>2, <3>2
            <4>2. f[s \ {Max(s)}] = g[s \ {Max(s)}]
                BY <3>2
            <4> HIDE DEF f
            <4>3. g[s] = IF s = {} THEN b ELSE F[<<Max(s), g[s \ {Max(s)}]>>]
                BY <2>1, <4>1
            <4> QED
                BY <4>1, <4>2, <4>3
        <3> QED
            BY <3>1, <3>2
    <2>5. f = [s \in SUBSET (1..M) |-> IF s = {} THEN b ELSE F[<<Max(s), f[s \ {Max(s)}]>>]]
        BY <2>4
    <2> QED
        BY <2>3, <2>5 DEF FoldOver
<1>3. /\ h[0] = 1 /\ (h[N] = 1 <=> FoldOver(S, N, b, F) # {})
      /\ \A M \in 1..N : h[M - 1] = 1 => h[M] = 1
    <2>1. \A M \in 0..N : h[M] = 1 <=> FoldOver(S, M, b, F) # {}
        OBVIOUS
    <2>2. 0 \in 0..N /\ N \in 0..N /\ \A M \in 1..N : M - 1 \in 0..N /\ M \in 0..N
        OBVIOUS
    <2> HIDE DEF h
    <2> QED
        BY <1>1, <1>2, <2>1, <2>2
<1> HIDE DEF h
<1>4. h[N] = 1
    <2> DEFINE One == {1}
    <2>1. \A x : x \in One <=> x = 1
        OBVIOUS
    <2> HIDE DEF One
    <2>2. h[0] \in One /\ \A M \in 1..N : h[M - 1] \in One => h[M] \in One
        BY <1>3, <2>1
    <2>3. h[N] \in One
        BY <2>2, StepsKeep
    <2> QED
        BY <2>1, <2>3
<1> QED
    BY <1>3, <1>4

LEMMA GreatestIn ==
    ASSUME NEW N \in Nat, NEW s \in SUBSET (1..N), s # {}
    PROVE  Max(s) \in s
<1> DEFINE T == {N - x : x \in s}
<1>1. T \in SUBSET Nat /\ T # {} /\ \A x \in s : x \in Int /\ N - x \in T
    <2>1. \A x \in s : x \in Int /\ N - x \in Nat /\ N - x \in T
        OBVIOUS
    <2>2. T \in SUBSET Nat
        BY <2>1
    <2>3. PICK x : x \in s
        OBVIOUS
    <2> QED
        BY <2>1, <2>2, <2>3
<1>2. \E x \in T : \A y \in T : x <= y
    <2> HIDE DEF T
    <2> QED
        BY <1>1, LeastOf
<1>3. \E x \in s : \A y \in s : x >= y
    <2>1. PICK x \in s : \A y \in T : N - x <= y
        BY <1>2
    <2>2. \A y \in s : N - x <= N - y /\ y \in Int /\ x \in Int
        BY <1>1, <2>1
    <2>3. \A y \in s : x >= y
        BY <2>2
    <2> QED
        BY <2>3
<1> QED
    BY <1>3 DEF Max

LEMMA PlacesUpTo ==
    ASSUME NEW N \in Nat
    PROVE  /\ 1..0 = {} /\ {} \in SUBSET (1..N)
           /\ \A k \in 1..N : /\ 1..k \in SUBSET (1..N) /\ 1..k # {}
                              /\ Max(1..k) = k /\ (1..k) \ {k} = 1..k - 1
<1>1. ASSUME NEW k \in 1..N
      PROVE  1..k \in SUBSET (1..N) /\ k \in 1..k /\ k \in Nat /\ (1..k) \ {k} = 1..k - 1
    OBVIOUS
<1>2. ASSUME NEW k \in 1..N
      PROVE  1..k # {} /\ Max(1..k) = k
    BY <1>1, GreatestIs
<1> QED
    BY <1>1, <1>2

\* What an archive is made of.
Record == [name : Seq(STRING) \ {<<>>}, dir : BOOLEAN, size : Nat]

LEMMA BlocksPositive ==
    ASSUME NEW r \in Record
    PROVE  Blocks(r) \in Nat \ {0}
<1>1. CASE r.dir
    BY <1>1 DEF Blocks
<1>2. CASE ~r.dir
    <2> DEFINE x == r.size + Block - 1
    <2>1. x \in Nat /\ Block \in Nat \ {0}
        BY ArchiveAssumption DEF Record
    <2> HIDE DEF x
    <2>2. x \div Block \in Nat
        BY <2>1
    <2> QED
        BY <1>2, <2>2 DEF Blocks, x
<1> QED
    BY <1>1, <1>2

BlocksOf(q) == FoldLeft(LAMBDA sum, r : sum + Blocks(r), 0, q)

\* The blocks of some records are the sum, record for record.
LEMMA BlocksSum ==
    ASSUME NEW q \in Seq(Record)
    PROVE  \E f \in [0..Len(q) -> Nat] :
               /\ f[0] = 0 /\ \A k \in 1..Len(q) : f[k] = f[k - 1] + Blocks(q[k])
               /\ BlocksOf(q) = f[Len(q)]
<1> DEFINE N == Len(q)
           F == [x \in (1..N) \X Nat |-> x[2] + Blocks(q[x[1]])]
           it == CHOOSE it : it = [s \in SUBSET DOMAIN q |-> IF s = {} THEN 0 ELSE it[s \ {Max(s)}] + Blocks(q[Max(s)])]
<1>1. N \in Nat /\ DOMAIN q = 1..N /\ \A k \in 1..N : q[k] \in Record
    OBVIOUS
<1>2. BlocksOf(q) = it[DOMAIN q]
    BY DEF BlocksOf, FoldLeft, MapThenFoldSet
<1> HIDE DEF N
<1>3. \A k \in 1..N : Blocks(q[k]) \in Nat
    BY <1>1, BlocksPositive
<1>4. F \in [(1..N) \X Nat -> Nat] /\ \A k \in 1..N, v \in Nat : F[<<k, v>>] = v + Blocks(q[k])
    BY <1>3
<1> HIDE DEF F
<1>5. FoldOver(Nat, N, 0, F) # {}
    <2>1. 0 \in Nat
        OBVIOUS
    <2> QED
        BY <1>1, <1>4, <2>1, FoldExists
<1>6. PICK g \in [SUBSET (1..N) -> Nat] :
        g = [s \in SUBSET (1..N) |-> IF s = {} THEN 0 ELSE F[<<Max(s), g[s \ {Max(s)}]>>]]
    BY <1>5 DEF FoldOver
<1>7. g = [s \in SUBSET (1..N) |-> IF s = {} THEN 0 ELSE g[s \ {Max(s)}] + Blocks(q[Max(s)])]
    <2>1. ASSUME NEW s \in SUBSET (1..N), s # {}
          PROVE  g[s] = g[s \ {Max(s)}] + Blocks(q[Max(s)])
        <3>1. Max(s) \in 1..N /\ s \ {Max(s)} \in SUBSET (1..N)
            BY <1>1, <2>1, GreatestIn
        <3>2. g[s] = F[<<Max(s), g[s \ {Max(s)}]>>] /\ g[s \ {Max(s)}] \in Nat
            BY <1>6, <2>1, <3>1
        <3> QED
            BY <1>4, <3>1, <3>2
    <2> QED
        BY <1>6, <2>1
<1>8. it = [s \in SUBSET (1..N) |-> IF s = {} THEN 0 ELSE it[s \ {Max(s)}] + Blocks(q[Max(s)])]
    BY <1>1, <1>7
<1> HIDE DEF it
<1> DEFINE f == [k \in 0..N |-> it[1..k]]
<1>9. f[0] = 0 /\ \A k \in 1..N : f[k] = f[k - 1] + Blocks(q[k])
    <2>1. it[1..0] = 0
        BY <1>1, <1>8, PlacesUpTo
    <2>2. ASSUME NEW k \in 1..N PROVE it[1..k] = it[1..k - 1] + Blocks(q[k])
        <3>1. /\ 1..k \in SUBSET (1..N) /\ 1..k # {} /\ Max(1..k) = k /\ (1..k) \ {k} = 1..k - 1
            BY <1>1, PlacesUpTo
        <3>2. it[1..k] = it[(1..k) \ {Max(1..k)}] + Blocks(q[Max(1..k)])
            BY <1>8, <3>1
        <3> QED
            BY <3>1, <3>2
    <2>3. 0 \in 0..N /\ \A k \in 1..N : k \in 0..N /\ k - 1 \in 0..N
        BY <1>1
    <2> QED
        BY <2>1, <2>2, <2>3
<1>10. ASSUME NEW k \in 0..N PROVE f[k] \in Nat
    <2>1. k \in Nat /\ f[0] \in Nat /\ \A n \in 1..k : n \in 1..N
        BY <1>1, <1>9
    <2> HIDE DEF f
    <2>2. \A n \in 1..k : f[n - 1] \in Nat => f[n] \in Nat
        BY <1>3, <1>9, <2>1
    <2> QED
        BY <2>1, <2>2, StepsKeep
<1>11. BlocksOf(q) = f[N]
    BY <1>1, <1>2
<1>12. f \in [0..N -> Nat]
    BY <1>10
<1> QED
    BY <1>9, <1>11, <1>12 DEF N

\* Sums of the same blocks agree.
LEMMA SumsAgree ==
    ASSUME NEW a, NEW n \in Nat, NEW f \in [0..n -> Nat], NEW g \in [0..n -> Nat],
           f[0] = g[0],
           \A k \in 1..n : f[k] = f[k - 1] + Blocks(a[k]) /\ g[k] = g[k - 1] + Blocks(a[k])
    PROVE  f[n] = g[n]
<1> DEFINE h == [k \in 0..n |-> IF f[k] = g[k] THEN 1 ELSE 0]
           One == {1}
<1>1. /\ h[0] = 1 /\ (h[n] = 1 <=> f[n] = g[n])
      /\ \A k \in 1..n : h[k - 1] = 1 => h[k] = 1
    <2>1. \A k \in 0..n : h[k] = 1 <=> f[k] = g[k]
        OBVIOUS
    <2>2. 0 \in 0..n /\ n \in 0..n /\ \A k \in 1..n : k - 1 \in 0..n /\ k \in 0..n
        OBVIOUS
    <2> HIDE DEF h
    <2> QED
        BY <2>1, <2>2
<1> HIDE DEF h
<1>2. \A x : x \in One <=> x = 1
    OBVIOUS
<1> HIDE DEF One
<1>3. h[0] \in One /\ \A k \in 1..n : h[k - 1] \in One => h[k] \in One
    BY <1>1, <1>2
<1>4. h[n] \in One
    BY <1>3, StepsKeep
<1> QED
    BY <1>1, <1>2, <1>4

\* Where the records lie: each behind the one before it.
LEMMA Headers ==
    ASSUME NEW a \in Seq(Record)
    PROVE  /\ Header(a, 1) = 0
           /\ \A i \in 1..Len(a) + 1 : Header(a, i) \in Nat
           /\ \A i \in 1..Len(a) : Header(a, i + 1) = Header(a, i) + Block * Blocks(a[i])
<1> DEFINE P(i) == SubSeq(a, 1, i - 1)
<1>1. \A i \in 1..Len(a) + 1 : /\ P(i) \in Seq(Record) /\ Len(P(i)) = i - 1 /\ i - 1 \in Nat
                              /\ \A k \in 1..i - 1 : P(i)[k] = a[k]
    OBVIOUS
<1>2. \A i : Header(a, i) = Block * BlocksOf(P(i))
    BY DEF Header, BlocksOf
<1> HIDE DEF P
<1>3. \A i \in 1..Len(a) + 1 : \E f \in [0..i - 1 -> Nat] :
        /\ f[0] = 0 /\ \A k \in 1..i - 1 : f[k] = f[k - 1] + Blocks(a[k])
        /\ BlocksOf(P(i)) = f[i - 1]
    <2> SUFFICES ASSUME NEW i \in 1..Len(a) + 1
                 PROVE  \E f \in [0..i - 1 -> Nat] :
                            /\ f[0] = 0 /\ \A k \in 1..i - 1 : f[k] = f[k - 1] + Blocks(a[k])
                            /\ BlocksOf(P(i)) = f[i - 1]
        OBVIOUS
    <2>1. PICK f \in [0..Len(P(i)) -> Nat] :
            /\ f[0] = 0 /\ \A k \in 1..Len(P(i)) : f[k] = f[k - 1] + Blocks(P(i)[k])
            /\ BlocksOf(P(i)) = f[Len(P(i))]
        BY <1>1, BlocksSum
    <2> QED
        BY <1>1, <2>1
<1>4. \A i \in 1..Len(a) + 1 : BlocksOf(P(i)) \in Nat
    <2> SUFFICES ASSUME NEW i \in 1..Len(a) + 1 PROVE BlocksOf(P(i)) \in Nat
        OBVIOUS
    <2>1. i - 1 \in 0..i - 1
        OBVIOUS
    <2> QED
        BY <1>3, <2>1
<1>5. BlocksOf(P(1)) = 0
    <2>1. 1 \in 1..Len(a) + 1 /\ 1 - 1 = 0
        OBVIOUS
    <2> QED
        BY <1>3, <2>1
<1>6. ASSUME NEW i \in 1..Len(a)
      PROVE  BlocksOf(P(i + 1)) = BlocksOf(P(i)) + Blocks(a[i])
    <2>1. i \in 1..Len(a) + 1 /\ i + 1 \in 1..Len(a) + 1 /\ i + 1 - 1 = i /\ i - 1 \in Nat
        OBVIOUS
    <2>2. PICK f \in [0..i - 1 -> Nat] :
            /\ f[0] = 0 /\ \A k \in 1..i - 1 : f[k] = f[k - 1] + Blocks(a[k])
            /\ BlocksOf(P(i)) = f[i - 1]
        BY <1>3, <2>1
    <2>3. PICK g \in [0..i -> Nat] :
            /\ g[0] = 0 /\ \A k \in 1..i : g[k] = g[k - 1] + Blocks(a[k])
            /\ BlocksOf(P(i + 1)) = g[i]
        <3> DEFINE Sum(j, n) == \E g \in [0..n -> Nat] :
                        /\ g[0] = 0 /\ \A k \in 1..n : g[k] = g[k - 1] + Blocks(a[k])
                        /\ BlocksOf(P(j)) = g[n]
        <3>1. \A j \in 1..Len(a) + 1 : Sum(j, j - 1)
            BY <1>3
        <3> HIDE DEF Sum
        <3>2. Sum(i + 1, i)
            BY <2>1, <3>1
        <3> QED
            BY <3>2 DEF Sum
    <2> DEFINE e == [k \in 0..i - 1 |-> g[k]]
    <2>4. /\ e \in [0..i - 1 -> Nat] /\ e[0] = 0 /\ e[i - 1] = g[i - 1]
          /\ \A k \in 1..i - 1 : e[k] = e[k - 1] + Blocks(a[k])
        <3>1. \A k \in 0..i - 1 : k \in 0..i
            OBVIOUS
        <3>2. 0 \in 0..i - 1 /\ i - 1 \in 0..i - 1 /\ \A k \in 1..i - 1 : k \in 0..i - 1 /\ k - 1 \in 0..i - 1 /\ k \in 1..i
            OBVIOUS
        <3> QED
            BY <2>3, <3>1, <3>2
    <2> HIDE DEF e
    <2>5. f[i - 1] = e[i - 1]
        <3>1. \A k \in 1..i - 1 : f[k] = f[k - 1] + Blocks(a[k]) /\ e[k] = e[k - 1] + Blocks(a[k])
            BY <2>2, <2>4
        <3>2. f[0] = e[0]
            BY <2>2, <2>4
        <3> DEFINE n == i - 1
        <3>3. n \in Nat /\ f \in [0..n -> Nat] /\ e \in [0..n -> Nat]
            BY <2>1, <2>4
        <3> HIDE DEF n
        <3>4. \A k \in 1..n : f[k] = f[k - 1] + Blocks(a[k]) /\ e[k] = e[k - 1] + Blocks(a[k])
            BY <3>1 DEF n
        <3>5. f[n] = e[n]
            BY <3>2, <3>3, <3>4, SumsAgree
        <3> QED
            BY <3>5 DEF n
    <2>6. i \in 1..i
        OBVIOUS
    <2> QED
        BY <2>2, <2>3, <2>4, <2>5, <2>6
<1>7. \A i \in 1..Len(a) + 1 : Header(a, i) \in Nat
    BY <1>2, <1>4, ArchiveAssumption
<1>8. Header(a, 1) = 0
    BY <1>2, <1>5, ArchiveAssumption
<1>9. ASSUME NEW i \in 1..Len(a)
      PROVE  Header(a, i + 1) = Header(a, i) + Block * Blocks(a[i])
    <2>1. \A x, y \in Nat : Block * (x + y) = Block * x + Block * y
        BY ArchiveAssumption
    <2>2. BlocksOf(P(i)) \in Nat /\ Blocks(a[i]) \in Nat
        BY <1>4, BlocksPositive
    <2> QED
        BY <1>2, <1>6, <2>1, <2>2
<1> QED
    BY <1>7, <1>8, <1>9

\* Where a walk over the archive can be: at a record, or behind the last one.
Stops(a) == {Header(a, i) : i \in 1..Len(a)} \cup {at \in Nat : at >= End(a)}

LEMMA StopsAre ==
    ASSUME NEW a \in Seq(Record)
    PROVE  /\ End(a) \in Nat /\ Stops(a) \subseteq Nat /\ 0 \in Stops(a)
           /\ \A i \in 1..Len(a) + 1 : Header(a, i) \in Stops(a)
           /\ \A at \in Stops(a) : at < End(a) => IsHeader(a, at)
<1>1. Len(a) \in Nat /\ \A i \in 1..Len(a) + 1 : Header(a, i) \in Nat
    BY Headers
<1>2. End(a) \in Nat
    BY <1>1 DEF End
<1>3. \A i \in 1..Len(a) + 1 : Header(a, i) \in Stops(a)
    <2>1. \A i \in 1..Len(a) + 1 : i \in 1..Len(a) \/ Header(a, i) = End(a)
        BY <1>1 DEF End
    <2> QED
        BY <1>2, <2>1 DEF Stops
<1>4. Header(a, 1) = 0 /\ 1 \in 1..Len(a) + 1
    BY <1>1, Headers
<1>5. \A at \in Stops(a) : at \in Nat /\ (at < End(a) => IsHeader(a, at))
    BY <1>1, <1>2 DEF Stops, IsHeader
<1> QED
    BY <1>2, <1>3, <1>4, <1>5

LEMMA NextStop ==
    ASSUME NEW a \in Seq(Record), NEW at \in Stops(a)
    PROVE  /\ NextHeader(a, at) \in Stops(a)
           /\ at >= End(a) => NextHeader(a, at) >= End(a)
<1>1. End(a) \in Nat /\ at \in Nat /\ Block \in Nat
    BY StopsAre, ArchiveAssumption
<1>2. CASE at >= End(a)
    BY <1>1, <1>2 DEF NextHeader, Stops
<1>3. CASE ~(at >= End(a))
    <2> DEFINE i == RecordAt(a, at)
    <2>1. IsHeader(a, at)
        BY <1>1, <1>3, StopsAre
    <2>2. i \in 1..Len(a) /\ Header(a, i) = at
        BY <2>1 DEF IsHeader, RecordAt
    <2>3. NextHeader(a, at) = at + Block * Blocks(a[i])
        BY <1>3 DEF NextHeader
    <2> HIDE DEF i
    <2>4. NextHeader(a, at) = Header(a, i + 1) /\ i + 1 \in 1..Len(a) + 1
        BY <2>2, <2>3, Headers
    <2> QED
        BY <1>3, <2>4, StopsAre
<1> QED
    BY <1>2, <1>3

\* Records lie behind each other.
LEMMA HeadersOrdered ==
    ASSUME NEW a \in Seq(Record), NEW i \in 1..Len(a), NEW j \in 1..Len(a) + 1
    PROVE  i < j <=> Header(a, i) < Header(a, j)
<1>1. /\ Len(a) \in Nat /\ \A k \in 1..Len(a) + 1 : Header(a, k) \in Nat
      /\ \A k \in 1..Len(a) : Header(a, k + 1) > Header(a, k)
    <2>1. \A k \in 1..Len(a) : Blocks(a[k]) \in Nat \ {0}
        BY BlocksPositive
    <2>2. \A b \in Nat \ {0} : Block * b > 0 /\ Block * b \in Nat
        BY ArchiveAssumption
    <2>3. \A k \in 1..Len(a) : k \in 1..Len(a) + 1 /\ Header(a, k + 1) = Header(a, k) + Block * Blocks(a[k])
        BY Headers
    <2>4. \A k \in 1..Len(a) + 1 : Header(a, k) \in Nat
        BY Headers
    <2>5. ASSUME NEW k \in 1..Len(a) PROVE Header(a, k + 1) > Header(a, k)
        <3> DEFINE d == Block * Blocks(a[k])
        <3>1. d > 0 /\ d \in Nat /\ Header(a, k) \in Nat /\ Header(a, k + 1) = Header(a, k) + d
            BY <2>1, <2>2, <2>3, <2>4
        <3> HIDE DEF d
        <3> QED
            BY <3>1
    <2> QED
        BY <2>4, <2>5
<1>2. ASSUME NEW x \in 1..Len(a), NEW y \in 1..Len(a) + 1, x < y
      PROVE  Header(a, x) < Header(a, y)
    <2> DEFINE H == [k \in 1..Len(a) + 1 |-> Header(a, k)]
               S == {k \in Nat : k + x + 1 <= Len(a) + 1 => H[x] < H[k + x + 1]}
               f == [k \in 0..y - x - 1 |-> k]
    <2>1. \A k \in 1..Len(a) + 1 : H[k] = Header(a, k) /\ H[k] \in Nat
        BY <1>1
    <2>2. \A k \in 1..Len(a) : H[k + 1] > H[k]
        <3>1. \A k \in 1..Len(a) : k \in 1..Len(a) + 1 /\ k + 1 \in 1..Len(a) + 1
            BY <1>1
        <3> QED
            BY <1>1, <2>1, <3>1
    <2> HIDE DEF H
    <2>3. y - x - 1 \in Nat /\ f[0] \in S
        BY <1>1, <1>2, <2>2
    <2>4. ASSUME NEW n \in 1..y - x - 1, f[n - 1] \in S PROVE f[n] \in S
        <3>1. n \in Nat /\ n - 1 \in Nat /\ f[n] = n /\ f[n - 1] = n - 1
            BY <1>1, <1>2
        <3>2. n - 1 + x + 1 = n + x
            BY <3>1
        <3>3. ASSUME n + x + 1 <= Len(a) + 1 PROVE H[x] < H[n + x + 1]
            <4>1. n + x \in 1..Len(a) /\ n + x \in 1..Len(a) + 1 /\ n + x + 1 \in 1..Len(a) + 1 /\ x \in 1..Len(a) + 1
                BY <1>1, <3>1, <3>3
            <4>2. H[x] < H[n + x]
                BY <2>4, <3>1, <3>2, <4>1
            <4>3. H[n + x + 1] > H[n + x]
                BY <2>2, <4>1
            <4>4. H[x] \in Nat /\ H[n + x] \in Nat /\ H[n + x + 1] \in Nat
                BY <2>1, <4>1
            <4> QED
                BY <4>2, <4>3, <4>4
        <3> QED
            BY <3>1, <3>3
    <2>5. f[y - x - 1] \in S
        <3> HIDE DEF f, S
        <3> QED
            BY <2>3, <2>4, StepsKeep
    <2>6. y - x - 1 \in S
        BY <2>3, <2>5
    <2>7. H[x] < H[y]
        <3>1. y - x - 1 + x + 1 = y
            BY <1>1
        <3> QED
            BY <1>1, <2>6, <3>1
    <2>8. x \in 1..Len(a) + 1
        BY <1>1
    <2> QED
        BY <2>1, <2>7, <2>8
<1>3. CASE i < j
    BY <1>2, <1>3
<1>4. CASE i = j
    BY <1>1, <1>4
<1>5. CASE j < i
    <2>1. j \in 1..Len(a) /\ i \in 1..Len(a) + 1
        BY <1>1, <1>5
    <2>2. Header(a, j) < Header(a, i)
        BY <1>2, <1>5, <2>1
    <2> QED
        BY <1>1, <1>5, <2>1, <2>2
<1> QED
    BY <1>1, <1>3, <1>4, <1>5

\* The record that lies at an address.
LEMMA RecordThere ==
    ASSUME NEW a \in Seq(Record), NEW i \in 1..Len(a)
    PROVE  RecordAt(a, Header(a, i)) = i /\ IsHeader(a, Header(a, i)) /\ Header(a, i) < End(a)
<1>1. Len(a) \in Nat /\ \A j \in 1..Len(a) + 1 : Header(a, j) \in Nat
    BY Headers
<1>2. \A j \in 1..Len(a) : Header(a, j) = Header(a, i) => j = i
    <2>1. ASSUME NEW j \in 1..Len(a), Header(a, j) = Header(a, i) PROVE j = i
        <3>1. i \in 1..Len(a) + 1 /\ j \in 1..Len(a) + 1
            BY <1>1
        <3>2. (i < j <=> Header(a, i) < Header(a, j)) /\ (j < i <=> Header(a, j) < Header(a, i))
            BY <3>1, HeadersOrdered
        <3> QED
            BY <1>1, <2>1, <3>1, <3>2
    <2> QED
        BY <2>1
<1>3. RecordAt(a, Header(a, i)) = i
    BY <1>2, Zenon DEF RecordAt
<1>4. Header(a, i) < End(a)
    <2>1. Len(a) + 1 \in 1..Len(a) + 1 /\ i < Len(a) + 1
        BY <1>1
    <2>2. i < Len(a) + 1 <=> Header(a, i) < Header(a, Len(a) + 1)
        BY <2>1, HeadersOrdered
    <2> QED
        BY <2>1, <2>2 DEF End
<1> QED
    BY <1>3, <1>4 DEF IsHeader

\* No file of a name lies before an address.
NoneBefore(a, at, name) == \A i \in 1..Len(a) : Header(a, i) < at => a[i].dir \/ a[i].name # name

\* A record that is not the file is walked over.
LEMMA NoneNext ==
    ASSUME NEW a \in Seq(Record), NEW name, NEW at \in Stops(a), NoneBefore(a, at, name), ~IsFile(a, at, name)
    PROVE  NoneBefore(a, NextHeader(a, at), name)
<1>1. End(a) \in Nat /\ at \in Nat /\ Len(a) \in Nat
    BY StopsAre
<1>2. CASE at >= End(a)
    <2>1. ASSUME NEW i \in 1..Len(a) PROVE Header(a, i) < at
        BY <1>1, <1>2, RecordThere, Headers
    <2> QED
        BY <2>1 DEF NoneBefore
<1>3. CASE at < End(a)
    <2>1. PICK k \in 1..Len(a) : Header(a, k) = at
        BY <1>3, StopsAre DEF IsHeader
    <2>2. RecordAt(a, at) = k /\ IsHeader(a, at)
        BY <2>1, RecordThere
    <2>3. a[k].dir \/ a[k].name # name
        BY <2>2 DEF IsFile
    <2>4. NextHeader(a, at) = Header(a, k + 1) /\ k + 1 \in 1..Len(a) + 1
        <3>1. ~(at >= End(a))
            BY <1>1, <1>3
        <3> QED
            BY <2>1, <2>2, <3>1, Headers DEF NextHeader
    <2>5. ASSUME NEW i \in 1..Len(a), Header(a, i) < Header(a, k + 1) PROVE a[i].dir \/ a[i].name # name
        <3>1. i < k + 1
            BY <2>4, <2>5, HeadersOrdered
        <3>2. CASE i = k
            BY <2>3, <3>2
        <3>3. CASE i # k
            <4>1. i < k /\ k \in 1..Len(a) + 1
                BY <1>1, <3>1, <3>3
            <4>2. Header(a, i) < at
                BY <2>1, <4>1, HeadersOrdered
            <4> QED
                BY <4>2 DEF NoneBefore
        <3> QED
            BY <3>2, <3>3
    <2> QED
        BY <2>4, <2>5 DEF NoneBefore
<1> QED
    BY <1>1, <1>2, <1>3

\* The file that initrd_find_file finds is the first one of the name.
LEMMA FoundIsFirst ==
    ASSUME NEW a \in Seq(Record), NEW name, FindFile(a, name) # Naddr
    PROVE  /\ IsFile(a, FindFile(a, name), name)
           /\ NoneBefore(a, FindFile(a, name), name) /\ FindFile(a, name) \in Nat
<1> DEFINE N == Len(a)
           S == {w \in [found : BOOLEAN, at : Stops(a)] :
                   NoneBefore(a, w.at, name) /\ (w.found => IsFile(a, w.at, name))}
           Op(w) == IF w.found THEN w
                    ELSE IF IsFile(a, w.at, name) THEN [w EXCEPT !.found = TRUE]
                    ELSE [w EXCEPT !.at = NextHeader(a, @)]
           b == [found |-> FALSE, at |-> 0]
           F == [x \in (1..N) \X S |-> Op(x[2])]
           it == CHOOSE it : it = [s \in SUBSET DOMAIN a |-> IF s = {} THEN b ELSE Op(it[s \ {Max(s)}])]
<1>1. N \in Nat /\ DOMAIN a = 1..N
    OBVIOUS
<1>2. FindFile(a, name) = IF it[DOMAIN a].found THEN it[DOMAIN a].at ELSE Naddr
    BY DEF FindFile, FoldLeft, MapThenFoldSet
<1>3. \A w \in S : Op(w) \in S
    BY NextStop, NoneNext
<1>4. b \in S
    <2>1. NoneBefore(a, 0, name)
        BY Headers DEF NoneBefore
    <2> QED
        BY <2>1, StopsAre
<1> HIDE DEF N, Op, S, b
<1>5. F \in [(1..N) \X S -> S] /\ \A k \in 1..N, w \in S : F[<<k, w>>] = Op(w)
    BY <1>3
<1> HIDE DEF F
<1>6. FoldOver(S, N, b, F) # {}
    BY <1>1, <1>4, <1>5, FoldExists
<1>7. PICK g \in [SUBSET (1..N) -> S] :
        g = [s \in SUBSET (1..N) |-> IF s = {} THEN b ELSE F[<<Max(s), g[s \ {Max(s)}]>>]]
    BY <1>6 DEF FoldOver
<1>8. g = [s \in SUBSET (1..N) |-> IF s = {} THEN b ELSE Op(g[s \ {Max(s)}])]
    <2>1. ASSUME NEW s \in SUBSET (1..N), s # {}
          PROVE  g[s] = Op(g[s \ {Max(s)}])
        <3>1. Max(s) \in 1..N /\ s \ {Max(s)} \in SUBSET (1..N)
            BY <1>1, <2>1, GreatestIn
        <3>2. g[s] = F[<<Max(s), g[s \ {Max(s)}]>>] /\ g[s \ {Max(s)}] \in S
            BY <1>7, <2>1, <3>1
        <3> QED
            BY <1>5, <3>1, <3>2
    <2> QED
        BY <1>7, <2>1
<1>9. it = [s \in SUBSET (1..N) |-> IF s = {} THEN b ELSE Op(it[s \ {Max(s)}])]
    BY <1>1, <1>8
<1> HIDE DEF it
<1> DEFINE f == [k \in 0..N |-> it[1..k]]
<1>10. f[0] = b /\ \A k \in 1..N : f[k] = Op(f[k - 1])
    <2>1. it[1..0] = b
        BY <1>1, <1>9, PlacesUpTo
    <2>2. ASSUME NEW k \in 1..N PROVE it[1..k] = Op(it[1..k - 1])
        <3>1. /\ 1..k \in SUBSET (1..N) /\ 1..k # {} /\ Max(1..k) = k /\ (1..k) \ {k} = 1..k - 1
            BY <1>1, PlacesUpTo
        <3>2. it[1..k] = Op(it[(1..k) \ {Max(1..k)}])
            BY <1>9, <3>1
        <3> QED
            BY <3>1, <3>2
    <2>3. 0 \in 0..N /\ \A k \in 1..N : k \in 0..N /\ k - 1 \in 0..N
        BY <1>1
    <2> QED
        BY <2>1, <2>2, <2>3
<1>11. f[N] = it[DOMAIN a]
    BY <1>1
<1> HIDE DEF f
<1>12. f[N] \in S
    <2>1. f[0] \in S /\ \A k \in 1..N : f[k - 1] \in S => f[k] \in S
        BY <1>3, <1>4, <1>10
    <2> QED
        BY <1>1, <2>1, StepsKeep
<1> QED
    BY <1>2, <1>11, <1>12, StopsAre DEF S

\* A listing goes on at a record, behind the last one, or not at all.
Resumes(a, at) == at = Naddr \/ at >= End(a) \/ IsHeader(a, at)

LEMMA ReadEntryResumes ==
    ASSUME NEW a \in Seq(Record), NEW dir, NEW at
    PROVE  Resumes(a, ReadEntry(a, dir, at).at)
<1> DEFINE from == {i \in 1..Len(a) : Header(a, i) >= at /\ PathMatch(dir, a[i].name)}
           found == IF from = {} THEN End(a) ELSE Header(a, Min(from))
<1>1. ReadEntry(a, dir, at).at \in {Naddr, Behind(a, found)}
    BY DEF ReadEntry
<1>2. found \in Stops(a)
    <2>1. CASE from = {}
        BY <2>1, StopsAre DEF Stops
    <2>2. CASE from # {}
        <3>1. Min(from) \in from
            <4>1. from \in SUBSET Nat
                OBVIOUS
            <4> HIDE DEF from
            <4> QED
                BY <2>2, <4>1, LeastOf
        <3> QED
            BY <2>2, <3>1 DEF Stops
    <2> QED
        BY <2>1, <2>2
<1> HIDE DEF found
<1>3. NextHeader(a, found) \in Stops(a)
    BY <1>2, NextStop
<1>4. Behind(a, found) \in {NextHeader(a, found), Naddr}
    BY DEF Behind
<1>5. \A x \in Stops(a) : Resumes(a, x)
    BY StopsAre DEF Resumes
<1> QED
    BY <1>1, <1>3, <1>4, <1>5 DEF Resumes

-----------------------------------------------------------------------------
(***************************************************************************)
(* The lookup of a path through the two mounts of the boot.                *)
(***************************************************************************)

LEMMA MountsAre ==
    ASSUME BootMount.ok
    PROVE  /\ Len(mounts) = 2 /\ mounts[1].dst = Dev /\ mounts[2].dst = Root
           /\ mounts[1].fs = "devfs" /\ mounts[2].fs = "initramfs"
<1> DEFINE x == [dst |-> Dev, fs |-> "devfs"]
           y == [dst |-> Root, fs |-> "initramfs"]
<1>1. DevMount.mounts = <<x>>
    BY DEF DevMount, Mount
<1>2. mounts = Append(<<x>>, y)
    BY <1>1 DEF BootMount, Mount, mounts
<1>3. x.dst = Dev /\ x.fs = "devfs" /\ y.dst = Root /\ y.fs = "initramfs"
    OBVIOUS
<1> HIDE DEF x, y
<1>4. <<x>> \in Seq({x, y}) /\ Len(<<x>>) = 1 /\ <<x>>[1] = x
    OBVIOUS
<1>5. Len(mounts) = 2 /\ mounts[1] = x /\ mounts[2] = y
    BY <1>2, <1>4
<1> QED
    BY <1>3, <1>5

\* How a path is taken: by the device file system if its first component is dev.
ForDev(path) == Relative(path)[1] = "dev"

LEMMA Matches ==
    ASSUME NEW V, NEW path \in Seq(V), path # <<>>
    PROVE  /\ ComponentsMatch(path, Root) = 1
           /\ ComponentsMatch(path, Dev) = IF ForDev(path) THEN 1 ELSE 0
<1>1. ComponentsMatch(path, Root) = 1
    BY DEF ComponentsMatch
<1> DEFINE a == Relative(path)
           B == {n \in 1..Len(a) : n <= Len(Relative(Dev)) /\ \A i \in 1..n : a[i] = Relative(Dev)[i]}
<1>2. Relative(Dev) = <<"dev">> /\ Dev # Root
    BY DEF Relative, Dev, Root
<1>3. a \in Seq(V) /\ Len(a) >= 1 /\ Len(a) \in Nat
    <2>1. Len(path) \in Nat /\ Len(path) # 0 /\ (Len(path) > 1 => Tail(path) \in Seq(V) /\ Len(Tail(path)) = Len(path) - 1)
        OBVIOUS
    <2>2. a = path \/ (Len(path) > 1 /\ a = Tail(path))
        BY DEF Relative
    <2> HIDE DEF a
    <2> QED
        BY <2>1, <2>2
<1>4. ComponentsMatch(path, Dev) = Cardinality(B)
    BY <1>2 DEF ComponentsMatch
<1>5. B = IF ForDev(path) THEN {1} ELSE {}
    <2>1. \A n \in B : n = 1 /\ a[1] = "dev"
        BY <1>2, <1>3
    <2>2. a[1] = "dev" => 1 \in B
        BY <1>2, <1>3
    <2> HIDE DEF B
    <2> QED
        BY <2>1, <2>2 DEF ForDev
<1>6. Cardinality({1}) = 1 /\ Cardinality({}) = 0
    BY FS_Singleton, FS_EmptySet
<1> QED
    BY <1>1, <1>4, <1>5, <1>6

\* What an exact match counts.
Exact == 10000

\* A path of no characters.
Nameless == <<"">>

\* One mount in the lookup of a path.
LookupOf(path, mount, w, i, m) ==
    IF w.best = Exact THEN w
    ELSE IF mount.dst = path THEN [mount |-> i, rel |-> <<"">>, best |-> Exact, root |-> w.root]
    ELSE IF m > w.best \/ (m >= w.best /\ w.root)
    THEN [mount |-> i, rel |-> IF mount.dst = Root THEN Skip(path) ELSE BehindSlash(path),
          best |-> m, root |-> mount.dst = Root]
    ELSE w

LEMMA LookupStepIs ==
    ASSUME NEW path, NEW ms, NEW w, NEW i, NEW mount, mount = ms[i], NEW m, m = ComponentsMatch(path, mount.dst)
    PROVE  LookupStep(path, ms, w, i) = LookupOf(path, mount, w, i, m)
BY SMT DEF LookupStep, LookupOf, Exact

\* Its outcomes: an exact match is final, a better one is taken, any other one is not.
LEMMA LookupFinal ==
    ASSUME NEW path, NEW mount, NEW w, NEW i, NEW m, w.best = Exact
    PROVE  LookupOf(path, mount, w, i, m) = w
BY DEF LookupOf

LEMMA LookupBetter ==
    ASSUME NEW path, NEW mount, NEW w, NEW i, NEW m, w.best # Exact, mount.dst # path, m > w.best
    PROVE  LET f == LookupOf(path, mount, w, i, m)
           IN  /\ f.mount = i /\ f.best = m
               /\ f.rel = IF mount.dst = Root THEN Skip(path) ELSE BehindSlash(path)
               /\ mount.dst # Root => ~f.root
<1>1. LookupOf(path, mount, w, i, m)
        = [mount |-> i, rel |-> IF mount.dst = Root THEN Skip(path) ELSE BehindSlash(path),
           best |-> m, root |-> mount.dst = Root]
    BY Zenon DEF LookupOf
<1> DEFINE f == LookupOf(path, mount, w, i, m)
<1>2. f.mount = i /\ f.best = m /\ f.rel = IF mount.dst = Root THEN Skip(path) ELSE BehindSlash(path)
    BY <1>1
<1>3. ASSUME mount.dst # Root PROVE ~f.root
    <2>1. (mount.dst = Root) = FALSE
        BY <1>3
    <2>2. f = [mount |-> i, rel |-> IF mount.dst = Root THEN Skip(path) ELSE BehindSlash(path),
               best |-> m, root |-> FALSE]
        BY <1>1, <2>1, Zenon
    <2>3. f.root = FALSE
        BY <2>2
    <2> QED
        BY <2>3
<1> QED
    BY <1>2, <1>3, Zenon

LEMMA LookupWorse ==
    ASSUME NEW path, NEW mount, NEW w, NEW i, NEW m, w.best # Exact, mount.dst # path, ~(m > w.best), ~w.root
    PROVE  LookupOf(path, mount, w, i, m) = w
BY Zenon DEF LookupOf

\* Folding over two mounts is taking one after the other.
LEMMA LookupOfTwo ==
    ASSUME NEW ms, Len(ms) = 2, NEW path
    PROVE  LookupFile(ms, path) = LookupStep(path, ms, LookupStep(path, ms, NoMatch, 1), 2)
<1> DEFINE Op(w, i) == LookupStep(path, ms, w, i)
           q == [i \in 1..Len(ms) |-> i]
           it == CHOOSE it : it = [s \in SUBSET DOMAIN q |-> IF s = {} THEN NoMatch ELSE Op(it[s \ {Max(s)}], q[Max(s)])]
           g == [s \in SUBSET (1..2) |->
                    IF s = {} THEN NoMatch ELSE IF s = {1} THEN Op(NoMatch, 1)
                    ELSE IF s = {2} THEN Op(NoMatch, 2) ELSE Op(Op(NoMatch, 1), 2)]
<1>1. DOMAIN q = 1..2 /\ q[1] = 1 /\ q[2] = 2
    OBVIOUS
<1>2. LookupFile(ms, path) = it[DOMAIN q]
    BY DEF LookupFile, FoldLeft, MapThenFoldSet
<1> HIDE DEF Op, q
<1>3. 1..2 = {1, 2} /\ \A s \in SUBSET {1, 2} : s = {} \/ s = {1} \/ s = {2} \/ s = {1, 2}
    <2>1. 1..2 = {1, 2}
        OBVIOUS
    <2>2. ASSUME NEW s \in SUBSET {1, 2}
          PROVE  s = {} \/ s = {1} \/ s = {2} \/ s = {1, 2}
        <3>1. CASE 1 \in s /\ 2 \in s
            BY <3>1
        <3>2. CASE 1 \in s /\ 2 \notin s
            BY <3>2
        <3>3. CASE 1 \notin s
            BY <3>3
        <3> QED
            BY <3>1, <3>2, <3>3
    <2> QED
        BY <2>1, <2>2
<1>4. Max({1}) = 1 /\ Max({2}) = 2 /\ Max({1, 2}) = 2
    BY GreatestIs
<1>5. {1} \ {1} = {} /\ {2} \ {2} = {} /\ {1, 2} \ {2} = {1}
      /\ {} # {1} /\ {} # {2} /\ {} # {1, 2} /\ {1} # {2} /\ {1, 2} # {1} /\ {1, 2} # {2}
    OBVIOUS
<1>6. g[{}] = NoMatch /\ g[{1}] = Op(NoMatch, 1) /\ g[{2}] = Op(NoMatch, 2) /\ g[{1, 2}] = Op(Op(NoMatch, 1), 2)
    <2>1. {} \in SUBSET (1..2) /\ {1} \in SUBSET (1..2) /\ {2} \in SUBSET (1..2) /\ {1, 2} \in SUBSET (1..2)
        OBVIOUS
    <2> QED
        BY <1>5, <2>1
<1>7. \A s \in SUBSET (1..2) : g[s] = IF s = {} THEN NoMatch ELSE Op(g[s \ {Max(s)}], q[Max(s)])
    <2> HIDE DEF g
    <2>1. (IF {} = {} THEN NoMatch ELSE Op(g[{} \ {Max({})}], q[Max({})])) = NoMatch
        OBVIOUS
    <2>2. ASSUME NEW s \in SUBSET (1..2), s # {}
          PROVE  g[s] = Op(g[s \ {Max(s)}], q[Max(s)])
        <3>1. CASE s = {1}
            BY <1>1, <1>4, <1>5, <1>6, <3>1
        <3>2. CASE s = {2}
            BY <1>1, <1>4, <1>5, <1>6, <3>2
        <3>3. CASE s = {1, 2}
            BY <1>1, <1>4, <1>5, <1>6, <3>3
        <3> QED
            BY <1>3, <2>2, <3>1, <3>2, <3>3
    <2> QED
        BY <1>6, <2>2
<1>8. g = [s \in SUBSET DOMAIN q |-> IF s = {} THEN NoMatch ELSE Op(g[s \ {Max(s)}], q[Max(s)])]
    BY <1>1, <1>7
<1> HIDE DEF g
<1>9. it = [s \in SUBSET DOMAIN q |-> IF s = {} THEN NoMatch ELSE Op(it[s \ {Max(s)}], q[Max(s)])]
    BY <1>8
<1> HIDE DEF it
<1>10. it[{}] = NoMatch /\ it[{1}] = Op(NoMatch, 1)
    <2>1. {} \in SUBSET DOMAIN q /\ {1} \in SUBSET DOMAIN q
        BY <1>1
    <2>2. it[{}] = NoMatch
        BY <1>9, <2>1
    <2>3. it[{1}] = Op(it[{1} \ {Max({1})}], q[Max({1})])
        BY <1>5, <1>9, <2>1
    <2> QED
        BY <1>1, <1>4, <1>5, <2>2, <2>3
<1>11. it[{1, 2}] = Op(it[{1}], 2)
    <2>1. {1, 2} \in SUBSET DOMAIN q
        BY <1>1
    <2>2. it[{1, 2}] = Op(it[{1, 2} \ {Max({1, 2})}], q[Max({1, 2})])
        BY <1>5, <1>9, <2>1
    <2> QED
        BY <1>1, <1>4, <1>5, <2>2
<1> QED
    BY <1>1, <1>2, <1>3, <1>10, <1>11 DEF Op

\* vfs_lookup_file with the mounts of the boot: a path that begins with dev goes to
\* the device file system, any other one to the ramdisk.
LEMMA LookupIs ==
    ASSUME BootMount.ok, NEW V, NEW path \in Seq(V), path # <<>>
    PROVE  LET f == LookupFile(mounts, path)
           IN  IF path = Dev THEN f.mount = 1 /\ f.rel = Nameless /\ f.best # 0
               ELSE IF path = Root THEN f.mount = 2 /\ f.rel = Nameless /\ f.best # 0
               ELSE IF ForDev(path) THEN f.mount = 1 /\ f.rel = BehindSlash(path) /\ f.best # 0
               ELSE f.mount = 2 /\ f.rel = Skip(path) /\ f.best # 0
<1> DEFINE c == IF ForDev(path) THEN 1 ELSE 0
           v == LookupOf(path, mounts[1], NoMatch, 1, c)
           f == LookupFile(mounts, path)
<1>1. Len(mounts) = 2 /\ mounts[1].dst = Dev /\ mounts[2].dst = Root
    BY MountsAre
<1>2. Dev # Root /\ ~ForDev(Root)
    <2>1. Dev[2] = "dev" /\ Root[2] = ""
        BY DEF Dev, Root
    <2>2. Tail(Root)[1] = "" /\ Root[1] = "" /\ Len(Root) > 1
        BY DEF Root
    <2>3. Relative(Root)[1] = ""
        BY <2>2 DEF Relative
    <2> QED
        BY <2>1, <2>3 DEF ForDev
<1>3. /\ ComponentsMatch(path, Root) = 1
      /\ ComponentsMatch(path, Dev) = c
    BY Matches
<1>4. f = LookupOf(path, mounts[2], v, 2, 1)
    <2>1. LookupStep(path, mounts, NoMatch, 1) = v
        BY <1>1, <1>3, LookupStepIs
    <2>2. LookupStep(path, mounts, v, 2) = LookupOf(path, mounts[2], v, 2, 1)
        BY <1>1, <1>3, LookupStepIs
    <2> HIDE DEF v
    <2> QED
        BY <1>1, <2>1, <2>2, LookupOfTwo
<1>5. NoMatch.best = 0 /\ NoMatch.root = FALSE
    BY DEF NoMatch
<1>6. (ForDev(path) => c = 1) /\ (~ForDev(path) => c = 0)
    OBVIOUS
<1> HIDE DEF c
<1>v. v = LookupOf(path, mounts[1], NoMatch, 1, c)
    OBVIOUS
<1> HIDE DEF v, f
<1>7. 0 # Exact /\ 1 # Exact /\ Exact # 0 /\ 1 > 0 /\ ~(0 > 0) /\ ~(1 > 1) /\ 1 # 0
    BY SMT DEF Exact
<1>8. CASE path = Dev
    <2>1. mounts[1].dst = path /\ NoMatch.best # Exact
        BY <1>1, <1>5, <1>7, <1>8
    <2>2. v.best = Exact /\ v.mount = 1 /\ v.rel = Nameless
        BY <1>v, <2>1 DEF LookupOf, Nameless
    <2>3. f = v
        BY <1>4, <2>2, LookupFinal
    <2> QED
        BY <1>7, <1>8, <2>2, <2>3 DEF f
<1>9. CASE path = Root
    <2>0. mounts[2].dst = path /\ NoMatch.best # Exact
        BY <1>1, <1>5, <1>7, <1>9
    <2>1. v = NoMatch
        BY <1>v, <1>1, <1>2, <1>5, <1>6, <1>7, <1>9, LookupWorse
    <2>2. mounts[2].dst = path /\ v.best # Exact
        BY <2>0, <2>1
    <2>3. f.best = Exact /\ f.mount = 2 /\ f.rel = Nameless
        BY <1>4, <2>2 DEF LookupOf, Nameless
    <2> QED
        BY <1>2, <1>7, <1>9, <2>3 DEF f
<1>10. CASE path # Dev /\ path # Root /\ ForDev(path)
    <2>1. v.best = 1 /\ v.mount = 1 /\ v.rel = BehindSlash(path) /\ ~v.root
        BY <1>v, <1>1, <1>2, <1>5, <1>6, <1>7, <1>10, LookupBetter
    <2>2. f = v
        BY <1>1, <1>4, <1>7, <1>10, <2>1, LookupWorse
    <2> QED
        BY <1>7, <1>10, <2>1, <2>2 DEF f
<1>11. CASE path # Dev /\ path # Root /\ ~ForDev(path)
    <2>1. v = NoMatch
        BY <1>v, <1>1, <1>5, <1>6, <1>7, <1>11, LookupWorse
    <2>2. f.best = 1 /\ f.mount = 2 /\ f.rel = Skip(path)
        BY <1>1, <1>4, <1>5, <1>7, <1>11, <2>1, LookupBetter
    <2> QED
        BY <1>7, <1>11, <2>2 DEF f
<1> QED
    BY <1>8, <1>9, <1>10, <1>11 DEF f

-----------------------------------------------------------------------------
\* Sequences with the same elements are the same.
LEMMA SeqsAgree ==
    ASSUME NEW V, NEW p \in Seq(V), NEW q \in Seq(V), Len(p) = Len(q), \A i \in 1..Len(p) : p[i] = q[i]
    PROVE  p = q
<1>1. DOMAIN p = 1..Len(p) /\ DOMAIN q = 1..Len(p)
    OBVIOUS
<1>2. p = [i \in 1..Len(p) |-> p[i]] /\ q = [i \in 1..Len(p) |-> q[i]]
    OBVIOUS
<1> QED
    BY <1>2

LEMMA PairIs ==
    ASSUME NEW V, NEW p \in Seq(V), Len(p) = 2
    PROVE  p = <<p[1], p[2]>>
<1>1. DOMAIN p = 1..2 /\ p = [i \in 1..2 |-> p[i]]
    OBVIOUS
<1>2. DOMAIN <<p[1], p[2]>> = 1..2 /\ \A i \in 1..2 : i = 1 \/ i = 2
    OBVIOUS
<1>3. <<p[1], p[2]>> = [i \in 1..2 |-> p[i]]
    BY <1>2
<1> QED
    BY <1>1, <1>3

LEMMA PairAndOne ==
    ASSUME NEW b, NEW c, NEW d
    PROVE  <<b, c>> \o <<d>> = <<b, c, d>>
<1> DEFINE V == {b, c, d}
           p == <<b, c>> \o <<d>>
           q == <<b, c, d>>
<1>0. b \in V /\ c \in V /\ d \in V
    OBVIOUS
<1> HIDE DEF V
<1>1. Len(p) = 3 /\ p \in Seq(V)
    BY <1>0
<1>2. p[1] = b
    OBVIOUS
<1>3. p[2] = c
    OBVIOUS
<1>4. p[3] = d
    OBVIOUS
<1>5. Len(q) = 3 /\ q \in Seq(V) /\ q[1] = b /\ q[2] = c /\ q[3] = d
    BY <1>0
<1>6. \A i \in 1..3 : i = 1 \/ i = 2 \/ i = 3
    OBVIOUS
<1> HIDE DEF p, q
<1>7. p = q
    BY <1>1, <1>2, <1>3, <1>4, <1>5, <1>6, SeqsAgree
<1> QED
    BY <1>7 DEF p, q

LEMMA TailOfThree ==
    ASSUME NEW b, NEW c, NEW d
    PROVE  <<b, c, d>>[1] = b /\ Len(<<b, c, d>>) > 1 /\ Tail(<<b, c, d>>) = <<c, d>>
<1> DEFINE V == {b, c, d}
           p == <<b, c, d>>
<1>1. b \in V /\ c \in V /\ d \in V
    OBVIOUS
<1> HIDE DEF V
<1>2. Tail(p) \in Seq(V) /\ Len(Tail(p)) = 2 /\ Tail(p)[1] = c /\ Tail(p)[2] = d
    BY <1>1
<1>3. Tail(p) = <<c, d>>
    BY <1>2, PairIs
<1> QED
    BY <1>3

\* A path that begins with a slash is what stands behind it, unless nothing does.
LEMMA RelativeIs ==
    ASSUME NEW p
    PROVE  /\ p[1] = "" /\ Len(p) > 1 => Relative(p) = Tail(p)
           /\ ~(p[1] = "" /\ Len(p) > 1) => Relative(p) = p
BY Zenon DEF Relative

-----------------------------------------------------------------------------
(***************************************************************************)
(* Where open files are.                                                   *)
(***************************************************************************)

\* A file is in the middle of one record, a directory at a record, and a device is
\* the one of its path.
Sound(a, f) ==
    /\ f.kind = "reg" =>
        /\ {"kind", "path", "pos", "left"} \subseteq DOMAIN f /\ f.pos \in Nat /\ f.left \in Nat
        /\ \E i \in 1..Len(a) :
            /\ NamedBy(f.path, a[i].name) /\ ~a[i].dir
            /\ f.pos >= Data(a, i) /\ f.pos + f.left = Data(a, i) + a[i].size
    /\ f.kind \in {"devfs", "initramfs"} => {"kind", "next"} \subseteq DOMAIN f
    /\ f.kind = "initramfs" => Resumes(a, f.next)
    /\ f.kind = "dev" => Relative(f.path) = <<"dev", Nodes[f.node].name>>

\* What every program starts with is sound.
LEMMA StartSound ==
    ASSUME NEW a, NEW fd \in Fd
    PROVE  Sound(a, None) /\ Sound(a, StartFiles[fd])
<1>1. Sound(a, None)
    BY DEF Sound, None
<1>2. ASSUME NEW rd, NEW wr PROVE Sound(a, Terminal(rd, wr))
    <2> DEFINE f == Terminal(rd, wr)
    <2>1. f.kind = "dev" /\ f.path = Dev \o <<"tty0">> /\ f.node = 4
        BY DEF Terminal
    <2> DEFINE p == Dev \o <<"tty0">>
    <2>2. p = <<"", "dev", "tty0">>
        BY PairAndOne, Zenon DEF Dev, p
    <2> HIDE DEF p
    <2>3. Relative(p) = <<"dev", "tty0">>
        <3> DEFINE q == <<"", "dev", "tty0">>
        <3>1. q[1] = "" /\ Len(q) > 1 /\ Tail(q) = <<"dev", "tty0">>
            BY TailOfThree, Zenon
        <3>2. Relative(q) = Tail(q)
            BY <3>1, RelativeIs, Zenon
        <3> QED
            BY <2>2, <3>1, <3>2, Zenon
    <2>4. Nodes[4].name = "tty0"
        BY DEF Nodes
    <2> HIDE DEF f
    <2>5. Relative(f.path) = <<"dev", Nodes[f.node].name>>
        BY <2>1, <2>3, <2>4 DEF p
    <2>6. f.kind = "dev"
        BY <2>1
    <2> QED
        BY <2>5, <2>6 DEF Sound, f
<1>3. StartFiles[fd] \in {None, Terminal(FALSE, TRUE), Terminal(TRUE, FALSE)}
    BY DEF StartFiles
<1> QED
    BY <1>1, <1>2, <1>3

\* A read moves on in the record, and not beyond its end.
LEMMA Moves ==
    ASSUME NEW p \in Nat, NEW l \in Nat, NEW d \in Nat, NEW z \in Nat, NEW n \in Nat,
           n <= l, p >= d, p + l = d + z
    PROVE  p + n \in Nat /\ l - n \in Nat /\ p + n >= d /\ (p + n) + (l - n) = d + z
OBVIOUS

LEMMA ReadFileSound ==
    ASSUME NEW a \in Seq(Record), NEW f, Sound(a, f), f.kind = "reg", NEW len \in Nat
    PROVE  Sound(a, ReadFile(f, len))
<1> DEFINE n == Min({len, f.left})
           g == ReadFile(f, len)
<1>1. /\ {"kind", "path", "pos", "left"} \subseteq DOMAIN f /\ f.pos \in Nat /\ f.left \in Nat
    BY DEF Sound
<1>2. PICK i \in 1..Len(a) :
            /\ NamedBy(f.path, a[i].name) /\ ~a[i].dir
            /\ f.pos >= Data(a, i) /\ f.pos + f.left = Data(a, i) + a[i].size
    BY DEF Sound
<1>3. n \in Nat /\ n <= f.left
    <2>1. {len, f.left} \in SUBSET Nat /\ {len, f.left} # {} /\ f.left \in {len, f.left}
        BY <1>1
    <2>2. n \in {len, f.left} /\ n <= f.left
        BY <2>1, LeastOf
    <2> QED
        BY <1>1, <2>2
<1>4. g = [f EXCEPT !.pos = f.pos + n, !.left = f.left - n]
    BY DEF ReadFile
<1> HIDE DEF n, g
<1>5. /\ DOMAIN g = DOMAIN f /\ g.kind = "reg" /\ g.path = f.path
      /\ g.pos = f.pos + n /\ g.left = f.left - n
    BY <1>1, <1>4
<1>6. Data(a, i) \in Nat /\ a[i].size \in Nat
    <2>1. Header(a, i) \in Nat /\ a[i] \in Record /\ Block \in Nat
        BY Headers, ArchiveAssumption
    <2> QED
        BY <2>1 DEF Data, Record
<1>7. /\ g.pos \in Nat /\ g.left \in Nat
      /\ g.pos >= Data(a, i) /\ g.pos + g.left = Data(a, i) + a[i].size
    <2>1. /\ f.pos + n \in Nat /\ f.left - n \in Nat
          /\ f.pos + n >= Data(a, i) /\ (f.pos + n) + (f.left - n) = Data(a, i) + a[i].size
        <3>1. f.pos >= Data(a, i) /\ f.pos + f.left = Data(a, i) + a[i].size
            BY <1>2, Zenon
        <3> QED
            BY <1>1, <1>3, <1>6, <3>1, Moves
    <2> QED
        BY <1>5, <2>1
<1> QED
    BY <1>1, <1>2, <1>5, <1>7 DEF Sound, g

\* A directory that is listed further is at a record again.
LEMMA ReadDirSound ==
    ASSUME NEW a \in Seq(Record), NEW f, Sound(a, f), IsDir(f), NEW next,
           f.kind = "initramfs" => \E dir, at : next = ReadEntry(a, dir, at).at
    PROVE  Sound(a, [f EXCEPT !.next = next])
<1> DEFINE g == [f EXCEPT !.next = next]
<1>1. {"kind", "next"} \subseteq DOMAIN f
    BY DEF Sound, IsDir
<1>2. DOMAIN g = DOMAIN f /\ g.kind = f.kind /\ g.next = next
    BY <1>1
<1>3. f.kind = "initramfs" => Resumes(a, next)
    BY ReadEntryResumes
<1> HIDE DEF g
<1>4. Sound(a, g)
    BY <1>1, <1>2, <1>3 DEF Sound, IsDir
<1> QED
    BY <1>4 DEF g

\* What is a sequence of some is one of more.
LEMMA SeqWiden ==
    ASSUME NEW V, NEW W, \A x \in V : x \in W, NEW q \in Seq(V)
    PROVE  q \in Seq(W)
OBVIOUS

\* One element in front of others.
LEMMA InFront ==
    ASSUME NEW V, NEW h \in V, NEW q \in Seq(V)
    PROVE  /\ <<h>> \o q \in Seq(V) /\ Len(<<h>> \o q) = Len(q) + 1
           /\ (<<h>> \o q)[1] = h
           /\ \A i \in 1..Len(q) : (<<h>> \o q)[i + 1] = q[i]
<1>1. <<h>> \o q \in Seq(V) /\ Len(<<h>> \o q) = Len(q) + 1
    OBVIOUS
<1>2. (<<h>> \o q)[1] = h
    OBVIOUS
<1>3. ASSUME NEW i \in 1..Len(q) PROVE (<<h>> \o q)[i + 1] = q[i]
    OBVIOUS
<1> QED
    BY <1>1, <1>2, <1>3

LEMMA HeadAndTail ==
    ASSUME NEW V, NEW p \in Seq(V), p # <<>>
    PROVE  /\ <<p[1]>> \o Tail(p) = p /\ Tail(p) \in Seq(V) /\ Len(Tail(p)) = Len(p) - 1
           /\ p[1] \in V /\ Len(p) \in Nat \ {0}
           /\ \A i \in 1..Len(p) - 1 : Tail(p)[i] = p[i + 1]
<1>1. Tail(p) \in Seq(V) /\ Len(Tail(p)) = Len(p) - 1 /\ p[1] \in V /\ Len(p) \in Nat \ {0}
    OBVIOUS
<1>2. ASSUME NEW i \in 1..Len(p) - 1 PROVE Tail(p)[i] = p[i + 1]
    OBVIOUS
<1> DEFINE r == <<p[1]>> \o Tail(p)
<1>3. /\ r \in Seq(V) /\ Len(r) = Len(Tail(p)) + 1 /\ r[1] = p[1]
      /\ \A i \in 1..Len(Tail(p)) : r[i + 1] = Tail(p)[i]
    BY <1>1, InFront
<1> HIDE DEF r
<1>4. Len(r) = Len(p)
    BY <1>1, <1>3
<1>5. ASSUME NEW i \in 1..Len(p) PROVE r[i] = p[i]
    <2>1. CASE i = 1
        BY <1>3, <2>1
    <2>2. CASE i # 1
        <3>1. i - 1 \in 1..Len(p) - 1 /\ (i - 1) + 1 = i
            BY <1>1, <2>2
        <3>2. r[(i - 1) + 1] = Tail(p)[i - 1] /\ Tail(p)[i - 1] = p[(i - 1) + 1]
            BY <1>1, <1>2, <1>3, <3>1
        <3> QED
            BY <3>1, <3>2
    <2> QED
        BY <2>1, <2>2
<1>6. r = p
    BY <1>3, <1>4, <1>5, SeqsAgree
<1> QED
    BY <1>1, <1>2, <1>6 DEF r

\* A path without its first character.
LEMMA SkipIs ==
    ASSUME NEW path
    PROVE  /\ path[1] = "" => Skip(path) = Tail(path)
           /\ path[1] # "" => Skip(path) = <<Shorter[path[1]]>> \o Tail(path)
BY Zenon DEF Skip

\* What is behind the slash that ends the first component.
LEMMA BehindIs ==
    ASSUME NEW V, NEW q \in Seq(V), NEW h, q # <<>>, From(q, 2) = <<h>>
    PROVE  q = <<q[1], h>>
<1>1. Len(q) \in Nat \ {0}
    OBVIOUS
<1>2. From(q, 2) = SubSeq(q, 2, Len(q))
    BY DEF From
<1>3. Len(<<h>>) = 1 /\ <<h>>[1] = h
    OBVIOUS
<1> DEFINE r == SubSeq(q, 2, Len(q))
<1>r. Len(r) = Len(q) - 1 /\ (Len(q) = 2 => r[1] = q[2])
    BY <1>1
<1> HIDE DEF r
<1>4. Len(q) = 2
    <2>1. Len(r) = 1
        BY <1>2, <1>3, From(q, 2) = <<h>>, Zenon DEF r
    <2> QED
        <3>1. \A n \in Nat : n - 1 = 1 => n = 2
            OBVIOUS
        <3> QED
            BY <1>1, <1>r, <2>1, <3>1, Zenon
<1>5. q[2] = h
    <2>1. r[1] = h
        BY <1>2, <1>3, From(q, 2) = <<h>>, Zenon DEF r
    <2> QED
        BY <1>r, <1>4, <2>1
<1> QED
    BY <1>4, <1>5, PairIs

\* The file that a node is opened by has its name.
LEMMA NodeSound ==
    ASSUME BootMount.ok, NEW V, NEW path \in Seq(V), path # <<>>, NEW a, NEW rd, NEW wr,
           path = Dev \/ ForDev(path)
    PROVE  Sound(a, OpenedNode(path, LookupFile(mounts, path).rel, rd, wr))
<1> DEFINE rel == LookupFile(mounts, path).rel
           node == Min(NodesNamed(rel))
           f == OpenedNode(path, rel, rd, wr)
<1>1. CASE NodesNamed(rel) = {}
    <2>1. f = None
        BY <1>1 DEF OpenedNode
    <2> QED
        BY <2>1 DEF Sound, None
<1>2. CASE NodesNamed(rel) # {}
    <2>1. node \in NodesNamed(rel)
        <3>1. NodesNamed(rel) \in SUBSET Nat
            BY DEF NodesNamed, Nodes
        <3> QED
            BY <1>2, <3>1, LeastOf
    <2>2. rel = <<Nodes[node].name>> /\ node \in 1..5
        BY <2>1 DEF NodesNamed, Nodes
    <2>3. Nodes[node].name \in {"ram0", "null", "zero", "tty0", "ttyS0"}
        BY <2>2 DEF Nodes
    <2>4. f.kind = "dev" /\ f.path = path /\ f.node = node
        BY <1>2 DEF OpenedNode
    <2> DEFINE h == Nodes[node].name
    <2> HIDE DEF f, node, h
    <2>5. rel # Nameless
        <3>1. h # ""
            BY <2>3 DEF h
        <3>2. <<h>>[1] = h /\ Nameless[1] = ""
            BY DEF Nameless
        <3> QED
            BY <2>2, <3>1, <3>2 DEF h
    <2>6. ForDev(path) /\ path # Dev /\ path # Root
        <3>1. path # Dev /\ path # Root
            BY <2>5, LookupIs
        <3> QED
            BY <3>1
    <2>7. rel = BehindSlash(path)
        BY <2>6, LookupIs
    <2> HIDE DEF rel
    <2>8. Relative(path) = <<"dev", h>>
        <3>1. CASE path[1] = "" /\ Len(path) > 1
            <4>1. Relative(path) = Tail(path) /\ Skip(path) = Tail(path)
                BY <3>1, RelativeIs, SkipIs, Zenon
            <4>2. Tail(path) \in Seq(V) /\ Len(Tail(path)) = Len(path) - 1 /\ Len(path) \in Nat
                BY HeadAndTail
            <4>3. Tail(path) # <<>>
                <5>1. Len(path) > 1
                    BY <3>1, Zenon
                <5> QED
                    <6>1. \A n \in Nat : n > 1 => n - 1 # 0
                        OBVIOUS
                    <6>2. Len(<<>>) = 0
                        OBVIOUS
                    <6> QED
                        BY <4>2, <5>1, <6>1, <6>2, Zenon
            <4>4. From(Tail(path), 2) = <<h>>
                BY <2>2, <2>7, <4>1 DEF BehindSlash, h
            <4>5. Tail(path) = <<Tail(path)[1], h>>
                BY <4>2, <4>3, <4>4, BehindIs
            <4> QED
                BY <2>6, <4>1, <4>5, Zenon DEF ForDev
        <3>2. CASE ~(path[1] = "" /\ Len(path) > 1)
            <4>1. Relative(path) = path
                BY <3>2, RelativeIs, Zenon
            <4>2. path[1] = "dev" /\ path[1] # ""
                BY <2>6, <4>1 DEF ForDev
            <4> DEFINE c == Shorter[path[1]]
            <4>3. Skip(path) = <<c>> \o Tail(path)
                BY <4>2, SkipIs, Zenon
            <4> HIDE DEF c
            <4>4. From(<<c>> \o Tail(path), 2) = <<h>>
                BY <2>2, <2>7, <4>3 DEF BehindSlash, h
            <4> DEFINE W == V \cup {c}
                       q == <<c>> \o Tail(path)
            <4>5. Tail(path) \in Seq(V) /\ Len(Tail(path)) = Len(path) - 1 /\ Len(path) \in Nat
                  /\ \A i \in 1..Len(path) - 1 : Tail(path)[i] = path[i + 1]
                BY HeadAndTail
            <4>6. Tail(path) \in Seq(W) /\ c \in W
                BY <4>5
            <4> HIDE DEF W
            <4>7. q \in Seq(W) /\ Len(q) = Len(Tail(path)) + 1
                  /\ \A i \in 1..Len(Tail(path)) : q[i + 1] = Tail(path)[i]
                BY <4>6, InFront
            <4> HIDE DEF q
            <4>8. q # <<>>
                BY <4>5, <4>7
            <4>9. q = <<q[1], h>>
                BY <4>4, <4>7, <4>8, BehindIs DEF q
            <4>10. Len(q) = 2 /\ q[2] = h
                BY <4>9
            <4>11. Len(path) = 2 /\ path[2] = h
                <5>1. Len(path) = 2 /\ 1 \in 1..Len(Tail(path)) /\ 1 \in 1..Len(path) - 1
                    <6>1. Len(q) = 2 /\ Len(q) = Len(Tail(path)) + 1
                        BY <4>7, <4>10
                    <6>2. Len(Tail(path)) = Len(path) - 1 /\ Len(path) \in Nat
                        BY <4>5
                    <6> QED
                        BY <6>1, <6>2
                <5>2. q[1 + 1] = Tail(path)[1] /\ Tail(path)[1] = path[1 + 1]
                    BY <4>5, <4>7, <5>1
                <5> QED
                    BY <4>10, <5>1, <5>2
            <4>12. path = <<path[1], path[2]>>
                BY <4>11, PairIs
            <4> QED
                BY <4>1, <4>2, <4>11, <4>12, Zenon
        <3> QED
            BY <3>1, <3>2
    <2>9. f.kind = "dev" /\ Relative(f.path) = <<"dev", Nodes[f.node].name>>
        BY <2>4, <2>8, Zenon DEF h
    <2> QED
        <3>1. Sound(a, f)
            BY <2>9 DEF Sound
        <3> QED
            BY <3>1 DEF f, rel
<1> QED
    BY <1>1, <1>2

\* A path without its first character is a path of the same length or shorter, and what
\* the path names.
LEMMA SkipNames ==
    ASSUME NEW V, NEW path \in Seq(V), path # <<>>
    PROVE  NamedBy(path, Skip(path)) /\ \E W : Skip(path) \in Seq(W)
<1>1. /\ <<path[1]>> \o Tail(path) = path /\ Tail(path) \in Seq(V)
      /\ Len(Tail(path)) = Len(path) - 1 /\ Len(path) \in Nat \ {0}
    BY HeadAndTail
<1>2. CASE path[1] = ""
    <2>1. Skip(path) = Tail(path)
        BY <1>2, SkipIs, Zenon
    <2> QED
        BY <1>1, <1>2, <2>1, Zenon DEF NamedBy
<1>3. CASE path[1] # ""
    <2> DEFINE c == Shorter[path[1]]
               W == V \cup {c}
               q == <<c>> \o Tail(path)
               r == Tail(q)
    <2>1. Skip(path) = q
        BY <1>3, SkipIs, Zenon
    <2>2. c \in W /\ Tail(path) \in Seq(W)
        <3>1. \A y \in V : y \in W
            OBVIOUS
        <3>2. c \in W
            OBVIOUS
        <3> HIDE DEF W
        <3> QED
            BY <1>1, <3>1, <3>2, SeqWiden
    <2> HIDE DEF c, W
    <2>3. /\ q \in Seq(W) /\ Len(q) = Len(Tail(path)) + 1 /\ q[1] = c
          /\ \A i \in 1..Len(Tail(path)) : q[i + 1] = Tail(path)[i]
        BY <2>2, InFront
    <2> HIDE DEF q
    <2>4. q # <<>>
        BY <1>1, <2>3
    <2>5. r \in Seq(W) /\ Len(r) = Len(q) - 1 /\ \A i \in 1..Len(q) - 1 : r[i] = q[i + 1]
        BY <2>3, <2>4, HeadAndTail
    <2> HIDE DEF r
    <2>6. Len(r) = Len(Tail(path)) /\ Len(Tail(path)) \in Nat
        BY <1>1, <2>3, <2>5
    <2>7. \A i \in 1..Len(r) : r[i] = Tail(path)[i]
        <3>1. Len(r) = Len(q) - 1
            BY <2>5
        <3> QED
            BY <2>3, <2>5, <2>6, <3>1
    <2>8. r = Tail(path)
        <3> DEFINE u == Tail(path)
        <3>1. u \in Seq(W) /\ Len(r) = Len(u) /\ \A i \in 1..Len(r) : r[i] = u[i]
            BY <2>2, <2>6, <2>7
        <3> HIDE DEF u
        <3>2. r = u
            BY <2>5, <3>1, SeqsAgree
        <3> QED
            BY <3>2 DEF u
    <2> QED
        BY <1>3, <2>1, <2>3, <2>8, Zenon DEF NamedBy, c, r
<1> QED
    BY <1>2, <1>3

\* The record that a file is opened by has its name, and the file is at its beginning.
LEMMA RecordSound ==
    ASSUME BootMount.ok, NEW V, NEW path \in Seq(V), path # <<>>, path # Dev, ~ForDev(path),
           Archived \in Seq(Record), NEW rd, NEW wr
    PROVE  Sound(Archived, OpenedRecord(path, LookupFile(mounts, path).rel, rd, wr))
<1> DEFINE rel == LookupFile(mounts, path).rel
           a == Archived
           at == FindFile(a, rel)
           f == OpenedRecord(path, rel, rd, wr)
           i == RecordAt(a, at)
<1>1. rel = Skip(path)
    <2>1. CASE path = Root
        <3>1. rel = Nameless
            BY <2>1, LookupIs
        <3>2. Root[1] = "" /\ Tail(Root) = Nameless
            <4>1. Root[1] = "" /\ Root \in Seq({""}) /\ Len(Root) = 2
                BY DEF Root
            <4> DEFINE p == Tail(Root)
            <4>2. p \in Seq({""}) /\ Len(p) = 1 /\ p[1] = ""
                BY DEF Root
            <4>3. Nameless \in Seq({""}) /\ Len(Nameless) = 1 /\ Nameless[1] = ""
                BY DEF Nameless
            <4>4. \A k \in 1..1 : k = 1
                OBVIOUS
            <4> HIDE DEF p
            <4>5. p = Nameless
                BY <4>2, <4>3, <4>4, SeqsAgree
            <4> QED
                BY <4>1, <4>5 DEF p
        <3> QED
            BY <2>1, <3>1, <3>2, SkipIs
    <2>2. CASE path # Root
        BY <2>2, LookupIs
    <2> QED
        BY <2>1, <2>2
<1>2. CASE at = Naddr
    <2>1. f = None
        BY <1>2 DEF OpenedRecord
    <2> QED
        BY <2>1 DEF Sound, None
<1>3. CASE at # Naddr
    <2>1. IsFile(a, at, rel)
        BY <1>3, FoundIsFirst
    <2>2. i \in 1..Len(a) /\ Header(a, i) = at
        BY <2>1 DEF IsFile, IsHeader, RecordAt
    <2>3. ~a[i].dir /\ a[i].name = rel
        BY <2>1 DEF IsFile
    <2>4. f = [kind |-> "reg", path |-> path, rd |-> rd, wr |-> wr, pos |-> at + Block, left |-> a[i].size]
        BY <1>3, Zenon DEF OpenedRecord
    <2> HIDE DEF f, i, at, a, rel
    <2>5. /\ {"kind", "path", "pos", "left"} \subseteq DOMAIN f
          /\ f.kind = "reg" /\ f.path = path /\ f.pos = at + Block /\ f.left = a[i].size
        BY <2>4
    <2>6. at \in Nat /\ a[i].size \in Nat /\ Block \in Nat /\ Data(a, i) = at + Block
        <3>1. a[i] \in Record /\ Header(a, i) \in Nat
            BY <2>2, Headers DEF a
        <3> QED
            BY <2>2, <3>1, ArchiveAssumption DEF Record, Data
    <2>7. /\ f.pos \in Nat /\ f.left \in Nat
          /\ f.pos >= Data(a, i) /\ f.pos + f.left = Data(a, i) + a[i].size
        BY <2>5, <2>6
    <2>9. NamedBy(path, a[i].name)
        BY <1>1, <2>3, SkipNames, Zenon
    <2>10. \E k \in 1..Len(a) :
            /\ NamedBy(f.path, a[k].name) /\ ~a[k].dir
            /\ f.pos >= Data(a, k) /\ f.pos + f.left = Data(a, k) + a[k].size
        BY <2>2, <2>3, <2>5, <2>7, <2>9, Zenon
    <2>11. Sound(a, f)
        <3>1. f.kind = "reg"
            BY <2>5
        <3> QED
            BY <2>5, <2>7, <2>10, <3>1, Zenon DEF Sound
    <2> QED
        BY <2>11 DEF f, a, rel
<1> QED
    BY <1>2, <1>3

\* vfs_open and vfs_opendir open nothing, or something sound.
LEMMA OpenedSound ==
    ASSUME BootMount.ok, NEW V, NEW path \in Seq(V), path # <<>>,
           Archived \in Seq(Record), NEW rd, NEW wr
    PROVE  Sound(Archived, Opened(path, rd, wr)) /\ Sound(Archived, OpenedDir(path))
<1> DEFINE x == LookupFile(mounts, path)
           fs == mounts[x.mount].fs
           g == OpenedDir(path)
<1>1. Sound(Archived, None)
    BY DEF Sound, None
<1>2. x.best # 0 /\ \/ fs = "devfs" /\ (path = Dev \/ ForDev(path))
                    \/ fs = "initramfs" /\ path # Dev /\ ~ForDev(path)
    <2>1. mounts[1].fs = "devfs" /\ mounts[2].fs = "initramfs"
        BY MountsAre
    <2>2. Root # Dev /\ ~ForDev(Root)
        <3>1. Dev[2] = "dev" /\ Root[2] = ""
            BY DEF Dev, Root
        <3>2. Relative(Root)[1] = ""
            <4>1. Tail(Root)[1] = "" /\ Root[1] = "" /\ Len(Root) > 1
                BY DEF Root
            <4> QED
                BY <4>1 DEF Relative
        <3> QED
            BY <3>1, <3>2 DEF ForDev
    <2>3. IF path = Dev THEN x.mount = 1 /\ x.best # 0
          ELSE IF path = Root THEN x.mount = 2 /\ x.best # 0
          ELSE IF ForDev(path) THEN x.mount = 1 /\ x.best # 0
          ELSE x.mount = 2 /\ x.best # 0
        BY LookupIs
    <2> HIDE DEF x
    <2> QED
        BY <2>1, <2>2, <2>3
<1>3. Sound(Archived, Opened(path, rd, wr))
    <2>1. CASE fs = "devfs" /\ (path = Dev \/ ForDev(path))
        <3>1. Sound(Archived, OpenedNode(path, x.rel, rd, wr))
            BY <2>1, NodeSound
        <3> QED
            BY <1>2, <2>1, <3>1, Zenon DEF Opened
    <2>2. CASE fs = "initramfs" /\ path # Dev /\ ~ForDev(path)
        <3>1. Sound(Archived, OpenedRecord(path, x.rel, rd, wr))
            BY <2>2, RecordSound
        <3> QED
            BY <1>2, <2>2, <3>1, Zenon DEF Opened
    <2> QED
        BY <1>2, <2>1, <2>2
<1>4. Sound(Archived, g)
    <2>1. g \in {None, [kind |-> fs, path |-> path, rel |-> x.rel, next |-> FirstEntry(fs)]}
        BY Zenon DEF OpenedDir
    <2>2. CASE g = None
        BY <1>1, <2>2
    <2>3. CASE g = [kind |-> fs, path |-> path, rel |-> x.rel, next |-> FirstEntry(fs)]
        <3>1. {"kind", "next"} \subseteq DOMAIN g /\ g.kind = fs /\ g.next = FirstEntry(fs)
            BY <2>3
        <3>2. fs = "initramfs" => FirstEntry(fs) = 0
            BY DEF FirstEntry
        <3>3. Resumes(Archived, 0)
            BY StopsAre DEF Resumes
        <3>4. fs \in {"devfs", "initramfs"}
            BY <1>2
        <3> HIDE DEF g, fs
        <3>5. g.kind = "initramfs" => Resumes(Archived, g.next)
            BY <3>1, <3>2, <3>3
        <3> QED
            BY <3>1, <3>4, <3>5 DEF Sound
    <2> QED
        BY <2>1, <2>2, <2>3
<1> QED
    BY <1>3, <1>4

-----------------------------------------------------------------------------
(***************************************************************************)
(* What is typed.                                                          *)
(***************************************************************************)

\* What is typed is a path of one component or more.
LEMMA PathOfIsPath ==
    ASSUME NEW P, NEW s \in Seq(P)
    PROVE  \E V : PathOf(s) \in Seq(V) /\ PathOf(s) # <<>>
<1> DEFINE N == Len(s)
           S == {p \in Seq(Seq(P)) : Len(p) > 0}
           Op(p, c) == IF c = Slash THEN Append(p, <<>>) ELSE [p EXCEPT ![Len(p)] = Append(@, c)]
           b == <<<<>>>>
           F == [x \in (1..N) \X S |-> Op(x[2], s[x[1]])]
           it == CHOOSE it : it = [z \in SUBSET DOMAIN s |-> IF z = {} THEN b ELSE Op(it[z \ {Max(z)}], s[Max(z)])]
           parts == FoldLeft(LAMBDA p, c : Op(p, c), b, s)
<1>1. N \in Nat /\ DOMAIN s = 1..N /\ \A k \in 1..N : s[k] \in P
    OBVIOUS
<1>2. parts = it[DOMAIN s]
    BY DEF FoldLeft, MapThenFoldSet
<1>p. PathOf(s) = [i \in 1..Len(parts) |-> Component(parts[i])]
    BY DEF PathOf
<1>3. \A p \in S, c \in P : Op(p, c) \in S
    <2> SUFFICES ASSUME NEW p \in Seq(Seq(P)), Len(p) > 0, NEW c \in P
                 PROVE  Op(p, c) \in Seq(Seq(P)) /\ Len(Op(p, c)) > 0
        OBVIOUS
    <2>1. <<>> \in Seq(P) /\ Len(p) \in 1..Len(p) /\ p[Len(p)] \in Seq(P)
        OBVIOUS
    <2>2. Append(p, <<>>) \in Seq(Seq(P)) /\ Len(Append(p, <<>>)) > 0
        BY <2>1
    <2>3. Append(p[Len(p)], c) \in Seq(P)
        BY <2>1
    <2> DEFINE q == [p EXCEPT ![Len(p)] = Append(p[Len(p)], c)]
    <2>4. q \in Seq(Seq(P)) /\ Len(q) = Len(p)
        BY <2>1, <2>3
    <2> QED
        BY <2>2, <2>4
<1>4. b \in S
    OBVIOUS
<1> HIDE DEF N, Op, b, parts
<1>s. \A p \in S : p \in Seq(Seq(P)) /\ Len(p) > 0
    OBVIOUS
<1> HIDE DEF S
<1>5. F \in [(1..N) \X S -> S] /\ \A k \in 1..N, w \in S : F[<<k, w>>] = Op(w, s[k])
    BY <1>1, <1>3
<1> HIDE DEF F
<1>6. FoldOver(S, N, b, F) # {}
    BY <1>1, <1>4, <1>5, FoldExists
<1>7. PICK g \in [SUBSET (1..N) -> S] :
        g = [z \in SUBSET (1..N) |-> IF z = {} THEN b ELSE F[<<Max(z), g[z \ {Max(z)}]>>]]
    BY <1>6 DEF FoldOver
<1>8. g = [z \in SUBSET (1..N) |-> IF z = {} THEN b ELSE Op(g[z \ {Max(z)}], s[Max(z)])]
    <2>1. ASSUME NEW z \in SUBSET (1..N), z # {}
          PROVE  g[z] = Op(g[z \ {Max(z)}], s[Max(z)])
        <3>1. Max(z) \in 1..N /\ z \ {Max(z)} \in SUBSET (1..N)
            BY <1>1, <2>1, GreatestIn
        <3>2. g[z] = F[<<Max(z), g[z \ {Max(z)}]>>] /\ g[z \ {Max(z)}] \in S
            BY <1>7, <2>1, <3>1
        <3> QED
            BY <1>5, <3>1, <3>2
    <2> QED
        BY <1>7, <2>1
<1>9. it = [z \in SUBSET (1..N) |-> IF z = {} THEN b ELSE Op(it[z \ {Max(z)}], s[Max(z)])]
    BY <1>1, <1>8
<1> HIDE DEF it
<1> DEFINE f == [k \in 0..N |-> it[1..k]]
<1>10. f[0] = b /\ \A k \in 1..N : f[k] = Op(f[k - 1], s[k])
    <2>1. it[1..0] = b
        BY <1>1, <1>9, PlacesUpTo
    <2>2. ASSUME NEW k \in 1..N PROVE it[1..k] = Op(it[1..k - 1], s[k])
        <3>1. /\ 1..k \in SUBSET (1..N) /\ 1..k # {} /\ Max(1..k) = k /\ (1..k) \ {k} = 1..k - 1
            BY <1>1, PlacesUpTo
        <3>2. it[1..k] = Op(it[(1..k) \ {Max(1..k)}], s[Max(1..k)])
            BY <1>9, <3>1
        <3> QED
            BY <3>1, <3>2
    <2>3. 0 \in 0..N /\ \A k \in 1..N : k \in 0..N /\ k - 1 \in 0..N
        BY <1>1
    <2> QED
        BY <2>1, <2>2, <2>3
<1>11. f[N] = it[DOMAIN s]
    BY <1>1
<1> HIDE DEF f
<1>12. f[N] \in S
    <2>1. f[0] \in S /\ \A k \in 1..N : f[k - 1] \in S => f[k] \in S
        BY <1>1, <1>3, <1>4, <1>10
    <2> QED
        BY <1>1, <2>1, StepsKeep
<1>13. parts \in Seq(Seq(P)) /\ Len(parts) > 0
    BY <1>2, <1>11, <1>12, <1>s
<1> DEFINE V == {Component(parts[i]) : i \in 1..Len(parts)}
<1>14. Len(parts) \in Nat /\ \A i \in 1..Len(parts) : Component(parts[i]) \in V
    BY <1>13
<1> HIDE DEF V
<1>15. PathOf(s) \in Seq(V) /\ Len(PathOf(s)) = Len(parts)
    BY <1>p, <1>14
<1>16. PathOf(s) # <<>>
    BY <1>13, <1>15
<1> QED
    BY <1>15, <1>16

\* What the kernel takes a path for is such a path as well.
LEMMA MeantIs ==
    ASSUME Archived \in Seq(Record), machine.paths \subseteq Seq(STRING) \ {<<>>},
           NEW V, NEW p \in Seq(V), p # <<>>, NEW path \in Meant(p)
    PROVE  \E W : path \in Seq(W) /\ path # <<>>
<1>1. CASE path = p
    BY <1>1
<1>2. CASE path # p
    <2>1. PICK rest \in Remnants : path = <<"">> \o rest
        BY <1>2 DEF Meant
    <2>2. \E W : rest \in Seq(W)
        <3>1. CASE rest \in {<<"">>, <<Other>>}
            <4>1. \A c : <<c>> \in Seq({c})
                OBVIOUS
            <4>2. rest \in Seq({""}) \/ rest \in Seq({Other})
                BY <3>1, <4>1, Zenon
            <4> QED
                BY <4>2, Zenon
        <3>2. CASE rest \in {Skip(q) : q \in machine.paths \ {<<"">>}}
            <4>1. PICK q \in machine.paths : rest = Skip(q)
                BY <3>2
            <4>2. q \in Seq(STRING) /\ q # <<>>
                OBVIOUS
            <4> QED
                BY <4>1, <4>2, SkipNames
        <3>3. CASE rest \in {SubSeq(Archived[i].name, 1, Parts(Archived[i].name)) : i \in 1..Len(Archived)}
            <4>1. PICK i \in 1..Len(Archived) : rest = SubSeq(Archived[i].name, 1, Parts(Archived[i].name))
                BY <3>3
            <4> DEFINE name == Archived[i].name
                       Name == Seq(STRING) \ {<<>>}
            <4>2. name \in Name
                <5>1. Archived[i] \in Record
                    OBVIOUS
                <5> HIDE DEF Name
                <5>2. Record = [name : Name, dir : BOOLEAN, size : Nat]
                    BY DEF Record, Name
                <5> QED
                    BY <5>1, <5>2
            <4>3. name \in Seq(STRING) /\ Len(name) \in Nat \ {0}
                BY <4>2
            <4>4. Parts(name) \in Nat /\ Parts(name) <= Len(name)
                <5>1. Parts(name) \in {Len(name) - 1, Len(name)}
                    BY Zenon DEF Parts
                <5> HIDE DEF name
                <5> QED
                    BY <4>3, <5>1
            <4> HIDE DEF name
            <4>5. SubSeq(name, 1, Parts(name)) \in Seq(STRING)
                BY <4>3, <4>4
            <4> QED
                BY <4>1, <4>5 DEF name
        <3> QED
            BY <2>1, <3>1, <3>2, <3>3 DEF Remnants
    <2>3. PICK U : rest \in Seq(U)
        BY <2>2
    <2> DEFINE no == ""
               W == U \cup {no}
    <2>4. no \in W /\ rest \in Seq(W) /\ path = <<no>> \o rest
        <3>1. no \in W /\ \A y \in U : y \in W
            OBVIOUS
        <3>2. path = <<no>> \o rest
            BY <2>1
        <3> HIDE DEF W, no
        <3> QED
            BY <2>3, <3>1, <3>2, SeqWiden
    <2> HIDE DEF W, no
    <2>5. path \in Seq(W) /\ Len(path) = Len(rest) + 1 /\ Len(rest) \in Nat
        BY <2>4, InFront
    <2>6. path # <<>>
        BY <2>5
    <2> QED
        BY <2>5, <2>6
<1> QED
    BY <1>1, <1>2

\* So is what it takes the shell's text for.
LEMMA MeantIsPath ==
    ASSUME Archived \in Seq(Record), machine.paths \subseteq Seq(STRING) \ {<<>>},
           NEW P, NEW s \in Seq(P), NEW path \in Meant(PathOf(s))
    PROVE  \E V : path \in Seq(V) /\ path # <<>>
BY PathOfIsPath, MeantIs

\* The first space of a line is somewhere.
LEMMA SpaceIs ==
    ASSUME NEW P, NEW line \in Seq(P)
    PROVE  FirstSpace(line) \in Nat \ {0} /\ FirstSpace(line) <= Len(line) + 1
<1> DEFINE T == {i \in 1..Len(line) : line[i] = Space} \cup {Len(line) + 1}
<1>1. T \in SUBSET Nat /\ T # {} /\ 0 \notin T
    OBVIOUS
<1>2. Min(T) \in T
    BY <1>1, LeastOf
<1> QED
    BY <1>1, <1>2 DEF FirstSpace

-----------------------------------------------------------------------------
(***************************************************************************)
(* Open files stay where their paths say.                                  *)
(***************************************************************************)

Placed ==
    /\ BootMount.ok /\ machine \in Machine /\ alive \subseteq Task
    /\ DOMAIN files = Task
    /\ \A t \in Task : DOMAIN files[t] = Fd /\ \A fd \in Fd : Sound(Archived, files[t][fd])

LEMMA MachineIs ==
    ASSUME machine \in Machine
    PROVE  /\ Archived \in Seq(Record)
           /\ \A i \in 1..Len(Archived) : Archived[i].name # Nameless
           /\ machine.paths \subseteq Seq(STRING) \ {<<>>} /\ machine.lengths \subseteq Nat
BY MachineAssumption, Zenon DEF Archived, Record, Nameless

LEMMA PlacedIsSound ==
    ASSUME Placed
    PROVE  PositionSound
<1> SUFFICES ASSUME NEW f \in OpenNow
             PROVE  /\ f.kind = "reg" => \E i \in 1..Len(Archived) :
                        /\ NamedBy(f.path, Archived[i].name) /\ ~Archived[i].dir
                        /\ f.pos >= Data(Archived, i) /\ f.pos + f.left = Data(Archived, i) + Archived[i].size
                    /\ f.kind = "initramfs" =>
                        f.next = Naddr \/ f.next >= End(Archived) \/ IsHeader(Archived, f.next)
                    /\ f.kind = "dev" => Relative(f.path) = <<"dev", Nodes[f.node].name>>
    BY DEF PositionSound
<1>1. PICK t \in alive : f \in FilesOf(t)
    BY DEF OpenNow
<1>2. PICK fd \in Fd : f = files[t][fd]
    BY <1>1 DEF FilesOf
<1>3. Sound(Archived, f)
    BY <1>1, <1>2 DEF Placed
<1> QED
    BY <1>3, Zenon DEF Sound, Resumes

\* A step that leaves the files.
LEMMA PlacedStays ==
    ASSUME Placed, UNCHANGED <<machine, files>>, alive' \subseteq Task
    PROVE  Placed'
BY DEF Placed, Archived

\* A step that changes one descriptor.
LEMMA PlacedOne ==
    ASSUME Placed, NEW t \in Task, NEW fd, NEW f, fd \in Fd => Sound(Archived, f),
           UNCHANGED <<machine, alive>>, files' = [files EXCEPT ![t] = [files[t] EXCEPT ![fd] = f]]
    PROVE  Placed'
<1>1. Archived' = Archived
    BY DEF Archived
<1>2. DOMAIN files' = Task
    BY DEF Placed
<1>3. \A u \in Task : files'[u] = IF u = t THEN [files[t] EXCEPT ![fd] = f] ELSE files[u]
    BY DEF Placed
<1>4. DOMAIN files[t] = Fd /\ \A e \in Fd : Sound(Archived, files[t][e])
    BY DEF Placed
<1> DEFINE g == [files[t] EXCEPT ![fd] = f]
<1>5. DOMAIN g = Fd /\ \A e \in Fd : g[e] = IF e = fd THEN f ELSE files[t][e]
    BY <1>4
<1> HIDE DEF g
<1>6. \A e \in Fd : Sound(Archived, g[e])
    BY <1>4, <1>5
<1>7. \A u \in Task : DOMAIN files'[u] = Fd /\ \A e \in Fd : Sound(Archived, files'[u][e])
    BY <1>3, <1>5, <1>6 DEF Placed, g
<1>8. BootMount.ok /\ machine' \in Machine /\ alive' \subseteq Task
    BY DEF Placed
<1>9. \A u \in Task : DOMAIN files'[u] = Fd /\ \A e \in Fd : Sound(Archived', files'[u][e])
    BY <1>1, <1>7, Zenon
<1> QED
    BY <1>2, <1>8, <1>9, Zenon DEF Placed

\* A step that gives a task the files to start with, or none.
LEMMA PlacedTask ==
    ASSUME Placed, NEW t, NEW g, g = StartFiles \/ g = [fd \in Fd |-> None],
           machine' = machine, alive' \subseteq Task, files' = [files EXCEPT ![t] = g]
    PROVE  Placed'
<1>1. Archived' = Archived
    BY DEF Archived
<1>2. DOMAIN files' = Task /\ \A u \in Task : files'[u] = IF u = t THEN g ELSE files[u]
    BY DEF Placed
<1>3. DOMAIN g = Fd /\ \A fd \in Fd : Sound(Archived, g[fd])
    BY StartSound, StartFacts
<1>4. \A u \in Task : DOMAIN files'[u] = Fd /\ \A e \in Fd : Sound(Archived, files'[u][e])
    BY <1>2, <1>3 DEF Placed
<1>5. \A u \in Task : DOMAIN files'[u] = Fd /\ \A e \in Fd : Sound(Archived', files'[u][e])
    BY <1>1, <1>4, Zenon
<1>6. BootMount.ok /\ machine' \in Machine
    BY DEF Placed
<1> QED
    BY <1>2, <1>5, <1>6, Zenon DEF Placed

LEMMA PlacedStop ==
    ASSUME Placed, NEW why, Stop(why)
    PROVE  Placed'
<1>1. Archived' = Archived /\ machine' = machine /\ alive' = {} /\ files' = NoFiles
    BY DEF Archived, Stop
<1>2. DOMAIN files' = Task /\ \A u \in Task : DOMAIN files'[u] = Fd /\ \A fd \in Fd : files'[u][fd] = None
    BY <1>1 DEF NoFiles
<1>3. \A u \in Task : DOMAIN files'[u] = Fd /\ \A e \in Fd : Sound(Archived', files'[u][e])
    BY <1>2, StartSound
<1>4. BootMount.ok /\ machine' \in Machine /\ alive' \subseteq Task
    BY <1>1 DEF Placed
<1> QED
    BY <1>2, <1>3, <1>4, Zenon DEF Placed

\* The system calls, one after the other.
LEMMA OpenPlaced ==
    ASSUME Placed, NEW V, NEW path \in Seq(V), path # <<>>, NEW t, NEW rd, NEW wr, NEW dir, Open(t, path, rd, wr, dir)
    PROVE  Placed'
<1> DEFINE f == IF dir THEN OpenedDir(path) ELSE Opened(path, rd, wr)
<1>1. t \in Task
    BY DEF Open, Runs, Placed
<1>2. CASE Stop("path")
    BY <1>2, PlacedStop
<1>3. CASE files' = [files EXCEPT ![t][Min(FreeFds(t))] = f] /\ OnlyFiles
    <2>1. Sound(Archived, Opened(path, rd, wr)) /\ Sound(Archived, OpenedDir(path))
        BY MachineIs, OpenedSound DEF Placed
    <2>2. Sound(Archived, f)
        BY <2>1
    <2> HIDE DEF f
    <2>3. /\ UNCHANGED <<machine, alive>>
          /\ files' = [files EXCEPT ![t] = [files[t] EXCEPT ![Min(FreeFds(t))] = f]]
        BY <1>3 DEF OnlyFiles
    <2> QED
        BY <1>1, <2>2, <2>3, PlacedOne
<1> QED
    BY <1>2, <1>3 DEF Open

LEMMA ClosePlaced ==
    ASSUME Placed, NEW t, NEW fd, Close(t, fd)
    PROVE  Placed'
<1>1. t \in Task /\ UNCHANGED <<machine, alive>>
    BY DEF Close, Runs, Placed, OnlyFiles
<1>2. files' = [files EXCEPT ![t] = [files[t] EXCEPT ![fd] = None]]
    BY DEF Close
<1>3. fd \in Fd => Sound(Archived, None)
    BY StartSound
<1> QED
    BY <1>1, <1>2, <1>3, PlacedOne

LEMMA ReadPlaced ==
    ASSUME Placed, NEW t, NEW fd, NEW len \in Nat, Read(t, fd, len)
    PROVE  Placed'
<1> DEFINE f == files[t][fd]
<1>1. t \in Task
    BY DEF Read, Runs, Placed
<1>2. CASE Stop("device")
    BY <1>2, PlacedStop
<1>3. CASE f.kind = "reg" /\ files' = [files EXCEPT ![t][fd] = ReadFile(f, len)] /\ OnlyFiles
    <2>1. /\ UNCHANGED <<machine, alive>>
          /\ files' = [files EXCEPT ![t] = [files[t] EXCEPT ![fd] = ReadFile(f, len)]]
        BY <1>3 DEF OnlyFiles
    <2>2. ASSUME fd \in Fd PROVE Sound(Archived, ReadFile(f, len))
        <3>1. Sound(Archived, f) /\ Archived \in Seq(Record)
            BY <1>1, <2>2, MachineIs DEF Placed
        <3> QED
            BY <1>3, <3>1, ReadFileSound
    <2> HIDE DEF f
    <2> QED
        BY <1>1, <2>1, <2>2, PlacedOne
<1> QED
    BY <1>2, <1>3 DEF Read

LEMMA ReadDirPlaced ==
    ASSUME Placed, NEW t, NEW fd, ReadDir(t, fd)
    PROVE  Placed'
<1> DEFINE f == files[t][fd]
           next == IF f.kind = "devfs" THEN NextNode(f.next) ELSE ReadEntry(Archived, f.rel, f.next).at
<1>1. t \in Task /\ IsDir(f) /\ UNCHANGED <<machine, alive>>
    BY DEF ReadDir, Runs, Placed, OnlyFiles
<1>2. files' = [files EXCEPT ![t] = [files[t] EXCEPT ![fd] = [f EXCEPT !.next = next]]]
    BY DEF ReadDir
<1>3. ASSUME fd \in Fd PROVE Sound(Archived, [f EXCEPT !.next = next])
    <2>1. Sound(Archived, f) /\ Archived \in Seq(Record)
        BY <1>1, <1>3, MachineIs DEF Placed
    <2>2. f.kind = "initramfs" => next = ReadEntry(Archived, f.rel, f.next).at
        OBVIOUS
    <2>3. f.kind = "initramfs" => \E dir, at : next = ReadEntry(Archived, dir, at).at
        BY <2>2
    <2> HIDE DEF f, next
    <2> QED
        BY <1>1, <2>1, <2>3, ReadDirSound
<1> HIDE DEF f, next
<1> QED
    BY <1>1, <1>2, <1>3, PlacedOne DEF f

LEMMA WritePlaced ==
    ASSUME Placed, NEW t, NEW fd, NEW text, Write(t, fd, text)
    PROVE  Placed'
<1>1. CASE \E why : Stop(why)
    BY <1>1, PlacedStop
<1>2. CASE \E node, sent : TtyWrite(node, sent)
    BY <1>2, PlacedStays DEF TtyWrite, Placed
<1> QED
    BY <1>1, <1>2 DEF Write, VfsWrite

LEMMA ForkPlaced ==
    ASSUME Placed, NEW t, NEW c \in Task, Fork(t, c)
    PROVE  Placed'
<1>1. machine' = machine /\ alive' \subseteq Task /\ files' = [files EXCEPT ![c] = StartFiles]
    BY DEF Fork, Placed
<1> QED
    BY <1>1, PlacedTask

LEMMA ExitPlaced ==
    ASSUME Placed, NEW t, Exit(t)
    PROVE  Placed'
<1>1. machine' = machine /\ alive' \subseteq Task /\ files' = [files EXCEPT ![t] = [fd \in Fd |-> None]]
    BY DEF Exit, Placed
<1> QED
    BY <1>1, PlacedTask

\* A machine without a shell.
LEMMA FilesPlaced ==
    ASSUME Placed, FilesNext
    PROVE  Placed'
<1>1. ASSUME NEW t \in Task, NEW path \in machine.paths, NEW mode \in machine.modes, NEW dir \in BOOLEAN,
             NEW p \in Meant(path), Open(t, p, "rd" \in mode, "wr" \in mode, dir)
      PROVE  Placed'
    <2>1. PICK V : p \in Seq(V) /\ p # <<>>
        BY MachineIs, MeantIs DEF Placed
    <2> QED
        BY <1>1, <2>1, OpenPlaced
<1>2. ASSUME NEW t \in Task, NEW fd \in Fd, NEW len \in machine.lengths, Read(t, fd, len)
      PROVE  Placed'
    <2>1. len \in Nat
        BY MachineIs DEF Placed
    <2> QED
        BY <1>2, <2>1, ReadPlaced
<1>3. ASSUME NEW t \in Task, NEW c \in Task, NEW path, Fexecve(t, c, path)
      PROVE  Placed'
    BY <1>3, ForkPlaced, PlacedStop DEF Fexecve
<1>4. CASE FilesStopped
    BY <1>4, PlacedStays DEF FilesStopped, filesVars, Placed
<1> QED
    BY <1>1, <1>2, <1>3, <1>4, ClosePlaced, ReadDirPlaced, WritePlaced, ForkPlaced, ExitPlaced DEF FilesNext

\* The line and the argument are typed characters.
Text == {"line", "arg"}
TextOK ==
    HasShell =>
        /\ Text \subseteq DOMAIN shell /\ shell.line \in Seq(Printable)
        /\ shell.arg # NoArg => shell.arg \in Seq(Printable)

\* A step that leaves them.
LEMMA TextStays ==
    ASSUME TextOK, HasShell, Text \subseteq DOMAIN shell', shell'.line = shell.line, shell'.arg = shell.arg
    PROVE  TextOK'
BY DEF TextOK, NoArg

\* readline and main.
LEMMA LineText ==
    ASSUME TextOK, HasShell,
           ShowPrompt \/ GotBackSpace \/ GotCharacter \/ GotNewLine \/ GotOther \/ Split
    PROVE  TextOK'
<1>1. Text \subseteq DOMAIN shell /\ shell.line \in Seq(Printable)
    BY DEF TextOK
<1>2. CASE ShowPrompt
    <2>1. shell' = [FirstPrompt(Me) EXCEPT !.at = "read"]
        BY <1>2 DEF ShowPrompt
    <2>2. Text \subseteq DOMAIN shell' /\ shell'.line = <<>> /\ shell'.arg = NoArg
        BY <2>1 DEF FirstPrompt, Text
    <2> QED
        BY <2>2 DEF TextOK
<1>3. CASE GotBackSpace \/ GotCharacter
    <2>1. PICK line, at : shell' = [shell EXCEPT !.at = at, !.line = line] /\ line \in Seq(Printable)
        <3>1. CASE GotBackSpace
            <4> DEFINE line == IF shell.line = <<>> THEN shell.line ELSE Front(shell.line)
            <4>1. shell' = [shell EXCEPT !.at = "read", !.line = line]
                BY <3>1 DEF GotBackSpace
            <4>2. line \in Seq(Printable)
                BY <1>1 DEF Front
            <4> QED
                BY <4>1, <4>2
        <3>2. CASE GotCharacter
            <4> DEFINE line == Append(shell.line, shell.char)
                       at == IF Len(line) < LineSize - 1 THEN "read" ELSE "split"
            <4>1. shell' = [shell EXCEPT !.line = line, !.at = at]
                BY <3>2 DEF GotCharacter
            <4>2. line \in Seq(Printable)
                BY <1>1, <3>2 DEF GotCharacter, IsPrinted
            <4>3. shell' = [shell EXCEPT !.at = at, !.line = line]
                BY <4>1
            <4> QED
                BY <4>2, <4>3
        <3> QED
            BY <1>3, <3>1, <3>2
    <2>2. Text \subseteq DOMAIN shell' /\ shell'.line = line /\ shell'.arg = shell.arg
        BY <1>1, <2>1 DEF Text
    <2> QED
        BY <2>1, <2>2 DEF TextOK, NoArg
<1>4. CASE GotNewLine \/ GotOther
    <2>1. PICK at : shell' = [shell EXCEPT !.at = at]
        BY <1>4 DEF GotNewLine, GotOther
    <2>2. Text \subseteq DOMAIN shell' /\ shell'.line = shell.line /\ shell'.arg = shell.arg
        BY <1>1, <2>1 DEF Text
    <2> QED
        BY <2>2, TextStays
<1>5. CASE Split
    <2> DEFINE n == FirstSpace(shell.line)
               arg == IF n > Len(shell.line) THEN NoArg ELSE From(shell.line, n + 1)
    <2>1. PICK cmd : shell' = [shell EXCEPT !.at = "run", !.cmd = cmd, !.arg = arg]
        BY <1>5 DEF Split
    <2>2. arg # NoArg => arg \in Seq(Printable)
        <3>1. n \in Nat \ {0}
            BY <1>1, SpaceIs
        <3> HIDE DEF n
        <3>2. From(shell.line, n + 1) \in Seq(Printable)
            BY <1>1, <3>1 DEF From
        <3> QED
            BY <3>2
    <2> HIDE DEF arg
    <2>3. Text \subseteq DOMAIN shell' /\ shell'.line = shell.line /\ shell'.arg = arg
        BY <1>1, <2>1 DEF Text
    <2> QED
        BY <1>1, <2>2, <2>3 DEF TextOK, NoArg
<1> QED
    BY <1>2, <1>3, <1>4, <1>5

\* Whatever else the shell does.
LEMMA RestText ==
    ASSUME TextOK, HasShell,
           \/ SplitTooLong \/ Put \/ Echo \/ Pid \/ Quit \/ OpenArgument \/ Pump \/ List \/ CloseFile
           \/ Launch \/ ChildExec \/ ChildFails \/ ChildPrints \/ ChildExits \/ Waited
    PROVE  TextOK'
<1>1. Text \subseteq DOMAIN shell
    BY DEF TextOK
<1>2. CASE \E at : shell' = [shell EXCEPT !.at = at]
    BY <1>1, <1>2, TextStays DEF Text
<1>3. CASE \E at, todo, then : shell' = [shell EXCEPT !.at = at, !.todo = todo, !.then = then]
    BY <1>1, <1>3, TextStays DEF Text
<1>4. CASE \E at, todo, out : shell' = [shell EXCEPT !.todo = todo, !.out = out, !.at = at]
    BY <1>1, <1>4, TextStays DEF Text
<1>5. CASE \E at, fd : shell' = [shell EXCEPT !.at = at, !.fd = fd]
    BY <1>1, <1>5, TextStays DEF Text
<1>6. CASE \E at, child : shell' = [shell EXCEPT !.at = at, !.child = child]
    BY <1>1, <1>6, TextStays DEF Text
<1>7. CASE \E child : shell' = [shell EXCEPT !.child = child]
    BY <1>1, <1>7, TextStays DEF Text
<1>8. CASE SplitTooLong \/ Quit \/ CloseFile \/ Waited
    BY <1>2, <1>8 DEF SplitTooLong, Quit, CloseFile, Waited
<1>9. CASE Put
    BY <1>4, <1>9 DEF Put
<1>10. CASE Echo \/ Pid
    BY <1>3, <1>10 DEF Echo, Pid, Prints
<1>11. CASE OpenArgument
    BY <1>2, <1>3, <1>5, <1>11 DEF OpenArgument, Prints
<1>12. CASE Pump
    BY <1>2, <1>3, <1>12 DEF Pump, Prints
<1>13. CASE List
    BY <1>2, <1>3, <1>13 DEF List, Prints
<1>14. CASE Launch
    BY <1>6, <1>14 DEF Launch
<1>15. CASE ChildExec \/ ChildFails \/ ChildPrints \/ ChildExits
    <2>1. \/ \E at : shell' = [shell EXCEPT !.at = at]
          \/ \E child : shell' = [shell EXCEPT !.child = child]
        BY <1>15, Zenon DEF ChildExec, ChildFails, ChildPrints, ChildExits, ChildThen
    <2> QED
        BY <1>2, <1>7, <2>1
<1> QED
    BY <1>8, <1>9, <1>10, <1>11, <1>12, <1>13, <1>14, <1>15

\* What the shell does to its files.
LEMMA ShellPlaced ==
    ASSUME Placed, TextOK, HasShell, ShellStep
    PROVE  Placed'
<1>1. UNCHANGED filesVars => Placed'
    BY PlacedStays DEF filesVars, Placed
<1>2. \A text : Say(text) => Placed'
    BY WritePlaced DEF Say
<1>3. CASE \/ ShowPrompt \/ GotBackSpace \/ GotCharacter \/ GotNewLine \/ GotOther \/ Split \/ Put \/ Echo \/ Pid
           \/ Waited
    BY <1>1, <1>2, <1>3 DEF ShowPrompt, GotBackSpace, GotCharacter, GotNewLine, GotOther, Split, Put, Echo, Pid,
                            Waited
<1>e. CASE ChildExec
    <2>1. UNCHANGED filesVars \/ Stop("program")
        BY <1>e, Zenon DEF ChildExec
    <2> QED
        BY <1>1, <2>1, PlacedStop
<1>4. CASE SplitTooLong \/ Quit \/ ChildExits
    BY <1>4, ExitPlaced DEF SplitTooLong, Quit, ChildExits
<1>5. CASE OpenArgument
    <2>1. CASE Stop("argument")
        BY <2>1, PlacedStop
    <2>2. ASSUME NEW path, NEW dir, path \in Meant(PathOf(shell.arg)), shell.arg # NoArg,
                 Open(Me, path, TRUE, FALSE, dir)
          PROVE  Placed'
        <3>1. /\ shell.arg \in Seq(Printable) /\ Archived \in Seq(Record)
              /\ machine.paths \subseteq Seq(STRING) \ {<<>>}
            BY <2>2, MachineIs DEF TextOK, Placed
        <3>2. PICK V : path \in Seq(V) /\ path # <<>>
            BY <2>2, <3>1, MeantIsPath
        <3> QED
            BY <2>2, <3>2, OpenPlaced
    <2>3. ASSUME NEW dir, Open(Me, Root, TRUE, FALSE, dir)
          PROVE  Placed'
        <3>1. Root \in Seq({""}) /\ Root # <<>>
            BY DEF Root
        <3> QED
            BY <2>3, <3>1, OpenPlaced
    <2>4. \/ Stop("argument")
          \/ \E path \in IF shell.arg = NoArg THEN {Root} ELSE Meant(PathOf(shell.arg)) :
                \E dir : Open(Me, path, TRUE, FALSE, dir)
        BY <1>5, Zenon DEF OpenArgument
    <2> QED
        BY <2>1, <2>2, <2>3, <2>4
<1>6. CASE Pump
    <2>1. Read(Me, shell.fd, Chunk) /\ Chunk \in Nat
        BY <1>6, ShellAssumption DEF Pump
    <2> QED
        BY <2>1, ReadPlaced
<1>7. CASE List
    BY <1>7, ReadDirPlaced DEF List
<1>8. CASE CloseFile
    BY <1>8, ClosePlaced DEF CloseFile
<1>9. CASE Launch
    BY <1>9, ForkPlaced DEF Launch
<1>10. CASE ChildFails \/ ChildPrints
    BY <1>10, WritePlaced DEF ChildFails, ChildPrints
<1> QED
    BY <1>e, <1>3, <1>4, <1>5, <1>6, <1>7, <1>8, <1>9, <1>10 DEF ShellStep

LEMMA PlacedAtFirst ==
    ASSUME ShellInit
    PROVE  Placed /\ TextOK
<1>1. BootMount.ok /\ machine \in Machine
    BY DEF ShellInit, FilesInit
<1>2. PICK t \in Task : alive = {t} /\ files = [NoFiles EXCEPT ![t] = StartFiles]
    BY DEF ShellInit, FilesInit
<1>3. DOMAIN files = Task /\ \A u \in Task : files[u] = StartFiles \/ files[u] = [fd \in Fd |-> None]
    BY <1>2 DEF NoFiles
<1>4. \A u \in Task : DOMAIN files[u] = Fd /\ \A fd \in Fd : Sound(Archived, files[u][fd])
    BY <1>3, StartSound, StartFacts
<1>5. Placed
    BY <1>1, <1>2, <1>3, <1>4 DEF Placed
<1>6. TextOK
    <2>1. shell = NoShell \/ \E u : shell = FirstPrompt(u)
        BY DEF ShellInit
    <2>2. CASE shell = NoShell
        BY <2>2 DEF TextOK, HasShell, NoShell
    <2>3. CASE \E u : shell = FirstPrompt(u)
        <3>1. PICK u : shell = FirstPrompt(u)
            BY <2>3
        <3>2. Text \subseteq DOMAIN shell /\ shell.line = <<>> /\ shell.arg = NoArg
            BY <3>1 DEF FirstPrompt, Text
        <3> QED
            BY <3>2 DEF TextOK
    <2> QED
        BY <2>1, <2>2, <2>3
<1> QED
    BY <1>5, <1>6

LEMMA PlacedStep ==
    ASSUME Placed, TextOK, [ShellNext]_<<filesVars, shellVars>>
    PROVE  Placed' /\ TextOK'
<1>1. CASE UNCHANGED filesVars /\ shell' = shell
    BY <1>1, PlacedStays DEF filesVars, Placed, TextOK, HasShell, NoArg
<1>2. CASE shell.at = "none" /\ FilesNext /\ UNCHANGED shellVars
    <2>1. shell' = shell /\ ~HasShell
        BY <1>2 DEF shellVars, HasShell
    <2> QED
        BY <1>2, <2>1, FilesPlaced DEF TextOK, HasShell
<1>3. CASE shell.at # "none" /\ ShellStep
    <2>1. HasShell
        BY <1>3 DEF HasShell
    <2> QED
        BY <1>3, <2>1, ShellPlaced, LineText, RestText DEF ShellStep
<1>4. ASSUME NEW code, Key(code) PROVE Placed' /\ TextOK'
    <2>1. UNCHANGED filesVars
        BY <1>4 DEF Key
    <2>2. CASE shell' = shell
        BY <1>1, <2>1, <2>2
    <2>3. CASE shell' # shell
        <3>1. PICK char : shell' = [shell EXCEPT !.at = "got", !.char = char]
            BY <1>4, <2>3 DEF Key
        <3>2. HasShell
            BY <1>4, <2>3 DEF Key, HasShell
        <3>3. Text \subseteq DOMAIN shell' /\ shell'.line = shell.line /\ shell'.arg = shell.arg
            BY <3>1, <3>2 DEF Text, TextOK
        <3> QED
            BY <2>1, <3>2, <3>3, TextStays, PlacedStays DEF filesVars, Placed
    <2> QED
        BY <2>2, <2>3
<1> QED
    BY <1>1, <1>2, <1>3, <1>4 DEF ShellNext, FilesStopped, Quiet, shellVars, filesVars

\* Open files stay in place: whatever programs or the shell open, read, list and
\* close, in whatever order, a file that was opened by a path is inside the one record
\* of that name and never beyond its end, a directory that is listed stands at a
\* record or behind the last one, and a device is the one the path names.
THEOREM FilesStayPlaced == ShellSpec => []PositionSound
<1> DEFINE Inv == Placed /\ TextOK
<1>1. ShellInit => Inv
    BY PlacedAtFirst
<1>2. Inv /\ [ShellNext]_<<filesVars, shellVars>> => Inv'
    BY PlacedStep
<1>3. Inv => PositionSound
    BY PlacedIsSound
<1> QED
    BY <1>1, <1>2, <1>3, PTL DEF ShellSpec

-----------------------------------------------------------------------------
(***************************************************************************)
(* Descriptors as OpenFiles knows them.                                    *)
(***************************************************************************)

LEMMA Two ==
    ASSUME NEW p, NEW q
    PROVE  <<p, q>>[1] = p /\ <<p, q>>[2] = q
OBVIOUS

\* The size of the file that is found.
LEMMA SizeIs ==
    ASSUME NEW a \in Seq(Record), NEW name, NEW at, IsFile(a, at, name), NoneBefore(a, at, name)
    PROVE  name \in Names(a) /\ SizeOf(a, name) = a[RecordAt(a, at)].size
<1> DEFINE k == RecordAt(a, at)
           T == {i \in 1..Len(a) : a[i].name = name /\ ~a[i].dir}
<1>1. k \in 1..Len(a) /\ Header(a, k) = at
    BY DEF IsFile, IsHeader, RecordAt
<1>2. ~a[k].dir /\ a[k].name = name
    BY DEF IsFile
<1>3. T \in SUBSET Nat /\ T # {} /\ k \in T
    BY <1>1, <1>2
<1> HIDE DEF k
<1>4. \A i \in T : i \in 1..Len(a) /\ ~(Header(a, i) < at)
    BY DEF NoneBefore
<1> HIDE DEF T
<1>5. Min(T) \in T /\ Min(T) <= k
    BY <1>3, LeastOf
<1>6. Min(T) = k
    <2>1. Min(T) \in 1..Len(a) /\ k \in 1..Len(a) + 1 /\ Len(a) \in Nat
        BY <1>1, <1>4, <1>5
    <2>2. Min(T) < k <=> Header(a, Min(T)) < Header(a, k)
        BY <2>1, HeadersOrdered
    <2> QED
        BY <1>1, <1>4, <1>5, <2>1, <2>2
<1>7. name \in Names(a)
    BY <1>1, <1>2, Zenon DEF Names
<1> QED
    BY <1>6, <1>7 DEF SizeOf, T, k

LEMMA SizeIsNat ==
    ASSUME NEW a \in Seq(Record), NEW name \in Names(a)
    PROVE  SizeOf(a, name) \in Nat
<1> DEFINE T == {i \in 1..Len(a) : a[i].name = name /\ ~a[i].dir}
<1>1. PICK k \in 1..Len(a) : name = a[k].name /\ ~a[k].dir
    BY DEF Names
<1>2. k \in T /\ T \in SUBSET Nat
    BY <1>1
<1>3. Min(T) \in T
    BY <1>2, LeastOf
<1>4. a[Min(T)] \in Record
    BY <1>3
<1>5. a[Min(T)].size \in Nat
    BY <1>4 DEF Record
<1> QED
    BY <1>5 DEF SizeOf

\* What a thing is.
LEMMA ThingIs ==
    ASSUME NEW a, NEW f
    PROVE  /\ f.kind = "reg" => /\ Thing(a, f) = <<"file", Skip(f.path)>>
                                /\ Progress(a, f) = SizeOf(a, Skip(f.path)) - f.left
           /\ f.kind = "dev" => /\ Thing(a, f) = <<"device", <<Nodes[f.node].name>>>>
                                /\ Progress(a, f) = 0
           /\ f.kind = "devfs" => Thing(a, f) = <<"nodes", <<>>>> /\ Progress(a, f) = f.next - 1
           /\ f.kind = "initramfs" =>
                /\ Thing(a, f) = IF InDirectory(a, f.rel) = {} THEN <<"empty", <<>>>> ELSE <<"directory", Trimmed(f.rel)>>
                /\ Progress(a, f) = Cardinality({i \in InDirectory(a, f.rel) : f.next = Naddr \/ Header(a, i) < f.next})
<1>1. "reg" # "dev" /\ "reg" # "devfs" /\ "dev" # "devfs" /\ "initramfs" \notin {"reg", "dev", "devfs"}
    OBVIOUS
<1>2. CASE f.kind = "reg"
    BY <1>1, <1>2, Zenon DEF Thing, Progress
<1>3. CASE f.kind = "dev"
    BY <1>1, <1>3, Zenon DEF Thing, Progress
<1>4. CASE f.kind = "devfs"
    BY <1>1, <1>4, Zenon DEF Thing, Progress
<1>5. CASE f.kind = "initramfs"
    BY <1>1, <1>5, Zenon DEF Thing, Progress
<1> QED
    BY <1>2, <1>3, <1>4, <1>5

\* The records in a directory of that name.
Inside(a, y) == {i \in 1..Len(a) : Parent(a[i].name) = y}

LEMMA LengthIs ==
    ASSUME NEW a, NEW y
    PROVE  /\ LengthOf(a, <<"file", y>>) = SizeOf(a, y)
           /\ LengthOf(a, <<"directory", y>>) = Cardinality(Inside(a, y))
           /\ LengthOf(a, <<"nodes", y>>) = Len(Nodes)
           /\ LengthOf(a, <<"device", y>>) = 0
           /\ LengthOf(a, <<"empty", y>>) = 0
<1>1. "file" # "directory" /\ "file" # "nodes" /\ "directory" # "nodes"
      /\ "device" \notin {"file", "directory", "nodes"} /\ "empty" \notin {"file", "directory", "nodes"}
    OBVIOUS
<1>2. LengthOf(a, <<"file", y>>) = SizeOf(a, y)
    BY <1>1, Two, Zenon DEF LengthOf
<1>3. LengthOf(a, <<"directory", y>>) = Cardinality(Inside(a, y))
    BY <1>1, Two, Zenon DEF LengthOf, Inside
<1>4. LengthOf(a, <<"nodes", y>>) = Len(Nodes)
    BY <1>1, Two, Zenon DEF LengthOf
<1>5. LengthOf(a, <<"device", y>>) = 0
    BY <1>1, Two, Zenon DEF LengthOf
<1>6. LengthOf(a, <<"empty", y>>) = 0
    BY <1>1, Two, Zenon DEF LengthOf
<1> QED
    BY <1>2, <1>3, <1>4, <1>5, <1>6

\* The records in a directory and those of them that have been listed.
Listed(a, dir, next) == {i \in InDirectory(a, dir) : next = Naddr \/ Header(a, i) < next}

LEMMA ListedIs ==
    ASSUME NEW a \in Seq(Record), NEW dir, NEW next
    PROVE  /\ IsFiniteSet(InDirectory(a, dir)) /\ IsFiniteSet(Listed(a, dir, next))
           /\ Cardinality(InDirectory(a, dir)) \in Nat /\ Cardinality(Listed(a, dir, next)) \in Nat
           /\ Cardinality(Listed(a, dir, next)) <= Cardinality(InDirectory(a, dir))
<1>1. Len(a) \in Nat /\ 1 \in Int /\ Len(a) \in Int
    OBVIOUS
<1>2. IsFiniteSet(1..Len(a))
    BY <1>1, FS_Interval
<1>3. InDirectory(a, dir) \subseteq 1..Len(a) /\ Listed(a, dir, next) \subseteq InDirectory(a, dir)
    BY DEF InDirectory, Listed
<1>4. IsFiniteSet(InDirectory(a, dir))
    BY <1>2, <1>3, FS_Subset
<1>5. IsFiniteSet(Listed(a, dir, next)) /\ Cardinality(Listed(a, dir, next)) <= Cardinality(InDirectory(a, dir))
    BY <1>3, <1>4, FS_Subset
<1> QED
    BY <1>4, <1>5, FS_CardinalityType

\* What is listed further has listed as much at least.
LEMMA ListedGrows ==
    ASSUME NEW a \in Seq(Record), NEW dir, NEW next, NEW later,
           later = Naddr \/ (next \in Nat /\ later \in Nat /\ next <= later)
    PROVE  Cardinality(Listed(a, dir, next)) <= Cardinality(Listed(a, dir, later))
<1>1. Listed(a, dir, next) \subseteq Listed(a, dir, later)
    <2>1. \A i \in InDirectory(a, dir) : Header(a, i) \in Nat
        BY Headers DEF InDirectory
    <2>2. next \in Nat => next # Naddr
        BY DEF Naddr
    <2> QED
        BY <2>1, <2>2 DEF Listed
<1> QED
    BY <1>1, ListedIs, FS_Subset

\* A directory that has entries is one of those in the tree, and they are as many as there.
LEMMA DirectoryIs ==
    ASSUME NEW a, NEW dir
    PROVE  /\ InDirectory(a, dir) = Inside(a, Trimmed(dir))
           /\ InDirectory(a, dir) # {} => Trimmed(dir) \in {Parent(a[i].name) : i \in 1..Len(a)}
BY DEF InDirectory, IsIn, Inside

\* The root without its first character is the path of no characters.
LEMMA RootSkips == Skip(Root) = Nameless
<1>1. Root[1] = "" /\ Root \in Seq({""}) /\ Len(Root) = 2
    BY DEF Root
<1> DEFINE p == Tail(Root)
<1>2. p \in Seq({""}) /\ Len(p) = 1 /\ p[1] = ""
    BY DEF Root
<1>3. Nameless \in Seq({""}) /\ Len(Nameless) = 1 /\ Nameless[1] = ""
    BY DEF Nameless
<1>4. \A k \in 1..1 : k = 1
    OBVIOUS
<1> HIDE DEF p
<1>5. p = Nameless
    BY <1>2, <1>3, <1>4, SeqsAgree
<1> QED
    BY <1>1, <1>5, SkipIs, Zenon DEF p

LEMMA RootIsNot == Root # Dev /\ ~ForDev(Root)
<1>1. Dev[2] = "dev" /\ Root[2] = ""
    BY DEF Dev, Root
<1>2. Tail(Root)[1] = "" /\ Root[1] = "" /\ Len(Root) > 1
    BY DEF Root
<1>3. Relative(Root)[1] = ""
    BY <1>2 DEF Relative
<1> QED
    BY <1>1, <1>3 DEF ForDev

-----------------------------------------------------------------------------
(***************************************************************************)
(* A directory lists what is in it.                                        *)
(***************************************************************************)

LEMMA NamelessIs ==
    /\ Nameless \in Seq({""}) /\ Len(Nameless) = 1 /\ Nameless[1] = "" /\ Nameless = <<"">>
    /\ \A V : \A p \in Seq(V) : Len(p) = 1 /\ p[1] = "" => p = Nameless
<1>1. Nameless \in Seq({""}) /\ Len(Nameless) = 1 /\ Nameless[1] = ""
    BY DEF Nameless
<1>2. ASSUME NEW W, NEW p \in Seq(W), Len(p) = 1, p[1] = "" PROVE p = Nameless
    <2>0. DOMAIN p = 1..Len(p) /\ p = [i \in 1..Len(p) |-> p[i]]
        OBVIOUS
    <2>1. DOMAIN p = 1..1 /\ p = [i \in 1..1 |-> p[i]]
        BY <1>2, <2>0
    <2>2. \A i \in 1..1 : i = 1
        OBVIOUS
    <2>3. DOMAIN Nameless = 1..1 /\ Nameless = [i \in 1..1 |-> Nameless[i]]
        <3>0. \A X : \A q \in Seq(X) : DOMAIN q = 1..Len(q) /\ q = [i \in 1..Len(q) |-> q[i]]
            OBVIOUS
        <3>1. DOMAIN Nameless = 1..Len(Nameless) /\ Nameless = [i \in 1..Len(Nameless) |-> Nameless[i]]
            BY <1>1, <3>0, Zenon
        <3> QED
            BY <1>1, <3>1
    <2>4. [i \in 1..1 |-> p[i]] = [i \in 1..1 |-> Nameless[i]]
        BY <1>1, <1>2, <2>2
    <2> QED
        BY <2>1, <2>3, <2>4
<1>3. Nameless = <<"">>
    BY Zenon DEF Nameless
<1> QED
    BY <1>1, <1>2, <1>3

\* How deep a name is, by its components.
LEMMA DepthIs ==
    ASSUME NEW name \in Seq(STRING), name # <<>>, name # Nameless
    PROVE  /\ Len(name) \in Nat \ {0} /\ Parts(name) \in Nat \ {0} /\ DepthOfName(name) = Parts(name) - 1
           /\ Parts(name) <= Len(name)
<1>1. Len(name) \in Nat \ {0}
    OBVIOUS
<1>2. CASE name[Len(name)] # ""
    <2>1. DepthOfName(name) = Len(name) - 1 /\ Parts(name) = Len(name)
        BY <1>2, Zenon DEF DepthOfName, Parts
    <2> QED
        BY <1>1, <2>1
<1>3. CASE name[Len(name)] = ""
    <2>1. Len(name) # 1
        BY <1>3, NamelessIs
    <2>2. Len(name) > 1
        BY <1>1, <2>1
    <2>3. DepthOfName(name) = Len(name) - 2 /\ Parts(name) = Len(name) - 1
        BY <1>3, <2>2, Zenon DEF DepthOfName, Parts
    <2> DEFINE l == Len(name)
    <2> HIDE DEF l
    <2>4. l \in Nat /\ l > 1 /\ l - 1 \in Nat \ {0} /\ l - 1 <= l /\ l - 2 = l - 1 - 1
        <3>1. l \in Nat /\ l > 1
            BY <1>1, <2>2 DEF l
        <3> QED
            BY <3>1
    <2> QED
        BY <1>1, <2>3, <2>4 DEF l
<1> QED
    BY <1>2, <1>3, <1>1

\* A path that has slashes only between its components.
Slashed(dir) == dir # Nameless => \A i \in 1..Len(dir) : dir[i] # ""

\* There is no slash at its end to take away.
LEMMA TrimmedIs ==
    ASSUME NEW V, NEW dir \in Seq(V), dir # <<>>
    PROVE  /\ dir[Len(dir)] # "" => Trimmed(dir) = dir
           /\ dir = Nameless => Trimmed(dir) = <<>>
<1> DEFINE used == {n \in 1..Len(dir) : dir[n] # ""}
<1>1. Trimmed(dir) = IF used = {} THEN <<>> ELSE SubSeq(dir, 1, Max(used))
    BY DEF Trimmed
<1>2. Len(dir) \in Nat \ {0}
    OBVIOUS
<1>3. CASE dir[Len(dir)] # ""
    <2>0. Len(dir) \in 1..Len(dir)
        BY <1>2
    <2>1. used \in SUBSET (1..Len(dir)) /\ Len(dir) \in used
        BY <1>3, <2>0, Zenon
    <2> HIDE DEF used
    <2>2. Max(used) = Len(dir) /\ used # {}
        BY <1>2, <2>1, GreatestIs
    <2>3. SubSeq(dir, 1, Len(dir)) = dir
        OBVIOUS
    <2>4. dir # Nameless
        BY <1>3, NamelessIs
    <2> QED
        BY <1>1, <2>2, <2>3, <2>4
<1>4. CASE dir[Len(dir)] = ""
    <2>1. ASSUME dir = Nameless PROVE used = {}
        <3>1. Len(dir) = 1 /\ dir[1] = ""
            BY <2>1, NamelessIs
        <3>2. \A n \in 1..1 : n = 1
            OBVIOUS
        <3> QED
            BY <3>1, <3>2
    <2> QED
        BY <1>1, <1>4, <2>1
<1> QED
    BY <1>3, <1>4

\* What a name is in, by its components.
LEMMA ParentIs ==
    ASSUME NEW V, NEW dir \in Seq(V), NEW name \in Seq(STRING), name # <<>>, name # Nameless
    PROVE  Parent(name) = dir <=> Parts(name) = Len(dir) + 1 /\ SubSeq(name, 1, Len(dir)) = dir
<1> DEFINE l == Len(name)
           n == Parts(name)
<1>1. l \in Nat \ {0} /\ n \in Nat \ {0} /\ n <= l /\ Len(dir) \in Nat
    BY DepthIs
<1>2. Parent(name) = SubSeq(name, 1, n - 1)
    BY DEF Parent
<1> HIDE DEF n
<1>3. n - 1 \in 0..l
    BY <1>1
<1>4. Len(SubSeq(name, 1, n - 1)) = n - 1
    BY <1>3
<1>5. ASSUME Parent(name) = dir PROVE n = Len(dir) + 1
    BY <1>1, <1>2, <1>4, <1>5
<1>6. ASSUME n = Len(dir) + 1 PROVE n - 1 = Len(dir)
    BY <1>1, <1>6
<1> QED
    BY <1>2, <1>5, <1>6 DEF n

\* No entries of another directory whose path begins like this one's.
Apart(dir, name) ==
    dir # Nameless =>
        ~(PrefixOf(dir, name) /\ SubSeq(name, 1, Len(dir)) # dir /\ IsIn(SubSeq(name, 1, Len(dir)), name))

\* initramfs_check_path_match takes what is in the directory, where no other one
\* begins like it, and the name of an entry is then what is behind the slash.
LEMMA MatchIsIn ==
    ASSUME NEW V, NEW dir \in Seq(V), dir # <<>>, Slashed(dir),
           NEW name \in Seq(STRING), name # <<>>, name # Nameless, Apart(dir, name)
    PROVE  /\ PathMatch(dir, name) <=> IsIn(dir, name)
           /\ IsIn(dir, name) => EntryName(dir, name) = OwnName(dir, name)
<1> DEFINE d == Len(dir)
           l == Len(name)
           other == SubSeq(name, 1, d)
<1>1. d \in Nat \ {0} /\ l \in Nat \ {0} /\ Parts(name) \in Nat \ {0} /\ Parts(name) <= l
      /\ DepthOfName(name) = Parts(name) - 1
    BY DepthIs
<1>2. Len(Nameless) = 1 /\ Nameless[1] = ""
    BY NamelessIs
<1>3. CASE dir = Nameless
    <2>1. DepthOfDir(dir) = 0
        BY <1>3 DEF DepthOfDir, Nameless
    <2>2. PrefixOf(dir, name)
        <3>0. Len(dir) = 1 /\ dir[1] = "" /\ dir[Len(dir)] = ""
            BY <1>2, <1>3, Zenon
        <3>1. Len(dir) <= Len(name)
            <4>1. \A k \in Nat \ {0} : 1 <= k
                OBVIOUS
            <4> QED
                BY <1>1, <3>0, <4>1, Zenon
        <3>2. \A i \in 1..Len(dir) - 1 : FALSE
            <4>1. 1..Len(dir) - 1 = {}
                <5>1. 1..1 - 1 = {}
                    OBVIOUS
                <5> QED
                    BY <3>0, <5>1
            <4> QED
                BY <4>1, Zenon
        <3>3. Begins(dir[Len(dir)], name[Len(dir)])
            BY <3>0, Zenon DEF Begins
        <3> QED
            BY <3>1, <3>2, <3>3, Zenon DEF PrefixOf
    <2>3. IsIn(dir, name) <=> Parts(name) = 1
        <3>1. IsIn(dir, name) <=> Parent(name) = <<>>
            BY <1>3, TrimmedIs DEF IsIn
        <3>2. <<>> \in Seq(STRING) /\ Len(<<>>) = 0
            OBVIOUS
        <3>3. Parent(name) = <<>> <=> Parts(name) = Len(<<>>) + 1 /\ SubSeq(name, 1, Len(<<>>)) = <<>>
            BY <3>2, ParentIs
        <3>4. SubSeq(name, 1, 0) = <<>>
            OBVIOUS
        <3> QED
            BY <3>1, <3>2, <3>3, <3>4
    <2>4. EntryName(dir, name) = name
        BY <1>3, Zenon DEF EntryName, Nameless
    <2>5. OwnName(dir, name) = SubSeq(name, 1, Len(name))
        BY <1>3, Zenon DEF OwnName, Nameless, From
    <2>6. SubSeq(name, 1, Len(name)) = name
        OBVIOUS
    <2> QED
        BY <1>1, <2>1, <2>2, <2>3, <2>4, <2>5, <2>6 DEF PathMatch
<1>4. CASE dir # Nameless
    <2>0. \A i \in 1..d : dir[i] # ""
        BY <1>4 DEF Slashed
    <2>1. DepthOfDir(dir) = d
        BY <1>4, Zenon DEF DepthOfDir, Nameless
    <2>2. IsIn(dir, name) <=> Parts(name) = d + 1 /\ other = dir
        <3>1. d \in 1..d
            BY <1>1
        <3>2. Trimmed(dir) = dir
            BY <2>0, <3>1, TrimmedIs
        <3> QED
            BY <3>2, ParentIs DEF IsIn
    <2>3. PathMatch(dir, name) <=> PrefixOf(dir, name) /\ Parts(name) = d + 1
        BY <1>1, <2>1 DEF PathMatch
    <2>4. ASSUME other = dir, Parts(name) = d + 1
          PROVE  (\A i \in 1..d : dir[i] = name[i]) /\ PrefixOf(dir, name)
        <3>1. d <= l
            BY <1>1, <2>4
        <3>2. \A i \in 1..d : other[i] = name[i]
            BY <1>1, <3>1
        <3>3. \A i \in 1..d : dir[i] = name[i]
            BY <2>4, <3>2
        <3>4. d \in 1..d /\ \A i \in 1..d - 1 : i \in 1..d
            BY <1>1
        <3>5. Begins(dir[d], name[d])
            BY <3>3, <3>4 DEF Begins
        <3> QED
            BY <3>1, <3>3, <3>4, <3>5 DEF PrefixOf
    <2>5. ASSUME PrefixOf(dir, name), Parts(name) = d + 1
          PROVE  other = dir
        <3>1. SUFFICES ASSUME other # dir PROVE FALSE
            OBVIOUS
        <3>2. d <= l /\ Begins(dir[d], name[d]) /\ d \in 1..d
            BY <1>1, <2>5 DEF PrefixOf
        <3>3. other \in Seq(STRING) /\ Len(other) = d /\ other[d] = name[d]
            BY <1>1, <3>2
        <3>4. SubSeq(name, 1, Len(other)) = other
            BY <3>3
        <3>5. name[d] # ""
            <4>1. \A c : <<c, "">> \notin Longer
                <5>1. \A c : <<c, "">>[2] = ""
                    OBVIOUS
                <5> QED
                    BY <5>1, LongerAssumption
            <4>2. dir[d] # ""
                BY <2>0, <3>2
            <4> QED
                BY <3>2, <4>1, <4>2 DEF Begins
        <3>6. IsIn(other, name)
            <4> HIDE DEF other
            <4>1. Parent(name) = other
                BY <2>5, <3>3, <3>4, ParentIs
            <4>2. other # <<>>
                BY <1>1, <3>3
            <4>3. Trimmed(other) = other
                BY <3>3, <3>5, <4>2, TrimmedIs
            <4> QED
                BY <4>1, <4>3 DEF IsIn
        <3> QED
            BY <1>4, <2>5, <3>1, <3>6 DEF Apart
    <2>6. ASSUME IsIn(dir, name) PROVE EntryName(dir, name) = OwnName(dir, name)
        <3>1. d \in 1..d /\ \A i \in 1..d : dir[i] = name[i]
            BY <1>1, <2>2, <2>4, <2>6
        <3>2. dir[Len(dir)] = name[Len(dir)]
            BY <3>1
        <3> QED
            BY <1>4, <3>2, Zenon DEF EntryName, OwnName, Nameless
    <2> QED
        BY <2>2, <2>3, <2>4, <2>5, <2>6
<1> QED
    BY <1>3, <1>4

\* The archive ends with a file, if that is what a listing counts on.
Steady(a, dir) == dir = Nameless => a # <<>> /\ ~a[Len(a)].dir

\* Where a listing can stand that ends in time.
Stations(a, dir) == {at \in Stops(a) \cup {Naddr} : dir = Nameless => at < End(a)}

LEMMA BehindStation ==
    ASSUME NEW a \in Seq(Record), NEW dir, Steady(a, dir), NEW found \in Stops(a)
    PROVE  Behind(a, found) \in Stations(a, dir)
<1> DEFINE n == NextHeader(a, found)
<1>1. /\ Len(a) \in Nat /\ End(a) \in Nat /\ found \in Nat /\ n \in Stops(a) /\ n \in Nat
      /\ found >= End(a) => n >= End(a)
    BY StopsAre, NextStop
<1>2. Naddr \in Stations(a, dir)
    BY <1>1 DEF Stations, Naddr
<1>3. n < End(a) => n \in Stations(a, dir)
    BY <1>1 DEF Stations
<1>4. Behind(a, found) \in {n, Naddr}
    <2>1. CASE found < End(a) /\ a[RecordAt(a, found)].dir
        BY <2>1, Zenon DEF Behind
    <2>2. CASE ~(found < End(a) /\ a[RecordAt(a, found)].dir)
        BY <2>2, Zenon DEF Behind
    <2> QED
        BY <2>1, <2>2
<1> HIDE DEF n
<1>5. CASE found < End(a) /\ ~(n < End(a))
    <2>1. PICK k \in 1..Len(a) : Header(a, k) = found
        BY <1>5, StopsAre DEF IsHeader
    <2>2. RecordAt(a, found) = k
        BY <2>1, RecordThere
    <2>3. CASE ~a[k].dir
        BY <1>2, <1>5, <2>2, <2>3, Zenon DEF Behind, n
    <2>4. CASE a[k].dir
        <3>1. n = Header(a, k + 1)
            <4>1. ~(found >= End(a))
                BY <1>1, <1>5
            <4>2. n = found + Block * Blocks(a[k])
                BY <2>2, <4>1 DEF NextHeader, n
            <4> QED
                BY <2>1, <4>2, Headers
        <3>2. k = Len(a)
            <4>1. k # Len(a) => k + 1 \in 1..Len(a)
                BY <1>1
            <4> QED
                BY <1>5, <3>1, <4>1, RecordThere
        <3>3. dir # Nameless
            BY <2>4, <3>2 DEF Steady
        <3> QED
            BY <1>1, <1>2, <1>4, <3>3 DEF Stations
    <2> QED
        BY <2>3, <2>4
<1>6. CASE ~(found < End(a))
    <2>1. ~(n < End(a))
        BY <1>1, <1>6
    <2>2. Behind(a, found) = Naddr
        BY <1>6, <2>1, Zenon DEF Behind, n
    <2> QED
        BY <1>2, <2>2
<1> QED
    BY <1>2, <1>3, <1>4, <1>5, <1>6

\* initramfs_readdir gives the first entry that is still ahead, and stands behind it then.
LEMMA ReadEntryIs ==
    ASSUME NEW a \in Seq(Record), NEW dir, Steady(a, dir),
           \A i \in 1..Len(a) : PathMatch(dir, a[i].name) <=> IsIn(dir, a[i].name),
           NEW at \in Stations(a, dir), NEW e, e = ReadEntry(a, dir, at)
    PROVE  /\ e.at \in Stations(a, dir)
           /\ Ahead(a, dir, at) = {} => ~e.ok /\ e.at = Naddr
           /\ Ahead(a, dir, at) # {} =>
                /\ e.ok /\ e.name = EntryName(dir, a[Min(Ahead(a, dir, at))].name)
                /\ Ahead(a, dir, e.at) = Ahead(a, dir, at) \ {Min(Ahead(a, dir, at))}
<1> DEFINE from == {i \in 1..Len(a) : Header(a, i) >= at /\ PathMatch(dir, a[i].name)}
           found == IF from = {} THEN End(a) ELSE Header(a, Min(from))
           stop == at = Naddr \/ (found >= End(a) /\ (dir # <<"">> \/ at < End(a)))
           ahead == Ahead(a, dir, at)
<1>1. /\ Len(a) \in Nat /\ End(a) \in Nat /\ Stops(a) \subseteq Nat
      /\ \A i \in 1..Len(a) + 1 : Header(a, i) \in Nat
      /\ at = Naddr \/ at \in Nat
      /\ Naddr \notin Nat /\ Naddr < End(a)
    <2>1. Len(a) \in Nat /\ End(a) \in Nat /\ Stops(a) \subseteq Nat
        BY StopsAre
    <2>2. Naddr \notin Nat /\ Naddr < End(a)
        BY <2>1 DEF Naddr
    <2> QED
        BY <2>1, <2>2, Headers DEF Stations
<1>2. Naddr \in Stations(a, dir) /\ Ahead(a, dir, Naddr) = {}
    BY <1>1 DEF Stations, Ahead
<1>3. CASE stop /\ ahead = {}
    <2>1. e = [ok |-> FALSE, at |-> Naddr, name |-> <<>>]
        BY <1>3, Zenon DEF ReadEntry
    <2>2. e.ok = FALSE /\ e.at = Naddr
        BY <2>1
    <2> QED
        BY <1>2, <1>3, <2>2
<1>4. at # Naddr => from = ahead
    <2>1. at # Naddr => \A i : i \in from <=> i \in ahead
        BY Zenon DEF Ahead, InDirectory
    <2> HIDE DEF from, ahead
    <2> QED
        BY <2>1
<1>5. CASE ahead = {}
    <2>1. CASE at = Naddr
        BY <1>3, <1>5, <2>1
    <2>2. CASE at # Naddr
        <3>1. found = End(a)
            BY <1>4, <1>5, <2>2
        <3>2. dir # <<"">> \/ at < End(a)
            BY Zenon DEF Stations, Nameless
        <3>3. End(a) >= End(a)
            BY <1>1
        <3>4. stop
            <4> HIDE DEF found
            <4> QED
                BY <3>1, <3>2, <3>3
        <3> QED
            BY <1>3, <1>5, <3>4
    <2> QED
        BY <2>1, <2>2
<1>6. CASE ahead # {}
    <2> DEFINE m == Min(ahead)
    <2>1. at # Naddr /\ at \in Nat
        BY <1>1, <1>2, <1>6
    <2>2. ahead \subseteq 1..Len(a)
        BY DEF Ahead, InDirectory
    <2>3. m \in ahead /\ m \in 1..Len(a) /\ m \in Nat /\ \A i \in ahead : m <= i
        <3>1. ahead \in SUBSET Nat
            BY <2>2
        <3> HIDE DEF ahead
        <3> QED
            BY <1>6, <2>2, <3>1, LeastOf
    <2>4. found = Header(a, m)
        BY <1>4, <1>6, <2>1, Zenon
    <2>5. RecordAt(a, found) = m /\ found < End(a) /\ found >= at /\ found \in Nat
        <3>1. Header(a, m) >= at
            BY <2>3 DEF Ahead
        <3> HIDE DEF found, m
        <3> QED
            BY <1>1, <2>3, <2>4, <3>1, RecordThere
    <2>6. ~stop
        <3> HIDE DEF found
        <3>1. ~(found >= End(a))
            BY <1>1, <2>5
        <3> QED
            BY <2>1, <3>1, Zenon
    <2>7. e = [ok |-> TRUE, at |-> Behind(a, found), name |-> EntryName(dir, NameAt(a, found))]
        BY <2>6, Zenon DEF ReadEntry
    <2>8. NameAt(a, found) = a[m].name
        BY <2>5, Zenon DEF NameAt
    <2> HIDE DEF from, found, stop, ahead, m
    <2>9. e.ok /\ e.at = Behind(a, found) /\ e.name = EntryName(dir, a[m].name)
        BY <2>7, <2>8
    <2> DEFINE n == NextHeader(a, found)
    <2>10. n = Header(a, m + 1) /\ m + 1 \in 1..Len(a) + 1 /\ n \in Stops(a) /\ n \in Nat
        <3>1. ~(found >= End(a))
            BY <1>1, <2>5
        <3>2. n = found + Block * Blocks(a[m])
            BY <2>5, <3>1 DEF NextHeader
        <3>3. m + 1 \in 1..Len(a) + 1
            BY <1>1, <2>3
        <3>4. n = Header(a, m + 1)
            BY <2>3, <2>4, <3>2, Headers
        <3> QED
            BY <1>1, <3>3, <3>4, StopsAre
    <2> HIDE DEF n
    <2>11. \A i \in 1..Len(a) : i > m <=> Header(a, i) >= n
        <3>1. \A i \in 1..Len(a) : i < m + 1 <=> Header(a, i) < Header(a, m + 1)
            BY <2>10, HeadersOrdered
        <3>2. \A i \in 1..Len(a) : Header(a, i) \in Nat /\ i \in Nat
            BY <1>1
        <3> QED
            BY <2>3, <2>10, <3>1, <3>2
    <2>12. \A i \in 1..Len(a) : i > m => Header(a, i) >= at
        <3>1. \A i \in 1..Len(a) : m < i => Header(a, m) < Header(a, i)
            <4>1. \A i \in 1..Len(a) : i \in 1..Len(a) + 1
                BY <1>1
            <4> QED
                BY <2>3, <4>1, HeadersOrdered
        <3>2. \A i \in 1..Len(a) : Header(a, i) \in Nat /\ i \in Nat
            BY <1>1
        <3> QED
            BY <2>1, <2>3, <2>4, <2>5, <3>1, <3>2
    <2>13. \A i : i \in ahead \ {m} <=> i \in InDirectory(a, dir) /\ i > m
        <3>1. \A i \in ahead \ {m} : i \in InDirectory(a, dir) /\ i > m
            BY <2>2, <2>3 DEF Ahead, ahead
        <3>2. \A i \in InDirectory(a, dir) : i > m => i \in ahead /\ i # m
            BY <2>1, <2>3, <2>12 DEF Ahead, ahead, InDirectory
        <3> QED
            BY <3>1, <3>2
    <2>14. CASE a[m].dir \/ n < End(a)
        <3>1. Behind(a, found) = n
            BY <2>5, <2>14, Zenon DEF Behind, n
        <3>2. dir = Nameless => n < End(a)
            <4>1. SUFFICES ASSUME dir = Nameless, a[m].dir PROVE n < End(a)
                BY <2>14
            <4>2. m # Len(a)
                BY <4>1 DEF Steady
            <4>3. m + 1 \in 1..Len(a)
                BY <1>1, <2>3, <4>2
            <4> QED
                BY <2>10, <4>3, RecordThere
        <3>3. n \in Stations(a, dir)
            BY <2>10, <3>2 DEF Stations
        <3>4. n # Naddr
            BY <1>1, <2>10
        <3>5. Ahead(a, dir, n) = ahead \ {m}
            <4>1. \A i : i \in Ahead(a, dir, n) <=> i \in InDirectory(a, dir) /\ i > m
                BY <2>11, <3>4 DEF Ahead, InDirectory
            <4> QED
                BY <2>13, <4>1
        <3> QED
            BY <1>6, <2>9, <3>1, <3>3, <3>5 DEF ahead, m
    <2>15. CASE ~(a[m].dir \/ n < End(a))
        <3>1. Behind(a, found) = Naddr
            BY <2>5, <2>15, Zenon DEF Behind, n
        <3>2. m = Len(a)
            <4>1. m # Len(a) => m + 1 \in 1..Len(a)
                BY <1>1, <2>3
            <4> QED
                BY <2>10, <2>15, <4>1, RecordThere
        <3>3. ahead \ {m} = {}
            <4>1. \A i \in 1..Len(a) : ~(i > Len(a))
                BY <1>1
            <4>2. \A i : i \notin ahead \ {m}
                BY <2>2, <2>13, <3>2, <4>1, Zenon
            <4> QED
                BY <4>2, Zenon
        <3> QED
            BY <1>2, <1>6, <2>9, <3>1, <3>3 DEF ahead, m
    <2> QED
        BY <2>14, <2>15
<1> QED
    BY <1>5, <1>6

-----------------------------------------------------------------------------
(***************************************************************************)
(* The things that descriptors name, and how much of them has been read.   *)
(***************************************************************************)

\* An open file of which no more can be read than there is.
Firm(a, f) ==
    /\ f.kind \in {"none", "reg", "dev", "devfs", "initramfs"} /\ (f.kind = "none" => f = None)
    /\ f.kind = "reg" =>
        /\ {"kind", "path", "pos", "left"} \subseteq DOMAIN f
        /\ Skip(f.path) \in Names(a) /\ f.left \in Nat /\ f.left <= SizeOf(a, Skip(f.path))
    /\ f.kind = "dev" => f.node \in 1..Len(Nodes)
    /\ f.kind = "devfs" => {"kind", "next"} \subseteq DOMAIN f /\ f.next \in 1..Len(Nodes) + 1
    /\ f.kind = "initramfs" =>
        /\ {"kind", "rel", "next"} \subseteq DOMAIN f /\ f.rel # <<>> /\ \E V : f.rel \in Seq(V)
        /\ f.next = Naddr \/ f.next \in Stops(a)
        /\ Steady(a, f.rel) => f.next \in Stations(a, f.rel)

LEMMA NodesAre == Len(Nodes) = 5
BY DEF Nodes

LEMMA NoneIs == None.kind = "none"
BY DEF None

\* It stands for one of the things in the tree, and not more than all of it has been read.
LEMMA FirmThing ==
    ASSUME NEW a \in Seq(Record), NEW f, Firm(a, f), f # None
    PROVE  /\ Thing(a, f) \in Things(a) /\ Progress(a, f) \in Nat
           /\ LengthOf(a, Thing(a, f)) \in Nat /\ Progress(a, f) <= LengthOf(a, Thing(a, f))
<1>1. CASE f.kind = "reg"
    <2> DEFINE name == Skip(f.path)
    <2>1. name \in Names(a) /\ f.left \in Nat /\ f.left <= SizeOf(a, name)
        BY <1>1 DEF Firm
    <2>2. Thing(a, f) = <<"file", name>> /\ Progress(a, f) = SizeOf(a, name) - f.left
        BY <1>1, ThingIs, Zenon
    <2> HIDE DEF name
    <2>3. LengthOf(a, Thing(a, f)) = SizeOf(a, name)
        BY <2>2, LengthIs, Zenon
    <2>4. Thing(a, f) \in Things(a)
        BY <2>1, <2>2, Zenon DEF Things
    <2>5. SizeOf(a, name) \in Nat
        BY <2>1, SizeIsNat
    <2> DEFINE z == SizeOf(a, name)
    <2> HIDE DEF z
    <2>6. z \in Nat /\ z - f.left \in Nat /\ z - f.left <= z
        BY <2>1, <2>5 DEF z
    <2> QED
        BY <2>2, <2>3, <2>4, <2>6, Zenon DEF z
<1>2. CASE f.kind = "dev"
    <2>1. f.node \in 1..Len(Nodes)
        BY <1>2 DEF Firm
    <2>2. Thing(a, f) = <<"device", <<Nodes[f.node].name>>>> /\ Progress(a, f) = 0
        BY <1>2, ThingIs, Zenon
    <2>3. LengthOf(a, Thing(a, f)) = 0
        BY <2>2, LengthIs, Zenon
    <2>4. Thing(a, f) \in Things(a)
        BY <2>1, <2>2, Zenon DEF Things
    <2>5. 0 \in Nat /\ 0 <= 0
        OBVIOUS
    <2> QED
        BY <2>2, <2>3, <2>4, <2>5, Zenon
<1>3. CASE f.kind = "devfs"
    <2>1. f.next \in 1..Len(Nodes) + 1
        BY <1>3 DEF Firm
    <2>2. Thing(a, f) = <<"nodes", <<>>>> /\ Progress(a, f) = f.next - 1
        BY <1>3, ThingIs, Zenon
    <2>3. LengthOf(a, Thing(a, f)) = Len(Nodes)
        BY <2>2, LengthIs, Zenon
    <2>4. Thing(a, f) \in Things(a)
        BY <2>2, Zenon DEF Things
    <2>5. f.next - 1 \in Nat /\ f.next - 1 <= Len(Nodes) /\ Len(Nodes) \in Nat
        BY <2>1, NodesAre
    <2> QED
        BY <2>2, <2>3, <2>4, <2>5, Zenon
<1>4. CASE f.kind = "initramfs"
    <2> DEFINE all == InDirectory(a, f.rel)
    <2>1. Progress(a, f) = Cardinality(Listed(a, f.rel, f.next))
        BY <1>4, ThingIs, Zenon DEF Listed
    <2>2. Thing(a, f) = IF all = {} THEN <<"empty", <<>>>> ELSE <<"directory", Trimmed(f.rel)>>
        BY <1>4, ThingIs, Zenon
    <2>3. LengthOf(a, Thing(a, f)) = Cardinality(all)
        <3>1. CASE all = {}
            <4>1. Cardinality(all) = 0
                BY <3>1, FS_EmptySet
            <4> QED
                BY <2>2, <3>1, <4>1, LengthIs, Zenon
        <3>2. CASE all # {}
            <4>1. Thing(a, f) = <<"directory", Trimmed(f.rel)>>
                BY <2>2, <3>2, Zenon
            <4>2. LengthOf(a, Thing(a, f)) = Cardinality(Inside(a, Trimmed(f.rel)))
                BY <4>1, LengthIs, Zenon
            <4> QED
                BY <4>2, DirectoryIs, Zenon
        <3> QED
            BY <3>1, <3>2
    <2>4. Thing(a, f) \in Things(a)
        <3>1. CASE all = {}
            BY <2>2, <3>1, Zenon DEF Things
        <3>2. CASE all # {}
            <4>1. Thing(a, f) = <<"directory", Trimmed(f.rel)>>
                BY <2>2, <3>2, Zenon
            <4>2. PICK i \in 1..Len(a) : Trimmed(f.rel) = Parent(a[i].name)
                BY <3>2, DirectoryIs
            <4>3. Thing(a, f) = <<"directory", Parent(a[i].name)>>
                BY <4>1, <4>2, Zenon
            <4> QED
                BY <4>3, Zenon DEF Things
        <3> QED
            BY <3>1, <3>2
    <2> QED
        BY <2>1, <2>3, <2>4, ListedIs
<1> QED
    BY <1>1, <1>2, <1>3, <1>4 DEF Firm

\* A file is opened at its beginning.
LEMMA RecordFirm ==
    ASSUME BootMount.ok, NEW V, NEW path \in Seq(V), path # <<>>, path # Dev, ~ForDev(path),
           Archived \in Seq(Record), NEW rd, NEW wr
    PROVE  LET f == OpenedRecord(path, LookupFile(mounts, path).rel, rd, wr)
           IN  Firm(Archived, f) /\ (f # None => Progress(Archived, f) = 0)
<1> DEFINE rel == LookupFile(mounts, path).rel
           a == Archived
           at == FindFile(a, rel)
           f == OpenedRecord(path, rel, rd, wr)
           k == RecordAt(a, at)
<1>1. CASE at = Naddr
    <2>1. f = None
        BY <1>1, Zenon DEF OpenedRecord
    <2> QED
        BY <2>1, NoneIs DEF Firm
<1>2. CASE at # Naddr
    <2>1. IsFile(a, at, rel) /\ NoneBefore(a, at, rel)
        BY <1>2, FoundIsFirst
    <2>2. rel \in Names(a) /\ SizeOf(a, rel) = a[k].size
        BY <2>1, SizeIs
    <2>3. f = [kind |-> "reg", path |-> path, rd |-> rd, wr |-> wr, pos |-> at + Block, left |-> a[k].size]
        BY <1>2, Zenon DEF OpenedRecord
    <2> HIDE DEF f, k, a, rel
    <2>5. {"kind", "path", "pos", "left"} \subseteq DOMAIN f /\ f.kind = "reg" /\ f.path = path /\ f.left = a[k].size
        BY <2>3
    <2>6. Skip(path) = rel
        <3>1. CASE path = Root
            <4>1. rel = Nameless
                BY <3>1, LookupIs DEF rel
            <4> QED
                BY <3>1, <4>1, RootSkips
        <3>2. CASE path # Root
            BY <3>2, LookupIs DEF rel
        <3> QED
            BY <3>1, <3>2
    <2>7. f.left = SizeOf(a, Skip(f.path)) /\ Skip(f.path) \in Names(a)
        BY <2>2, <2>5, <2>6
    <2>8. SizeOf(a, Skip(f.path)) \in Nat
        BY <2>7, SizeIsNat DEF a
    <2>9. Progress(a, f) = 0
        <3>1. Progress(a, f) = SizeOf(a, Skip(f.path)) - f.left
            BY <2>5, ThingIs, Zenon
        <3> QED
            BY <2>7, <2>8, <3>1
    <2>10. Firm(a, f)
        BY <2>5, <2>7, <2>8 DEF Firm
    <2> QED
        BY <2>9, <2>10 DEF f, a, rel
<1> QED
    BY <1>1, <1>2

\* A node that is opened is a node.
LEMMA NodeFirm ==
    ASSUME NEW a, NEW path, NEW rel, NEW rd, NEW wr
    PROVE  LET f == OpenedNode(path, rel, rd, wr)
           IN  Firm(a, f) /\ (f # None => Progress(a, f) = 0)
<1> DEFINE f == OpenedNode(path, rel, rd, wr)
           node == Min(NodesNamed(rel))
<1>1. CASE NodesNamed(rel) = {}
    <2>1. f = None
        BY <1>1, Zenon DEF OpenedNode
    <2> QED
        BY <2>1, NoneIs DEF Firm
<1>2. CASE NodesNamed(rel) # {}
    <2>1. NodesNamed(rel) \in SUBSET (1..Len(Nodes))
        BY Zenon DEF NodesNamed
    <2>2. node \in 1..Len(Nodes)
        <3>1. NodesNamed(rel) \in SUBSET Nat
            BY <2>1, NodesAre
        <3> QED
            BY <1>2, <2>1, <3>1, LeastOf
    <2>3. f = [kind |-> "dev", path |-> path, node |-> node, rd |-> rd, wr |-> wr]
        BY <1>2, Zenon DEF OpenedNode
    <2> HIDE DEF f, node
    <2>4. f.kind = "dev" /\ f.node = node
        BY <2>3
    <2>5. Progress(a, f) = 0
        BY <2>4, ThingIs, Zenon
    <2>6. Firm(a, f)
        BY <2>2, <2>4 DEF Firm
    <2> QED
        BY <2>5, <2>6 DEF f
<1> QED
    BY <1>1, <1>2

\* A directory is opened at its beginning too.
LEMMA DirFirm ==
    ASSUME BootMount.ok, NEW V, NEW path \in Seq(V), path # <<>>, Archived \in Seq(Record),
           LookupFile(mounts, path).best # 0 => LookupFile(mounts, path).rel # <<>>
    PROVE  Firm(Archived, OpenedDir(path)) /\ (OpenedDir(path) # None => Progress(Archived, OpenedDir(path)) = 0)
<1> DEFINE x == LookupFile(mounts, path)
           fs == mounts[x.mount].fs
           f == OpenedDir(path)
           a == Archived
<1>1. CASE f = None
    BY <1>1, NoneIs DEF Firm
<1>2. CASE f # None
    <2>1. f = [kind |-> fs, path |-> path, rel |-> x.rel, next |-> FirstEntry(fs)]
        BY <1>2, Zenon DEF OpenedDir
    <2>2. {"kind", "rel", "next"} \subseteq DOMAIN f /\ f.kind = fs /\ f.rel = x.rel /\ f.next = FirstEntry(fs)
        BY <2>1
    <2>3. mounts[1].fs = "devfs" /\ mounts[2].fs = "initramfs"
        BY MountsAre
    <2>4. x.mount = 1 \/ (x.mount = 2 /\ x.rel \in {Nameless, Skip(path)})
        BY LookupIs
    <2> HIDE DEF x
    <2>5. CASE x.mount = 1
        <3>1. f.kind = "devfs" /\ f.next = 1
            BY <2>2, <2>3, <2>5 DEF FirstEntry
        <3>2. Progress(a, f) = 0
            <4>1. Progress(a, f) = f.next - 1
                BY <3>1, ThingIs, Zenon
            <4> QED
                BY <3>1, <4>1
        <3>3. Firm(a, f)
            BY <2>2, <3>1, NodesAre DEF Firm
        <3> QED
            BY <3>2, <3>3
    <2>6. CASE x.mount = 2 /\ x.rel \in {Nameless, Skip(path)}
        <3>1. f.kind = "initramfs" /\ f.next = 0
            BY <2>2, <2>3, <2>6 DEF FirstEntry
        <3>2. \E W : x.rel \in Seq(W)
            <4>1. Nameless \in Seq({""})
                BY NamelessIs
            <4>2. \E W : Skip(path) \in Seq(W)
                BY SkipNames
            <4> QED
                BY <2>6, <4>1, <4>2
        <3>6. x.rel # <<>>
            BY <1>2, Zenon DEF OpenedDir, x
        <3>3. 0 \in Stops(a) /\ 0 # Naddr
            BY StopsAre DEF Naddr
        <3>7. ASSUME Steady(a, f.rel) PROVE 0 \in Stations(a, f.rel)
            <4>1. ASSUME f.rel = Nameless PROVE 0 < End(a)
                <5>1. a # <<>>
                    BY <3>7, <4>1 DEF Steady
                <5>2. 1 \in 1..Len(a)
                    BY <5>1
                <5> QED
                    BY <5>2, Headers, RecordThere
            <4> QED
                BY <3>3, <4>1 DEF Stations
        <3>4. Firm(a, f)
            BY <2>2, <3>1, <3>2, <3>3, <3>6, <3>7 DEF Firm
        <3>5. Progress(a, f) = 0
            <4>1. Progress(a, f) = Cardinality(Listed(a, f.rel, f.next))
                BY <3>1, ThingIs, Zenon DEF Listed
            <4>2. Listed(a, f.rel, 0) = {}
                <5>1. \A i \in InDirectory(a, f.rel) : ~(Header(a, i) < 0)
                    BY Headers DEF InDirectory
                <5> QED
                    BY <3>3, <5>1 DEF Listed
            <4> QED
                BY <3>1, <4>1, <4>2, FS_EmptySet
        <3> QED
            BY <3>4, <3>5
    <2> QED
        BY <2>4, <2>5, <2>6
<1> QED
    BY <1>1, <1>2

\* Whatever is opened.
LEMMA OpenedFirm ==
    ASSUME BootMount.ok, NEW V, NEW path \in Seq(V), path # <<>>,
           Archived \in Seq(Record), NEW rd, NEW wr, NEW dir,
           LookupFile(mounts, path).best # 0 => LookupFile(mounts, path).rel # <<>>,
           NEW f, f = IF dir THEN OpenedDir(path) ELSE Opened(path, rd, wr)
    PROVE  Firm(Archived, f) /\ (f # None => Progress(Archived, f) = 0)
<1> DEFINE x == LookupFile(mounts, path)
           fs == mounts[x.mount].fs
<1>1. CASE dir
    BY <1>1, DirFirm
<1>2. CASE ~dir
    <2>1. x.best # 0 /\ \/ fs = "devfs"
                        \/ fs = "initramfs" /\ path # Dev /\ ~ForDev(path)
        <3>1. mounts[1].fs = "devfs" /\ mounts[2].fs = "initramfs"
            BY MountsAre
        <3>2. Root # Dev /\ ~ForDev(Root)
            BY RootIsNot
        <3>3. IF path = Dev THEN x.mount = 1 /\ x.best # 0
              ELSE IF path = Root THEN x.mount = 2 /\ x.best # 0
              ELSE IF ForDev(path) THEN x.mount = 1 /\ x.best # 0
              ELSE x.mount = 2 /\ x.best # 0
            BY LookupIs
        <3> HIDE DEF x
        <3> QED
            BY <3>1, <3>2, <3>3
    <2>2. CASE fs = "devfs"
        <3>1. f = OpenedNode(path, x.rel, rd, wr)
            BY <1>2, <2>1, <2>2, Zenon DEF Opened
        <3> QED
            BY <3>1, NodeFirm
    <2>3. CASE fs = "initramfs" /\ path # Dev /\ ~ForDev(path)
        <3>1. f = OpenedRecord(path, x.rel, rd, wr)
            BY <1>2, <2>1, <2>3, Zenon DEF Opened
        <3> QED
            BY <2>3, <3>1, RecordFirm
    <2> QED
        BY <2>1, <2>2, <2>3
<1> QED
    BY <1>1, <1>2

\* A read is of the same file, and goes on in it.
LEMMA ReadFirm ==
    ASSUME NEW a \in Seq(Record), NEW f, Firm(a, f), f.kind = "reg", NEW len \in Nat, NEW g, g = ReadFile(f, len)
    PROVE  Firm(a, g) /\ g # None /\ Thing(a, g) = Thing(a, f) /\ Progress(a, g) >= Progress(a, f)
<1> DEFINE n == Min({len, f.left})
<1>1. /\ {"kind", "path", "pos", "left"} \subseteq DOMAIN f
      /\ Skip(f.path) \in Names(a) /\ f.left \in Nat /\ f.left <= SizeOf(a, Skip(f.path))
    BY DEF Firm
<1>2. n \in Nat /\ n <= f.left
    <2>1. {len, f.left} \in SUBSET Nat /\ {len, f.left} # {} /\ f.left \in {len, f.left}
        BY <1>1
    <2>2. n \in {len, f.left} /\ n <= f.left
        BY <2>1, LeastOf
    <2> QED
        BY <1>1, <2>2
<1>3. g = [f EXCEPT !.pos = f.pos + n, !.left = f.left - n]
    BY DEF ReadFile
<1> HIDE DEF n
<1>4. DOMAIN g = DOMAIN f /\ g.kind = "reg" /\ g.path = f.path /\ g.left = f.left - n
    BY <1>1, <1>3
<1> DEFINE z == SizeOf(a, Skip(f.path))
<1>5. z \in Nat
    BY <1>1, SizeIsNat
<1>6. /\ Thing(a, g) = Thing(a, f)
      /\ Progress(a, f) = z - f.left /\ Progress(a, g) = z - g.left
    BY <1>4, ThingIs, Zenon
<1>7. Skip(g.path) = Skip(f.path) /\ SizeOf(a, Skip(g.path)) = z
    BY <1>4
<1> HIDE DEF z
<1>8. g.left \in Nat /\ g.left <= z /\ z - g.left >= z - f.left
    BY <1>1, <1>2, <1>4, <1>5 DEF z
<1>9. Firm(a, g)
    BY <1>1, <1>4, <1>7, <1>8 DEF Firm
<1>10. g # None
    BY <1>4, NoneIs
<1> QED
    BY <1>6, <1>8, <1>9, <1>10

\* A listing goes on behind where it stood, or is at its end.
LEMMA ReadEntryOnward ==
    ASSUME NEW a \in Seq(Record), NEW dir, NEW at, at = Naddr \/ at \in Stops(a),
           NEW to, to = ReadEntry(a, dir, at).at
    PROVE  /\ to = Naddr \/ (to \in Stops(a) /\ at \in Nat /\ to \in Nat /\ at <= to)
           /\ Steady(a, dir) => to \in Stations(a, dir)
<1> DEFINE from == {i \in 1..Len(a) : Header(a, i) >= at /\ PathMatch(dir, a[i].name)}
           found == IF from = {} THEN End(a) ELSE Header(a, Min(from))
<1>1. to = Naddr \/ (at # Naddr /\ to = Behind(a, found))
    <2> DEFINE stop == at = Naddr \/ (found >= End(a) /\ (dir # <<"">> \/ at < End(a)))
    <2>1. CASE stop
        <3>1. ReadEntry(a, dir, at) = [ok |-> FALSE, at |-> Naddr, name |-> <<>>]
            BY <2>1, Zenon DEF ReadEntry
        <3> QED
            BY <3>1
    <2>2. CASE ~stop
        <3>1. ReadEntry(a, dir, at) = [ok |-> TRUE, at |-> Behind(a, found), name |-> EntryName(dir, NameAt(a, found))]
            BY <2>2, Zenon DEF ReadEntry
        <3>2. to = Behind(a, found)
            BY <3>1
        <3>3. at # Naddr
            BY <2>2
        <3> QED
            BY <3>2, <3>3
    <2> QED
        BY <2>1, <2>2
<1>2. /\ found \in Stops(a) /\ found \in Nat /\ End(a) \in Nat
      /\ found < End(a) => found >= at
    <2>1. CASE from = {}
        BY <2>1, StopsAre DEF Stops
    <2>2. CASE from # {}
        <3>1. Min(from) \in from
            <4>1. from \in SUBSET Nat
                OBVIOUS
            <4> HIDE DEF from
            <4> QED
                BY <2>2, <4>1, LeastOf
        <3> QED
            BY <2>2, <3>1, StopsAre DEF Stops
    <2> QED
        BY <2>1, <2>2
<1> HIDE DEF found
<1> DEFINE n == NextHeader(a, found)
<1>7. Steady(a, dir) => to \in Stations(a, dir)
    <2>1. Naddr \in Stations(a, dir)
        BY <1>2 DEF Stations, Naddr
    <2> QED
        BY <1>1, <1>2, <2>1, BehindStation
<1>3. n \in Stops(a) /\ n \in Nat /\ (found >= End(a) => n >= End(a))
    BY <1>2, NextStop, StopsAre
<1>4. CASE found < End(a)
    <2>1. PICK k \in 1..Len(a) : Header(a, k) = found
        BY <1>2, <1>4, StopsAre DEF IsHeader
    <2>2. RecordAt(a, found) = k
        BY <2>1, RecordThere
    <2>3. n = Header(a, k + 1) /\ k + 1 \in 1..Len(a) + 1 /\ k < k + 1
        <3>1. ~(found >= End(a))
            BY <1>2, <1>4
        <3>2. n = found + Block * Blocks(a[k])
            BY <2>2, <3>1 DEF NextHeader
        <3> HIDE DEF n
        <3> QED
            BY <2>1, <3>2, Headers
    <2>4. found < n
        BY <2>1, <2>3, HeadersOrdered
    <2> HIDE DEF n
    <2>5. Behind(a, found) \in {n, Naddr}
        BY DEF Behind, n
    <2>6. at \in Nat \/ at = Naddr
        BY StopsAre
    <2>7. found >= at
        BY <1>2, <1>4
    <2> QED
        BY <1>1, <1>2, <1>3, <1>7, <2>4, <2>5, <2>6, <2>7
<1>5. CASE ~(found < End(a))
    <2>1. ~(n < End(a))
        BY <1>2, <1>3, <1>5
    <2>2. Behind(a, found) = Naddr
        BY <1>5, <2>1, Zenon DEF Behind
    <2> QED
        BY <1>1, <1>7, <2>2
<1> QED
    BY <1>4, <1>5

LEMMA ReadDirFirm ==
    ASSUME NEW a \in Seq(Record), NEW f, Firm(a, f), IsDir(f), NEW next,
           next = IF f.kind = "devfs" THEN NextNode(f.next) ELSE ReadEntry(a, f.rel, f.next).at,
           NEW g, g = [f EXCEPT !.next = next]
    PROVE  Firm(a, g) /\ g # None /\ Thing(a, g) = Thing(a, f) /\ Progress(a, g) >= Progress(a, f)
<1>1. CASE f.kind = "devfs"
    <2>1. {"kind", "next"} \subseteq DOMAIN f /\ f.next \in 1..Len(Nodes) + 1
        BY <1>1 DEF Firm
    <2>2. g.kind = "devfs" /\ g.next = next /\ DOMAIN g = DOMAIN f
        BY <1>1, <2>1
    <2>3. next = NextNode(f.next)
        BY <1>1
    <2>4. next \in 1..Len(Nodes) + 1 /\ next >= f.next
        BY <2>1, <2>3, NodesAre DEF NextNode
    <2>5. /\ Thing(a, g) = Thing(a, f)
          /\ Progress(a, f) = f.next - 1 /\ Progress(a, g) = g.next - 1
        BY <1>1, <2>2, ThingIs, Zenon
    <2>6. Firm(a, g)
        BY <2>1, <2>2, <2>4 DEF Firm
    <2>7. Progress(a, g) >= Progress(a, f)
        BY <2>1, <2>2, <2>4, <2>5, NodesAre
    <2> QED
        BY <2>2, <2>5, <2>6, <2>7, NoneIs
<1>2. CASE f.kind = "initramfs"
    <2>1. /\ {"kind", "rel", "next"} \subseteq DOMAIN f /\ f.rel # <<>> /\ \E V : f.rel \in Seq(V)
          /\ f.next = Naddr \/ f.next \in Stops(a)
        BY <1>2 DEF Firm
    <2>2. g.kind = "initramfs" /\ g.next = next /\ g.rel = f.rel /\ DOMAIN g = DOMAIN f
        BY <1>2, <2>1
    <2>3. next = ReadEntry(a, f.rel, f.next).at
        BY <1>2
    <2>4. /\ next = Naddr \/ (next \in Stops(a) /\ f.next \in Nat /\ next \in Nat /\ f.next <= next)
          /\ Steady(a, f.rel) => next \in Stations(a, f.rel)
        BY <2>1, <2>3, ReadEntryOnward
    <2>5. Firm(a, g)
        BY <2>1, <2>2, <2>4 DEF Firm
    <2>6. /\ Thing(a, g) = Thing(a, f)
          /\ Progress(a, f) = Cardinality(Listed(a, f.rel, f.next))
          /\ Progress(a, g) = Cardinality(Listed(a, f.rel, next))
        <3>1. ASSUME NEW h, h.kind = "initramfs"
              PROVE  /\ Thing(a, h) = IF InDirectory(a, h.rel) = {} THEN <<"empty", <<>>>> ELSE <<"directory", Trimmed(h.rel)>>
                     /\ Progress(a, h) = Cardinality(Listed(a, h.rel, h.next))
            BY <3>1, ThingIs, Zenon DEF Listed
        <3>2. Progress(a, f) = Cardinality(Listed(a, f.rel, f.next))
            BY <1>2, <3>1, Zenon
        <3>3. Progress(a, g) = Cardinality(Listed(a, f.rel, next))
            BY <2>2, <3>1, Zenon
        <3>4. Thing(a, g) = Thing(a, f)
            <4>1. Thing(a, f) = IF InDirectory(a, f.rel) = {} THEN <<"empty", <<>>>> ELSE <<"directory", Trimmed(f.rel)>>
                BY <1>2, <3>1, Zenon
            <4>2. Thing(a, g) = IF InDirectory(a, g.rel) = {} THEN <<"empty", <<>>>> ELSE <<"directory", Trimmed(g.rel)>>
                BY <2>2, <3>1, Zenon
            <4> QED
                BY <2>2, <4>1, <4>2, Zenon
        <3> QED
            BY <3>2, <3>3, <3>4
    <2>7. Progress(a, g) >= Progress(a, f)
        <3> DEFINE x == Cardinality(Listed(a, f.rel, f.next))
                   y == Cardinality(Listed(a, f.rel, next))
        <3>1. x <= y
            BY <2>4, ListedGrows
        <3>2. x \in Nat /\ y \in Nat
            BY ListedIs
        <3> HIDE DEF x, y
        <3>3. y >= x
            BY <3>1, <3>2
        <3> QED
            BY <2>6, <3>3 DEF x, y
    <2> QED
        BY <2>2, <2>5, <2>6, <2>7, NoneIs
<1> QED
    BY <1>1, <1>2 DEF IsDir

\* The descriptors as OpenFiles has them, and what it lets a step do.
Table == [t \in Task |-> [fd \in Fd |-> Entry(Archived, files[t][fd])]]
Follows == Abstract!OpenFilesNext \/ UNCHANGED <<Trees[machine], alive, Table>>

\* No more is read of an open file than there is.
Kept == \A t \in Task, fd \in Fd : Firm(Archived, files[t][fd])

LEMMA EntryIs ==
    ASSUME NEW a, NEW f
    PROVE  /\ f = None <=> Entry(a, f) = <<>>
           /\ f # None => Entry(a, f) = <<Thing(a, f), Progress(a, f)>>
<1>1. <<Thing(a, f), Progress(a, f)>> # <<>>
    OBVIOUS
<1>2. f = None => Entry(a, f) = <<>>
    BY DEF Entry
<1>3. f # None => Entry(a, f) = <<Thing(a, f), Progress(a, f)>>
    BY DEF Entry
<1> QED
    BY <1>1, <1>2, <1>3

\* What a task starts with.
LEMMA StartFirm ==
    ASSUME NEW a, NEW fd \in Fd
    PROVE  /\ Firm(a, StartFiles[fd]) /\ Firm(a, None)
           /\ Entry(a, StartFiles[fd]) = IF fd \in {0, 1} THEN Abstract!Console ELSE <<>>
<1>1. Firm(a, None)
    BY NoneIs DEF Firm
<1>2. CASE fd \notin {0, 1}
    <2>1. StartFiles[fd] = None
        BY <1>2, StartFacts
    <2> QED
        BY <1>1, <1>2, <2>1, EntryIs
<1>3. CASE fd \in {0, 1}
    <2>1. PICK rd, wr : StartFiles[fd] = Terminal(rd, wr)
        <3>1. StartFiles[0] = Terminal(FALSE, TRUE) /\ StartFiles[1] = Terminal(TRUE, FALSE)
            BY StartFacts DEF StartFiles
        <3> QED
            BY <1>3, <3>1
    <2> DEFINE f == StartFiles[fd]
    <2>2. f.kind = "dev" /\ f.node = 4
        BY <2>1 DEF Terminal
    <2>3. f # None
        BY <1>3, StartFacts
    <2> HIDE DEF f
    <2>4. Nodes[4].name = "tty0"
        BY DEF Nodes
    <2>5. Thing(a, f) = <<"device", <<Nodes[f.node].name>>>> /\ Progress(a, f) = 0
        BY <2>2, ThingIs, Zenon
    <2>6. Entry(a, f) = Abstract!Console
        BY <2>2, <2>3, <2>4, <2>5, EntryIs, Zenon DEF Abstract!Console
    <2>7. Firm(a, f)
        BY <2>2, NodesAre DEF Firm
    <2> QED
        BY <1>1, <1>3, <2>6, <2>7 DEF f
<1> QED
    BY <1>2, <1>3

\* The steps of OpenFiles.
LEMMA OpenFilesSteps ==
    ASSUME machine \in Machine, machine' = machine
    PROVE  /\ Trees[machine]' = Trees[machine] /\ Archived' = Archived
           /\ \A t \in Task, x \in Things(Archived) :
                LET free == {fd \in Fd : Table[t][fd] = <<>>}
                IN  /\ t \in alive /\ free # {} /\ alive' = alive
                    /\ Table' = [Table EXCEPT ![t][Min(free)] = <<x, 0>>]
                    => Follows
           /\ \A t \in Task, fd \in Fd : \A n \in Table[t][fd][2] + 1..Trees[machine][Table[t][fd][1]] :
                /\ t \in alive /\ Table[t][fd] # <<>> /\ alive' = alive
                /\ Table' = [Table EXCEPT ![t][fd][2] = n]
                => Follows
           /\ \A t \in Task, fd \in Fd :
                t \in alive /\ alive' = alive /\ Table' = [Table EXCEPT ![t][fd] = <<>>] => Follows
           /\ \A c \in Task :
                /\ alive # {} /\ c \notin alive /\ alive' = alive \cup {c}
                /\ Table' = [Table EXCEPT ![c] = Abstract!Start]
                => Follows
           /\ \A t \in Task :
                t \in alive /\ alive' = alive \ {t} /\ Table' = [Table EXCEPT ![t] = Abstract!Closed] => Follows
           /\ alive' = {} /\ Table' = [t \in Task |-> Abstract!Closed] => Follows
           /\ alive' = alive /\ Table' = Table => Follows
<1>1. Trees[machine]' = Trees[machine] /\ Archived' = Archived
    BY DEF Archived
<1>2. DOMAIN Trees[machine] = Things(Archived)
    BY DEF Trees, Archived
<1>3. Abstract!Places = Fd /\ \A S : Abstract!Min(S) = Min(S)
    BY DEF Abstract!Places, Fd, Abstract!Min, Min
<1>4. ASSUME NEW t \in Task, NEW x \in Things(Archived),
             t \in alive, {fd \in Fd : Table[t][fd] = <<>>} # {}, alive' = alive,
             Table' = [Table EXCEPT ![t][Min({fd \in Fd : Table[t][fd] = <<>>})] = <<x, 0>>]
      PROVE  Follows
    <2> DEFINE free == {fd \in Fd : Table[t][fd] = <<>>}
               m == Min(free)
    <2>1. Table'[t][m] = <<x, 0>>
        <3>1. free \in SUBSET Fd /\ free # {}
            BY <1>4
        <3> HIDE DEF free
        <3>2. m \in Fd
            BY <3>1, LeastFd
        <3>3. DOMAIN Table = Task /\ DOMAIN Table[t] = Fd
            BY DEF Table
        <3>4. Table' = [Table EXCEPT ![t][m] = <<x, 0>>]
            BY <1>4 DEF free
        <3> HIDE DEF m
        <3> QED
            BY <3>2, <3>3, <3>4
    <2>2. <<x, 0>> \in Things(Archived) \X {0}
        OBVIOUS
    <2>3. Abstract!Opens(t)
        BY <1>1, <1>2, <1>3, <1>4, <2>1, <2>2, Zenon DEF Abstract!Opens, Table
    <2> QED
        BY <2>3, Zenon DEF Follows, Abstract!OpenFilesNext
<1>5. ASSUME NEW t \in Task, NEW fd \in Fd, NEW n \in Table[t][fd][2] + 1..Trees[machine][Table[t][fd][1]],
             t \in alive, Table[t][fd] # <<>>, alive' = alive, Table' = [Table EXCEPT ![t][fd][2] = n]
      PROVE  Follows
    <2>1. Abstract!Reads(t, fd)
        BY <1>1, <1>5, Zenon DEF Abstract!Reads, Table
    <2> QED
        BY <1>3, <2>1, Zenon DEF Follows, Abstract!OpenFilesNext
<1>6. ASSUME NEW t \in Task, NEW fd \in Fd, t \in alive, alive' = alive, Table' = [Table EXCEPT ![t][fd] = <<>>]
      PROVE  Follows
    <2>1. Abstract!Closes(t, fd)
        BY <1>1, <1>6, Zenon DEF Abstract!Closes, Table
    <2> QED
        BY <1>3, <2>1, Zenon DEF Follows, Abstract!OpenFilesNext
<1>7. ASSUME NEW c \in Task, alive # {}, c \notin alive, alive' = alive \cup {c},
             Table' = [Table EXCEPT ![c] = Abstract!Start]
      PROVE  Follows
    <2>1. Abstract!Begins(c)
        BY <1>1, <1>7, Zenon DEF Abstract!Begins, Table
    <2> QED
        BY <2>1, Zenon DEF Follows, Abstract!OpenFilesNext
<1>8. ASSUME NEW t \in Task, t \in alive, alive' = alive \ {t}, Table' = [Table EXCEPT ![t] = Abstract!Closed]
      PROVE  Follows
    <2>1. Abstract!Ends(t)
        BY <1>1, <1>8, Zenon DEF Abstract!Ends, Table
    <2> QED
        BY <2>1, Zenon DEF Follows, Abstract!OpenFilesNext
<1>9. ASSUME alive' = {}, Table' = [t \in Task |-> Abstract!Closed]
      PROVE  Follows
    <2>1. Abstract!Halts
        BY <1>1, <1>9, Zenon DEF Abstract!Halts, Table
    <2> QED
        BY <2>1, Zenon DEF Follows, Abstract!OpenFilesNext
<1>10. ASSUME alive' = alive, Table' = Table
       PROVE  Follows
    BY <1>1, <1>10, Zenon DEF Follows
<1> QED
    BY <1>1, <1>4, <1>5, <1>6, <1>7, <1>8, <1>9, <1>10, Zenon

\* One descriptor changes, in the files as in the table.
LEMMA TableOne ==
    ASSUME Placed, Kept, NEW t \in Task, NEW fd, NEW f, fd \in Fd => Firm(Archived, f),
           UNCHANGED <<machine, alive>>, files' = [files EXCEPT ![t] = [files[t] EXCEPT ![fd] = f]]
    PROVE  /\ Kept'
           /\ fd \in Fd => Table' = [Table EXCEPT ![t][fd] = Entry(Archived, f)]
           /\ fd \notin Fd => Table' = Table
<1>1. Archived' = Archived
    BY DEF Archived
<1>2. \A u \in Task, e \in Fd : files'[u][e] = IF u = t /\ e = fd THEN f ELSE files[u][e]
    BY DEF Placed
<1>3. ASSUME NEW u \in Task, NEW e \in Fd
      PROVE  /\ Firm(Archived', files'[u][e])
             /\ Entry(Archived', files'[u][e]) =
                    IF u = t /\ e = fd THEN Entry(Archived, f) ELSE Entry(Archived, files[u][e])
    <2>1. CASE u = t /\ e = fd
        <3>1. files'[u][e] = f
            BY <1>2, <2>1
        <3> QED
            BY <1>1, <2>1, <3>1
    <2>2. CASE ~(u = t /\ e = fd)
        <3>1. files'[u][e] = files[u][e]
            BY <1>2, <2>2
        <3> QED
            BY <1>1, <2>2, <3>1 DEF Kept
    <2> QED
        BY <2>1, <2>2
<1>4. Kept'
    BY <1>3, Zenon DEF Kept
<1>5. Table' = [u \in Task |-> [e \in Fd |->
                    IF u = t /\ e = fd THEN Entry(Archived, f) ELSE Entry(Archived, files[u][e])]]
    BY <1>3, Zenon DEF Table
<1> DEFINE Was(u, e) == Entry(Archived, files[u][e])
           now == Entry(Archived, f)
<1>6. Table = [u \in Task |-> [e \in Fd |-> Was(u, e)]]
    BY DEF Table
<1>7. Table' = [u \in Task |-> [e \in Fd |-> IF u = t /\ e = fd THEN now ELSE Was(u, e)]]
    BY <1>5
<1> HIDE DEF Was, now
<1>8. CASE fd \in Fd
    <2>1. Table' = [Table EXCEPT ![t][fd] = now]
        BY <1>6, <1>7
    <2> QED
        BY <1>4, <1>8, <2>1 DEF now
<1>9. CASE fd \notin Fd
    <2>1. Table' = Table
        BY <1>6, <1>7, <1>9
    <2> QED
        BY <1>4, <1>9, <2>1
<1> QED
    BY <1>8, <1>9

\* A task gets the files to start with, or none.
LEMMA TableTask ==
    ASSUME Placed, Kept, NEW t \in Task, machine' = machine,
           NEW g, files' = [files EXCEPT ![t] = g]
    PROVE  /\ g = StartFiles => Kept' /\ Table' = [Table EXCEPT ![t] = Abstract!Start]
           /\ g = [fd \in Fd |-> None] => Kept' /\ Table' = [Table EXCEPT ![t] = Abstract!Closed]
<1>1. Archived' = Archived
    BY DEF Archived
<1>2. \A u \in Task : files'[u] = IF u = t THEN g ELSE files[u]
    BY DEF Placed
<1> DEFINE row == [e \in Fd |-> Entry(Archived, g[e])]
<1>3. Table' = [Table EXCEPT ![t] = row]
    <2>1. ASSUME NEW u \in Task
          PROVE  [e \in Fd |-> Entry(Archived', files'[u][e])] =
                    IF u = t THEN row ELSE [e \in Fd |-> Entry(Archived, files[u][e])]
        <3>1. CASE u = t
            <4>1. files'[u] = g
                BY <1>2, <3>1
            <4> QED
                BY <1>1, <3>1, <4>1
        <3>2. CASE u # t
            <4>1. files'[u] = files[u]
                BY <1>2, <3>2
            <4> QED
                BY <1>1, <3>2, <4>1
        <3> QED
            BY <3>1, <3>2
    <2>2. Table' = [u \in Task |-> IF u = t THEN row ELSE [e \in Fd |-> Entry(Archived, files[u][e])]]
        BY <2>1, Zenon DEF Table
    <2> DEFINE Was(u) == [e \in Fd |-> Entry(Archived, files[u][e])]
    <2>3. Table = [u \in Task |-> Was(u)]
        BY DEF Table
    <2>4. Table' = [u \in Task |-> IF u = t THEN row ELSE Was(u)]
        BY <2>2
    <2> HIDE DEF Was, row
    <2> QED
        BY <2>3, <2>4
<1>4. ASSUME g = StartFiles \/ g = [fd \in Fd |-> None]
      PROVE  Kept'
    <2>1. \A e \in Fd : Firm(Archived, g[e])
        BY <1>4, StartFirm
    <2>2. \A u \in Task, e \in Fd : Firm(Archived, files'[u][e])
        BY <1>2, <2>1 DEF Kept
    <2> QED
        BY <1>1, <2>2, Zenon DEF Kept
<1>5. ASSUME g = StartFiles
      PROVE  row = Abstract!Start
    <2>1. \A e \in Fd : Entry(Archived, g[e]) = IF e \in {0, 1} THEN Abstract!Console ELSE <<>>
        BY <1>5, StartFirm
    <2>2. Abstract!Start = [e \in Fd |-> IF e \in {0, 1} THEN Abstract!Console ELSE <<>>]
        BY DEF Abstract!Start, Abstract!Places, Fd
    <2> QED
        BY <2>1, <2>2
<1>6. ASSUME g = [fd \in Fd |-> None]
      PROVE  row = Abstract!Closed
    <2>1. \A e \in Fd : Entry(Archived, g[e]) = <<>>
        BY <1>6, EntryIs
    <2>2. Abstract!Closed = [e \in Fd |-> <<>>]
        BY DEF Abstract!Closed, Abstract!Places, Fd
    <2> QED
        BY <2>1, <2>2
<1> QED
    BY <1>3, <1>4, <1>5, <1>6, Zenon

\* The system calls, as before.
LEMMA StopFollows ==
    ASSUME Placed, Kept, NEW why, Stop(why)
    PROVE  Kept' /\ Follows
<1>1. Archived' = Archived /\ machine' = machine /\ alive' = {} /\ files' = NoFiles /\ machine \in Machine
    BY DEF Archived, Stop, Placed
<1>2. \A u \in Task, fd \in Fd : files'[u][fd] = None
    BY <1>1 DEF NoFiles
<1>3. Kept'
    BY <1>2, StartFirm DEF Kept
<1>4. \A u \in Task, fd \in Fd : Entry(Archived', files'[u][fd]) = <<>>
    BY <1>2, EntryIs
<1>5. Table' = [t \in Task |-> [fd \in Fd |-> <<>>]]
    BY <1>4, Zenon DEF Table
<1>6. Abstract!Closed = [fd \in Fd |-> <<>>]
    BY DEF Abstract!Closed, Abstract!Places, Fd
<1> QED
    BY <1>1, <1>3, <1>5, <1>6, OpenFilesSteps, Zenon

LEMMA StaysFollows ==
    ASSUME Placed, Kept, UNCHANGED <<machine, files, alive>>
    PROVE  Kept' /\ Follows
<1>1. Archived' = Archived /\ machine \in Machine
    BY DEF Archived, Placed
<1>2. Table' = Table
    BY <1>1 DEF Table
<1>3. Kept'
    BY <1>1, Zenon DEF Kept
<1> QED
    BY <1>1, <1>2, <1>3, OpenFilesSteps, Zenon

LEMMA OpenFollows ==
    ASSUME Placed, Kept, NEW V, NEW path \in Seq(V), path # <<>>, NEW t, NEW rd, NEW wr, NEW dir,
           Open(t, path, rd, wr, dir)
    PROVE  Kept' /\ Follows
<1> DEFINE f == IF dir THEN OpenedDir(path) ELSE Opened(path, rd, wr)
           least == Min(FreeFds(t))
           free == {fd \in Fd : Table[t][fd] = <<>>}
<1>1. t \in alive /\ t \in Task /\ machine \in Machine
    BY DEF Open, Runs, Placed
<1>2. CASE Stop("path")
    BY <1>2, StopFollows
<1>3. CASE /\ ~(LookupFile(mounts, path).best # 0 /\ LookupFile(mounts, path).rel = <<>>)
           /\ files' = [files EXCEPT ![t][least] = f] /\ OnlyFiles
    <2>1. /\ UNCHANGED <<machine, alive>>
          /\ files' = [files EXCEPT ![t] = [files[t] EXCEPT ![least] = f]]
        BY <1>3 DEF OnlyFiles
    <2>2. Archived \in Seq(Record) /\ BootMount.ok
        BY <1>1, MachineIs DEF Placed
    <2>3. Firm(Archived, f) /\ (f # None => Progress(Archived, f) = 0)
        BY <1>3, <2>2, OpenedFirm
    <2> HIDE DEF f
    <2>4. FreeFds(t) # {} /\ FreeFds(t) \in SUBSET Fd
        BY DEF Open, FreeFds
    <2>5. least \in FreeFds(t) /\ least \in Fd /\ \A fd \in FreeFds(t) : least <= fd
        <3>1. FreeFds(t) \in SUBSET Nat
            BY <2>4 DEF Fd
        <3> QED
            BY <2>4, <3>1, LeastOf
    <2>6. \A fd \in Fd : Table[t][fd] = Entry(Archived, files[t][fd])
        BY <1>1 DEF Table
    <2>7. Kept' /\ Table' = [Table EXCEPT ![t][least] = Entry(Archived, f)]
        BY <1>1, <2>1, <2>3, <2>5, TableOne
    <2>8. CASE f = None
        <3>1. Entry(Archived, f) = <<>> /\ Table[t][least] = <<>>
            BY <2>5, <2>6, <2>8, EntryIs DEF FreeFds
        <3>2. Table' = Table
            <4> DEFINE row == Table[t]
            <4>1. row = [fd \in Fd |-> row[fd]]
                BY <1>1, Zenon DEF Table
            <4>2. [row EXCEPT ![least] = row[least]] = row
                BY <2>5, <4>1
            <4>3. Table' = [Table EXCEPT ![t] = [row EXCEPT ![least] = row[least]]]
                BY <2>7, <3>1
            <4>4. DOMAIN Table = Task /\ Table = [u \in Task |-> Table[u]]
                BY DEF Table
            <4> HIDE DEF row
            <4>5. Table' = [Table EXCEPT ![t] = row]
                BY <4>2, <4>3
            <4>6. row = Table[t]
                BY DEF row
            <4> QED
                BY <1>1, <4>4, <4>5, <4>6
        <3> QED
            BY <1>1, <2>1, <2>7, <3>2, OpenFilesSteps, Zenon
    <2>9. CASE f # None
        <3>1. free = {fd \in Fd : files[t][fd] = None}
            BY <2>6, EntryIs
        <3>2. Min(free) = least /\ free # {}
            <4>1. free \in SUBSET Nat /\ least \in free
                <5>1. Fd \subseteq Nat /\ free \subseteq Fd
                    BY DEF Fd
                <5>2. least \in Fd /\ files[t][least] = None
                    BY <2>5 DEF FreeFds
                <5> QED
                    BY <3>1, <5>1, <5>2
            <4>2. Min(free) \in free /\ Min(free) <= least
                BY <4>1, LeastOf
            <4>3. machine.fds \in Nat /\ least < machine.fds
                BY <1>1, <2>5, MachineAssumption DEF FreeFds
            <4>4. Min(free) < machine.fds /\ Min(free) \in Nat /\ least \in Nat
                <5> DEFINE m == Min(free)
                <5>1. m \in Nat /\ least \in Nat /\ m <= least
                    BY <4>1, <4>2
                <5> HIDE DEF m, least
                <5>2. m < machine.fds
                    BY <4>3, <5>1
                <5> QED
                    BY <5>1, <5>2 DEF m
            <4>5. Min(free) \in FreeFds(t)
                BY <3>1, <4>2, <4>4 DEF FreeFds
            <4> HIDE DEF free, least
            <4> QED
                BY <2>5, <4>1, <4>2, <4>4, <4>5
        <3>3. Thing(Archived, f) \in Things(Archived)
            BY <2>2, <2>3, <2>9, FirmThing
        <3>4. Entry(Archived, f) = <<Thing(Archived, f), 0>>
            BY <2>3, <2>9, EntryIs
        <3>5. Table' = [Table EXCEPT ![t][Min(free)] = <<Thing(Archived, f), 0>>]
            BY <2>7, <3>2, <3>4
        <3> QED
            BY <1>1, <2>1, <2>7, <3>2, <3>3, <3>5, OpenFilesSteps, Zenon
    <2> QED
        BY <2>8, <2>9
<1> QED
    BY <1>2, <1>3 DEF Open

LEMMA CloseFollows ==
    ASSUME Placed, Kept, NEW t, NEW fd, Close(t, fd)
    PROVE  Kept' /\ Follows
<1>1. t \in alive /\ t \in Task /\ machine \in Machine /\ UNCHANGED <<machine, alive>>
    BY DEF Close, Runs, Placed, OnlyFiles
<1>2. files' = [files EXCEPT ![t] = [files[t] EXCEPT ![fd] = None]]
    BY DEF Close
<1>3. fd \in Fd => Firm(Archived, None)
    BY NoneIs DEF Firm
<1>4. /\ Kept'
      /\ fd \in Fd => Table' = [Table EXCEPT ![t][fd] = Entry(Archived, None)]
      /\ fd \notin Fd => Table' = Table
    BY <1>1, <1>2, <1>3, TableOne
<1>5. Entry(Archived, None) = <<>>
    BY EntryIs
<1> QED
    BY <1>1, <1>4, <1>5, OpenFilesSteps, Zenon

LEMMA TwoMoves ==
    ASSUME NEW x, NEW p, NEW n
    PROVE  [<<x, p>> EXCEPT ![2] = n] = <<x, n>>
OBVIOUS

\* A file of which more is read.
LEMMA MoreFollows ==
    ASSUME Placed, Kept, NEW t \in alive, NEW fd, NEW f, f = files[t][fd], f # None, NEW g,
           fd \in Fd => /\ Firm(Archived, g) /\ g # None /\ Thing(Archived, g) = Thing(Archived, f)
                        /\ Progress(Archived, g) >= Progress(Archived, f),
           UNCHANGED <<machine, alive>>, files' = [files EXCEPT ![t] = [files[t] EXCEPT ![fd] = g]]
    PROVE  Kept' /\ Follows
<1>1. t \in Task /\ machine \in Machine
    BY DEF Placed
<1>2. /\ Kept'
      /\ fd \in Fd => Table' = [Table EXCEPT ![t][fd] = Entry(Archived, g)]
      /\ fd \notin Fd => Table' = Table
    BY <1>1, TableOne
<1>3. CASE fd \notin Fd
    BY <1>1, <1>2, <1>3, OpenFilesSteps, Zenon
<1>4. CASE fd \in Fd
    <2> DEFINE x == Thing(Archived, f)
               p == Progress(Archived, f)
               n == Progress(Archived, g)
               row == Table[t]
    <2>1. Firm(Archived, f) /\ Archived \in Seq(Record)
        BY <1>1, <1>4, MachineIs DEF Kept
    <2>2. Entry(Archived, f) = <<x, p>> /\ Entry(Archived, g) = <<x, n>>
        BY <1>4, EntryIs
    <2>3. row[fd] = <<x, p>> /\ row = [e \in Fd |-> row[e]] /\ Table = [u \in Task |-> Table[u]]
        BY <1>1, <1>4, <2>2 DEF Table
    <2>4. p \in Nat /\ n \in Nat /\ n <= LengthOf(Archived, x) /\ x \in Things(Archived) /\ n >= p
          /\ LengthOf(Archived, x) \in Nat
        BY <1>4, <2>1, FirmThing
    <2>5. Trees[machine][x] = LengthOf(Archived, x)
        BY <1>1, <2>4 DEF Trees, Archived
    <2> HIDE DEF x, p, n, row
    <2>6. row[fd] # <<>> /\ row[fd][1] = x /\ row[fd][2] = p
        BY <2>3, Two
    <2>7. Table' = [Table EXCEPT ![t] = [row EXCEPT ![fd] = <<x, n>>]]
        BY <1>2, <1>4, <2>2 DEF row
    <2>8. CASE n = p
        <3>1. [row EXCEPT ![fd] = <<x, n>>] = row
            BY <1>4, <2>3, <2>8
        <3>2. Table' = Table
            BY <1>1, <2>3, <2>7, <3>1 DEF row
        <3> QED
            BY <1>1, <1>2, <3>2, OpenFilesSteps, Zenon
    <2>9. CASE n # p
        <3>1. n \in p + 1..LengthOf(Archived, x)
            BY <2>4, <2>9
        <3>2. [row[fd] EXCEPT ![2] = n] = <<x, n>>
            BY <2>3, TwoMoves
        <3>3. Table' = [Table EXCEPT ![t][fd][2] = n]
            BY <2>7, <3>2 DEF row
        <3>4. Table[t][fd] # <<>> /\ n \in Table[t][fd][2] + 1..Trees[machine][Table[t][fd][1]]
            BY <2>5, <2>6, <3>1 DEF row
        <3> QED
            BY <1>1, <1>2, <1>4, <3>3, <3>4, OpenFilesSteps, Zenon
    <2> QED
        BY <2>8, <2>9
<1> QED
    BY <1>3, <1>4

LEMMA ReadFollows ==
    ASSUME Placed, Kept, NEW t, NEW fd, NEW len \in Nat, Read(t, fd, len)
    PROVE  Kept' /\ Follows
<1> DEFINE f == files[t][fd]
<1>1. t \in alive /\ t \in Task
    BY DEF Read, Runs, Placed
<1>2. CASE Stop("device")
    BY <1>2, StopFollows
<1>3. CASE f.kind = "reg" /\ files' = [files EXCEPT ![t][fd] = ReadFile(f, len)] /\ OnlyFiles
    <2> DEFINE g == ReadFile(f, len)
    <2>1. /\ UNCHANGED <<machine, alive>>
          /\ files' = [files EXCEPT ![t] = [files[t] EXCEPT ![fd] = g]]
        BY <1>3 DEF OnlyFiles
    <2>2. ASSUME fd \in Fd
          PROVE  /\ Firm(Archived, g) /\ g # None /\ Thing(Archived, g) = Thing(Archived, f)
                 /\ Progress(Archived, g) >= Progress(Archived, f)
        <3>1. Firm(Archived, f) /\ Archived \in Seq(Record)
            BY <1>1, <2>2, MachineIs DEF Kept, Placed
        <3> QED
            BY <1>3, <3>1, ReadFirm
    <2>3. f # None
        BY <1>3, NoneIs
    <2> HIDE DEF f, g
    <2> QED
        BY <1>1, <2>1, <2>2, <2>3, MoreFollows DEF f
<1> QED
    BY <1>2, <1>3 DEF Read

LEMMA ReadDirFollows ==
    ASSUME Placed, Kept, NEW t, NEW fd, ReadDir(t, fd)
    PROVE  Kept' /\ Follows
<1> DEFINE f == files[t][fd]
           next == IF f.kind = "devfs" THEN NextNode(f.next) ELSE ReadEntry(Archived, f.rel, f.next).at
           g == [f EXCEPT !.next = next]
<1>1. t \in alive /\ t \in Task /\ IsDir(f) /\ UNCHANGED <<machine, alive>>
    BY DEF ReadDir, Runs, Placed, OnlyFiles
<1>2. files' = [files EXCEPT ![t] = [files[t] EXCEPT ![fd] = g]]
    BY DEF ReadDir
<1>3. ASSUME fd \in Fd
      PROVE  /\ Firm(Archived, g) /\ g # None /\ Thing(Archived, g) = Thing(Archived, f)
             /\ Progress(Archived, g) >= Progress(Archived, f)
    <2>1. Firm(Archived, f) /\ Archived \in Seq(Record)
        BY <1>1, <1>3, MachineIs DEF Kept, Placed
    <2> QED
        BY <1>1, <2>1, ReadDirFirm
<1>4. f # None
    BY <1>1, NoneIs DEF IsDir
<1> HIDE DEF f, g
<1> QED
    BY <1>1, <1>2, <1>3, <1>4, MoreFollows DEF f

LEMMA WriteFollows ==
    ASSUME Placed, Kept, NEW t, NEW fd, NEW text, Write(t, fd, text)
    PROVE  Kept' /\ Follows
<1>1. CASE \E why : Stop(why)
    BY <1>1, StopFollows
<1>2. CASE \E node, sent : TtyWrite(node, sent)
    BY <1>2, StaysFollows DEF TtyWrite
<1> QED
    BY <1>1, <1>2 DEF Write, VfsWrite

LEMMA ForkFollows ==
    ASSUME Placed, Kept, NEW t, NEW c \in Task, Fork(t, c)
    PROVE  Kept' /\ Follows
<1>1. /\ machine' = machine /\ files' = [files EXCEPT ![c] = StartFiles] /\ machine \in Machine
      /\ alive # {} /\ c \notin alive /\ alive' = alive \cup {c}
    BY DEF Fork, Runs, Placed
<1>2. Kept' /\ Table' = [Table EXCEPT ![c] = Abstract!Start]
    BY <1>1, TableTask
<1> QED
    BY <1>1, <1>2, OpenFilesSteps, Zenon

LEMMA ExitFollows ==
    ASSUME Placed, Kept, NEW t, Exit(t)
    PROVE  Kept' /\ Follows
<1>1. /\ machine' = machine /\ files' = [files EXCEPT ![t] = [fd \in Fd |-> None]] /\ machine \in Machine
      /\ t \in Task /\ t \in alive /\ alive' = alive \ {t}
    BY DEF Exit, Runs, Placed
<1>2. Kept' /\ Table' = [Table EXCEPT ![t] = Abstract!Closed]
    BY <1>1, TableTask
<1> QED
    BY <1>1, <1>2, OpenFilesSteps, Zenon

\* A machine without a shell.
LEMMA FilesFollow ==
    ASSUME Placed, Kept, FilesNext
    PROVE  Kept' /\ Follows
<1>1. ASSUME NEW t \in Task, NEW path \in machine.paths, NEW mode \in machine.modes, NEW dir \in BOOLEAN,
             NEW p \in Meant(path), Open(t, p, "rd" \in mode, "wr" \in mode, dir)
      PROVE  Kept' /\ Follows
    <2>1. PICK V : p \in Seq(V) /\ p # <<>>
        BY MachineIs, MeantIs DEF Placed
    <2> QED
        BY <1>1, <2>1, OpenFollows
<1>2. ASSUME NEW t \in Task, NEW fd \in Fd, NEW len \in machine.lengths, Read(t, fd, len)
      PROVE  Kept' /\ Follows
    <2>1. len \in Nat
        BY MachineIs DEF Placed
    <2> QED
        BY <1>2, <2>1, ReadFollows
<1>3. ASSUME NEW t \in Task, NEW c \in Task, NEW path, Fexecve(t, c, path)
      PROVE  Kept' /\ Follows
    BY <1>3, ForkFollows, StopFollows DEF Fexecve
<1>4. CASE FilesStopped
    BY <1>4, StaysFollows DEF FilesStopped, filesVars
<1> QED
    BY <1>1, <1>2, <1>3, <1>4, CloseFollows, ReadDirFollows, WriteFollows, ForkFollows, ExitFollows DEF FilesNext

\* A machine with one.
LEMMA ShellFollows ==
    ASSUME Placed, TextOK, Kept, HasShell, ShellStep
    PROVE  Kept' /\ Follows
<1>1. UNCHANGED filesVars => Kept' /\ Follows
    BY StaysFollows DEF filesVars
<1>2. \A text : Say(text) => Kept' /\ Follows
    BY WriteFollows DEF Say
<1>3. CASE \/ ShowPrompt \/ GotBackSpace \/ GotCharacter \/ GotNewLine \/ GotOther \/ Split \/ Put \/ Echo \/ Pid
           \/ Waited
    BY <1>1, <1>2, <1>3 DEF ShowPrompt, GotBackSpace, GotCharacter, GotNewLine, GotOther, Split, Put, Echo, Pid,
                            Waited
<1>e. CASE ChildExec
    <2>1. UNCHANGED filesVars \/ Stop("program")
        BY <1>e, Zenon DEF ChildExec
    <2> QED
        BY <1>1, <2>1, StopFollows
<1>4. CASE SplitTooLong \/ Quit \/ ChildExits
    BY <1>4, ExitFollows DEF SplitTooLong, Quit, ChildExits
<1>5. CASE OpenArgument
    <2>1. CASE Stop("argument")
        BY <2>1, StopFollows
    <2>2. ASSUME NEW path, NEW dir, path \in Meant(PathOf(shell.arg)), shell.arg # NoArg,
                 Open(Me, path, TRUE, FALSE, dir)
          PROVE  Kept' /\ Follows
        <3>1. /\ shell.arg \in Seq(Printable) /\ Archived \in Seq(Record)
              /\ machine.paths \subseteq Seq(STRING) \ {<<>>}
            BY <2>2, MachineIs DEF TextOK, Placed
        <3>2. PICK V : path \in Seq(V) /\ path # <<>>
            BY <2>2, <3>1, MeantIsPath
        <3> QED
            BY <2>2, <3>2, OpenFollows
    <2>3. ASSUME NEW dir, Open(Me, Root, TRUE, FALSE, dir)
          PROVE  Kept' /\ Follows
        <3>1. Root \in Seq({""}) /\ Root # <<>>
            BY DEF Root
        <3> QED
            BY <2>3, <3>1, OpenFollows
    <2>4. \/ Stop("argument")
          \/ \E path \in IF shell.arg = NoArg THEN {Root} ELSE Meant(PathOf(shell.arg)) :
                \E dir : Open(Me, path, TRUE, FALSE, dir)
        BY <1>5, Zenon DEF OpenArgument
    <2> QED
        BY <2>1, <2>2, <2>3, <2>4
<1>6. CASE Pump
    <2>1. Read(Me, shell.fd, Chunk) /\ Chunk \in Nat
        BY <1>6, ShellAssumption DEF Pump
    <2> QED
        BY <2>1, ReadFollows
<1>7. CASE List
    BY <1>7, ReadDirFollows DEF List
<1>8. CASE CloseFile
    BY <1>8, CloseFollows DEF CloseFile
<1>9. CASE Launch
    BY <1>9, ForkFollows DEF Launch
<1>10. CASE ChildFails \/ ChildPrints
    BY <1>10, WriteFollows DEF ChildFails, ChildPrints
<1> QED
    BY <1>e, <1>3, <1>4, <1>5, <1>6, <1>7, <1>8, <1>9, <1>10 DEF ShellStep

\* At first the descriptors are those of OpenFiles, and every step is one of its steps.
LEMMA FollowsAtFirst ==
    ASSUME ShellInit
    PROVE  Kept /\ Abstract!OpenFilesInit
<1>1. PICK t \in Task : alive = {t} /\ files = [NoFiles EXCEPT ![t] = StartFiles]
    BY DEF ShellInit, FilesInit
<1>2. \A u \in Task : files[u] = IF u = t THEN StartFiles ELSE [fd \in Fd |-> None]
    BY <1>1 DEF NoFiles
<1>3. Kept
    BY <1>2, StartFirm DEF Kept
<1>4. ASSUME NEW u \in Task
      PROVE  [fd \in Fd |-> Entry(Archived, files[u][fd])] = IF u = t THEN Abstract!Start ELSE Abstract!Closed
    <2>1. Abstract!Start = [fd \in Fd |-> IF fd \in {0, 1} THEN Abstract!Console ELSE <<>>]
        BY DEF Abstract!Start, Abstract!Places, Fd
    <2>2. Abstract!Closed = [fd \in Fd |-> <<>>]
        BY DEF Abstract!Closed, Abstract!Places, Fd
    <2>3. CASE u = t
        <3>1. \A fd \in Fd : Entry(Archived, files[u][fd]) = IF fd \in {0, 1} THEN Abstract!Console ELSE <<>>
            BY <1>2, <2>3, StartFirm
        <3> QED
            BY <2>1, <2>3, <3>1
    <2>4. CASE u # t
        <3>1. \A fd \in Fd : Entry(Archived, files[u][fd]) = <<>>
            BY <1>2, <2>4, EntryIs
        <3> QED
            BY <2>2, <2>4, <3>1
    <2> QED
        BY <2>3, <2>4
<1>5. Table = [u \in Task |-> IF u = t THEN Abstract!Start ELSE Abstract!Closed]
    BY <1>4, Zenon DEF Table
<1>6. Abstract!OpenFilesInit
    BY <1>1, <1>5, Zenon DEF Abstract!OpenFilesInit, Table
<1> QED
    BY <1>3, <1>6

LEMMA FollowsStep ==
    ASSUME Placed, TextOK, Kept, [ShellNext]_<<filesVars, shellVars>>
    PROVE  Kept' /\ Follows
<1>1. CASE UNCHANGED filesVars
    BY <1>1, StaysFollows DEF filesVars
<1>2. CASE shell.at = "none" /\ FilesNext /\ UNCHANGED shellVars
    BY <1>2, FilesFollow
<1>3. CASE shell.at # "none" /\ ShellStep
    BY <1>3, ShellFollows DEF HasShell
<1> QED
    BY <1>1, <1>2, <1>3 DEF ShellNext, Key, FilesStopped, Quiet, shellVars, filesVars

\* Descriptors are what OpenFiles promises: whatever programs or the shell open, read,
\* list, close and fork, each step is a step of OpenFiles or none. A file opens at its
\* beginning in the lowest free descriptor, moves on only when its own task reads it,
\* and never beyond its end; a child starts with the terminals and nothing else.
THEOREM DescriptorsImplementOpenFiles == ShellSpec => ImplementsOpenFiles
<1> DEFINE Inv == Placed /\ TextOK /\ Kept
<1>1. ShellInit => Inv /\ Abstract!OpenFilesInit
    BY PlacedAtFirst, FollowsAtFirst
<1>2. Inv /\ [ShellNext]_<<filesVars, shellVars>> => Inv' /\ Follows
    BY PlacedStep, FollowsStep
<1>3. Follows => [Abstract!OpenFilesNext]_Abstract!openVars
    BY Zenon DEF Follows, Abstract!openVars, Table
<1> QED
    BY <1>1, <1>2, <1>3, PTL DEF ShellSpec, ImplementsOpenFiles, Abstract!OpenFilesSpec

-----------------------------------------------------------------------------
(***************************************************************************)
(* The screen shows the end of what was written.                           *)
(***************************************************************************)

\* What the screen can show, and the lines of a text: at least one, none too long.
Glyph == Printable \cup {"?"}
Sheets == {q \in Seq(Seq(Glyph)) : Len(q) > 0 /\ \A i \in 1..Len(q) : Len(q[i]) < Width}

\* What stands at a place of the text, and how many of its lines are above the screen.
Spot(q, i, j) == IF i <= Len(q) /\ j <= Len(q[i]) THEN q[i][j] ELSE Blank
Above(q) == IF Len(q) < Height THEN 0 ELSE Len(q) - Height + 1

LEMMA SheetIs ==
    ASSUME NEW q \in Sheets
    PROVE  /\ q \in Seq(Seq(Glyph)) /\ Len(q) \in Nat \ {0}
           /\ q[Len(q)] \in Seq(Glyph) /\ Len(q[Len(q)]) \in Nat /\ Len(q[Len(q)]) < Width
           /\ \A i \in 1..Len(q) : q[i] \in Seq(Glyph) /\ Len(q[i]) \in Nat /\ Len(q[i]) < Width
           /\ Above(q) \in Nat /\ Len(q) - Above(q) \in 1..Height - 1
           /\ Width \in Nat /\ Width > 1 /\ Height \in Nat /\ Height > 1
<1>1. Width \in Nat /\ Width > 1 /\ Height \in Nat /\ Height > 1
    BY ConsoleAssumption
<1>2. q \in Seq(Seq(Glyph)) /\ Len(q) \in Nat \ {0} /\ \A i \in 1..Len(q) : Len(q[i]) < Width
    BY DEF Sheets
<1>3. \A i \in 1..Len(q) : q[i] \in Seq(Glyph)
    BY <1>2
<1>4. \A i \in 1..Len(q) : Len(q[i]) \in Nat
    BY <1>3
<1>5. Len(q) \in 1..Len(q)
    BY <1>2
<1>6. Above(q) \in Nat /\ Len(q) - Above(q) \in 1..Height - 1
    BY <1>1, <1>2 DEF Above
<1> QED
    BY <1>1, <1>2, <1>3, <1>4, <1>5, <1>6

LEMMA EndIs ==
    ASSUME NEW q \in Sheets
    PROVE  EndOf(q) = [cell |-> [p \in Row \X Col |-> Spot(q, Above(q) + p[1] + 1, p[2] + 1)],
                       x |-> Len(q[Len(q)]), y |-> Len(q) - Above(q) - 1]
<1> DEFINE n == Len(q)
           from == Max({1, n - Height + 2})
           shown == SubSeq(q, from, n)
<1>1. /\ n \in Nat \ {0} /\ Above(q) \in Nat /\ n - Above(q) \in 1..Height - 1 /\ q \in Seq(Seq(Glyph))
      /\ Height \in Nat /\ Height > 1
    BY SheetIs
<1>2. from = Above(q) + 1
    <2> DEFINE T == {1, n - Height + 2}
               m == Above(q) + 1
    <2>1. m \in T /\ \A y \in T : y \in Int /\ m >= y
        BY <1>1 DEF Above
    <2>2. \A x \in T : (\A y \in T : x >= y) => x = m
        <3>1. ASSUME NEW x \in T, \A y \in T : x >= y PROVE x = m
            <4>1. x \in Int /\ m \in Int /\ x >= m /\ m >= x
                BY <2>1, <3>1
            <4> HIDE DEF m
            <4> QED
                BY <4>1
        <3> QED
            BY <3>1
    <2>3. Max(T) = m
        <3> HIDE DEF T, m
        <3> QED
            BY <2>1, <2>2 DEF Max
    <2> QED
        BY <2>3
<1>3. /\ Len(shown) = n - Above(q)
      /\ \A i \in 1..n - Above(q) : shown[i] = q[Above(q) + i]
    <2>1. from \in 1..n /\ n \in 1..n
        BY <1>1, <1>2
    <2>2. Len(shown) = n - from + 1 /\ \A i \in 1..n - from + 1 : shown[i] = q[from + i - 1]
        <3> HIDE DEF from
        <3> QED
            BY <1>1, <2>1
    <2>3. n - from + 1 = n - Above(q)
        BY <1>1, <1>2
    <2>4. ASSUME NEW i \in 1..n - Above(q) PROVE shown[i] = q[Above(q) + i]
        <3>1. from + i - 1 = Above(q) + i
            BY <1>1, <1>2
        <3> HIDE DEF shown, from
        <3> QED
            BY <2>2, <2>3, <3>1
    <2> HIDE DEF shown, from
    <2> QED
        BY <2>2, <2>3, <2>4
<1> HIDE DEF from, shown
<1> DEFINE k == n - Above(q)
<1>4. k \in 1..Height - 1 /\ k \in 1..k /\ Above(q) + k = n
    BY <1>1
<1>5. ASSUME NEW p \in Row \X Col
      PROVE  (IF p[1] < Len(shown) /\ p[2] < Len(shown[p[1] + 1]) THEN shown[p[1] + 1][p[2] + 1] ELSE Blank)
                = Spot(q, Above(q) + p[1] + 1, p[2] + 1)
    <2> DEFINE r == p[1]
               c == p[2]
    <2>1. r \in Nat /\ c \in Nat
        BY <1>1, ConsoleAssumption DEF Row, Col
    <2> HIDE DEF r, c, n, k
    <2>2. CASE r < k
        <3>1. r + 1 \in 1..k /\ Above(q) + r + 1 = Above(q) + (r + 1) /\ Above(q) + r + 1 \in 1..n
            BY <1>1, <1>4, <2>1, <2>2 DEF k
        <3>2. shown[r + 1] = q[Above(q) + r + 1]
            BY <1>3, <3>1 DEF n, k
        <3>3. Len(q[Above(q) + r + 1]) \in Nat
            BY <3>1, SheetIs DEF n
        <3>4. c < Len(q[Above(q) + r + 1]) <=> c + 1 <= Len(q[Above(q) + r + 1])
            BY <2>1, <3>3
        <3>5. Len(shown) = k /\ Above(q) + r + 1 <= Len(q)
            BY <1>1, <1>3, <3>1 DEF n, k
        <3> QED
            BY <2>2, <3>2, <3>4, <3>5 DEF Spot, r, c
    <2>3. CASE ~(r < k)
        <3>1. ~(Above(q) + r + 1 <= Len(q)) /\ Len(shown) = k
            BY <1>1, <1>3, <1>4, <2>1, <2>3 DEF n, k
        <3> QED
            BY <2>3, <3>1 DEF Spot, r, c
    <2> QED
        BY <2>2, <2>3
<1>6. Len(shown[Len(shown)]) = Len(q[n]) /\ Len(shown) - 1 = n - Above(q) - 1
    <2>1. Len(shown) = k /\ shown[k] = q[Above(q) + k]
        BY <1>3, <1>4
    <2> QED
        BY <1>4, <2>1
<1>7. EndOf(q) = [cell |-> [p \in Row \X Col |->
                      IF p[1] < Len(shown) /\ p[2] < Len(shown[p[1] + 1]) THEN shown[p[1] + 1][p[2] + 1]
                      ELSE Blank],
                  x |-> Len(shown[Len(shown)]), y |-> Len(shown) - 1]
    BY Zenon DEF EndOf, shown, from
<1>8. [p \in Row \X Col |->
          IF p[1] < Len(shown) /\ p[2] < Len(shown[p[1] + 1]) THEN shown[p[1] + 1][p[2] + 1] ELSE Blank]
      = [p \in Row \X Col |-> Spot(q, Above(q) + p[1] + 1, p[2] + 1)]
    BY <1>5, Zenon
<1> QED
    BY <1>6, <1>7, <1>8, Zenon

\* Where the cursor of EndOf stands, and that no line is above it too early.
LEMMA EndFacts ==
    ASSUME NEW q \in Sheets, NEW s, s = EndOf(q)
    PROVE  /\ s = [cell |-> s.cell, x |-> s.x, y |-> s.y]
           /\ s.cell = [p \in Row \X Col |-> Spot(q, Above(q) + p[1] + 1, p[2] + 1)]
           /\ s.x = Len(q[Len(q)]) /\ s.x \in 0..Width - 1
           /\ s.y = Len(q) - Above(q) - 1 /\ s.y \in 0..Height - 2
           /\ Above(q) \in Nat /\ Len(q) \in Nat \ {0} /\ Width > 1 /\ Width \in Nat /\ Height > 1 /\ Height \in Nat
<1>1. s = [cell |-> [p \in Row \X Col |-> Spot(q, Above(q) + p[1] + 1, p[2] + 1)],
           x |-> Len(q[Len(q)]), y |-> Len(q) - Above(q) - 1]
    BY EndIs
<1>2. /\ s.cell = [p \in Row \X Col |-> Spot(q, Above(q) + p[1] + 1, p[2] + 1)]
      /\ s.x = Len(q[Len(q)]) /\ s.y = Len(q) - Above(q) - 1
      /\ s = [cell |-> s.cell, x |-> s.x, y |-> s.y]
    BY <1>1
<1>3. /\ Len(q[Len(q)]) \in Nat /\ Len(q[Len(q)]) < Width /\ Len(q) - Above(q) \in 1..Height - 1
      /\ Above(q) \in Nat /\ Len(q) \in Nat \ {0} /\ Width > 1 /\ Width \in Nat /\ Height > 1 /\ Height \in Nat
    BY SheetIs
<1>4. s.x \in 0..Width - 1 /\ s.y \in 0..Height - 2
    <2> DEFINE k == Len(q[Len(q)])
               m == Len(q) - Above(q)
    <2>1. k \in Nat /\ k < Width /\ m \in 1..Height - 1 /\ Width \in Nat /\ Height \in Nat
        BY <1>3
    <2>2. s.x = k /\ s.y = m - 1
        BY <1>2
    <2> HIDE DEF k, m
    <2> QED
        BY <2>1, <2>2
<1> QED
    BY <1>2, <1>3, <1>4, Zenon

\* A new line, with nothing in it or one character; and another last line.
AddLine(q, l) == Append(q, l)
SetLine(q, l) == Append(SubSeq(q, 1, Len(q) - 1), l)

LEMMA LineSheet ==
    ASSUME NEW q \in Sheets, NEW l \in Seq(Glyph), Len(l) < Width
    PROVE  LET r == AddLine(q, l)
           IN  /\ r \in Sheets /\ Len(r) = Len(q) + 1 /\ r[Len(r)] = l
               /\ Above(r) = IF Len(q) - Above(q) = Height - 1 THEN Above(q) + 1 ELSE Above(q)
<1> DEFINE r == AddLine(q, l)
<1>1. q \in Seq(Seq(Glyph)) /\ Len(q) \in Nat \ {0} /\ \A i \in 1..Len(q) : Len(q[i]) < Width
    BY SheetIs
<1>2. /\ r \in Seq(Seq(Glyph)) /\ Len(r) = Len(q) + 1 /\ r[Len(q) + 1] = l
      /\ \A i \in 1..Len(q) : r[i] = q[i]
    BY <1>1 DEF AddLine
<1> HIDE DEF r
<1>3. r \in Sheets
    <2>1. ASSUME NEW i \in 1..Len(r) PROVE Len(r[i]) < Width
        <3>1. CASE i = Len(q) + 1
            BY <1>2, <3>1
        <3>2. CASE i # Len(q) + 1
            <4>1. i \in 1..Len(q)
                BY <1>1, <1>2, <3>2
            <4> QED
                BY <1>1, <1>2, <4>1
        <3> QED
            BY <3>1, <3>2
    <2>2. Len(r) > 0
        BY <1>1, <1>2
    <2> QED
        BY <1>2, <2>1, <2>2 DEF Sheets
<1>4. Above(r) = IF Len(q) - Above(q) = Height - 1 THEN Above(q) + 1 ELSE Above(q)
    <2>1. Height \in Nat /\ Height > 1 /\ Len(q) \in Nat /\ Len(r) = Len(q) + 1
        BY <1>1, <1>2, ConsoleAssumption
    <2> QED
        BY <2>1 DEF Above
<1> QED
    BY <1>2, <1>3, <1>4 DEF r

LEMMA LineSpot ==
    ASSUME NEW q \in Sheets, NEW l \in Seq(Glyph), NEW i \in Nat \ {0}, NEW j \in Nat \ {0}
    PROVE  /\ i # Len(q) + 1 => Spot(AddLine(q, l), i, j) = Spot(q, i, j)
           /\ i = Len(q) + 1 => Spot(AddLine(q, l), i, j) = IF j <= Len(l) THEN l[j] ELSE Blank
<1> DEFINE r == AddLine(q, l)
<1> SUFFICES /\ i # Len(q) + 1 => Spot(r, i, j) = Spot(q, i, j)
             /\ i = Len(q) + 1 => Spot(r, i, j) = IF j <= Len(l) THEN l[j] ELSE Blank
    OBVIOUS
<1>1. q \in Seq(Seq(Glyph)) /\ Len(q) \in Nat \ {0}
    BY SheetIs
<1>2. /\ Len(r) = Len(q) + 1 /\ r[Len(q) + 1] = l
      /\ \A k \in 1..Len(q) : r[k] = q[k]
    BY <1>1 DEF AddLine
<1> HIDE DEF r
<1>3. CASE i \in 1..Len(q)
    <2>1. i <= Len(r) /\ i <= Len(q) /\ i # Len(q) + 1
        BY <1>1, <1>2, <1>3
    <2> QED
        BY <1>2, <1>3, <2>1 DEF Spot
<1>4. CASE i = Len(q) + 1
    <2>1. i <= Len(r)
        BY <1>1, <1>2, <1>4
    <2> QED
        BY <1>2, <1>4, <2>1 DEF Spot
<1>5. CASE i > Len(q) + 1
    <2>1. ~(i <= Len(r)) /\ ~(i <= Len(q)) /\ i # Len(q) + 1
        BY <1>1, <1>2, <1>5
    <2> QED
        BY <2>1 DEF Spot
<1> QED
    BY <1>1, <1>3, <1>4, <1>5

LEMMA LastSheet ==
    ASSUME NEW q \in Sheets, NEW l \in Seq(Glyph), Len(l) < Width
    PROVE  LET r == SetLine(q, l)
           IN  /\ r \in Sheets /\ Len(r) = Len(q) /\ r[Len(r)] = l /\ Above(r) = Above(q)
               /\ \A i \in 1..Len(q) - 1 : r[i] = q[i]
<1> DEFINE r == SetLine(q, l)
<1>1. q \in Seq(Seq(Glyph)) /\ Len(q) \in Nat \ {0} /\ \A i \in 1..Len(q) : Len(q[i]) < Width
    BY SheetIs
<1>2. Len(q) > 0
    BY <1>1
<1>3. /\ r \in Seq(Seq(Glyph)) /\ Len(r) = Len(q) /\ r[Len(q)] = l
      /\ \A i \in 1..Len(q) - 1 : r[i] = q[i]
    <2> DEFINE V == Seq(Glyph)
               n == Len(q) - 1
               up == SubSeq(q, 1, n)
    <2>1. q \in Seq(V) /\ l \in V
        BY <1>1
    <2> HIDE DEF V
    <2>2. Len(q) \in Nat /\ n \in Nat /\ n + 1 = Len(q) /\ n <= Len(q)
        BY <1>1
    <2>3. up \in Seq(V) /\ Len(up) = n /\ \A i \in 1..n : up[i] = q[i]
        BY <2>1, <2>2
    <2>4. r = Append(up, l)
        BY DEF SetLine
    <2> HIDE DEF up, n, r
    <2>5. r \in Seq(V) /\ Len(r) = n + 1 /\ r[n + 1] = l
        BY <2>1, <2>3, <2>4
    <2>6. ASSUME NEW i \in 1..n PROVE r[i] = up[i]
        BY <2>1, <2>2, <2>3, <2>4
    <2> QED
        BY <2>2, <2>3, <2>5, <2>6 DEF n, V
<1> HIDE DEF r
<1>4. r \in Sheets
    <2>1. ASSUME NEW i \in 1..Len(r) PROVE Len(r[i]) < Width
        <3>1. CASE i = Len(q)
            BY <1>3, <3>1
        <3>2. CASE i # Len(q)
            <4>1. i \in 1..Len(q) - 1 /\ i \in 1..Len(q)
                BY <1>1, <1>3, <3>2
            <4> QED
                BY <1>1, <1>3, <4>1
        <3> QED
            BY <3>1, <3>2
    <2> QED
        BY <1>1, <1>3, <2>1 DEF Sheets
<1>5. Above(r) = Above(q)
    BY <1>3 DEF Above
<1> QED
    BY <1>3, <1>4, <1>5 DEF r

LEMMA LastSpot ==
    ASSUME NEW q \in Sheets, NEW l \in Seq(Glyph), Len(l) < Width, NEW i \in Nat \ {0}, NEW j \in Nat \ {0}
    PROVE  /\ i # Len(q) => Spot(SetLine(q, l), i, j) = Spot(q, i, j)
           /\ i = Len(q) => Spot(SetLine(q, l), i, j) = IF j <= Len(l) THEN l[j] ELSE Blank
<1> DEFINE r == SetLine(q, l)
<1> SUFFICES /\ i # Len(q) => Spot(r, i, j) = Spot(q, i, j)
             /\ i = Len(q) => Spot(r, i, j) = IF j <= Len(l) THEN l[j] ELSE Blank
    OBVIOUS
<1> HIDE DEF r
<1>1. Len(q) \in Nat \ {0}
    BY SheetIs
<1>2. Len(r) = Len(q) /\ r[Len(q)] = l /\ \A k \in 1..Len(q) - 1 : r[k] = q[k]
    BY LastSheet DEF r
<1>3. CASE i \in 1..Len(q) - 1
    <2>1. i <= Len(r) /\ i <= Len(q) /\ i # Len(q)
        BY <1>1, <1>2, <1>3
    <2> QED
        BY <1>2, <1>3, <2>1 DEF Spot
<1>4. CASE i = Len(q)
    <2>1. i <= Len(r)
        BY <1>1, <1>2, <1>4
    <2> QED
        BY <1>2, <1>4, <2>1 DEF Spot
<1>5. CASE i > Len(q)
    <2>1. ~(i <= Len(r)) /\ ~(i <= Len(q)) /\ i # Len(q)
        BY <1>1, <1>2, <1>5
    <2> QED
        BY <2>1 DEF Spot
<1> QED
    BY <1>1, <1>3, <1>4, <1>5

\* What a character does to the lines, and to the screen.
LEMMA TypedIs ==
    ASSUME NEW q \in Sheets, NEW c
    PROVE  LET last == q[Len(q)]
               d    == IF c \in Printable THEN c ELSE "?"
           IN  /\ c = NewLine => Typed(q, c) = AddLine(q, <<>>)
               /\ c = BackSpace => Typed(q, c) = SetLine(q, IF last = <<>> THEN last ELSE SubSeq(last, 1, Len(last) - 1))
               /\ c \notin {NewLine, BackSpace} /\ Len(last) = Width - 1 => Typed(q, c) = AddLine(q, <<d>>)
               /\ c \notin {NewLine, BackSpace} /\ Len(last) # Width - 1 => Typed(q, c) = SetLine(q, Append(last, d))
<1>1. NewLine # BackSpace
    BY DEF NewLine, BackSpace
<1> QED
    BY <1>1, Zenon DEF Typed, AddLine, SetLine

LEMMA PutIs ==
    ASSUME NEW s, NEW c
    PROVE  /\ c = NewLine => PutChar(s, c) = KeepAbove([s EXCEPT !.x = 0, !.y = @ + 1])
           /\ c = BackSpace => PutChar(s, c) = IF s.x = 0 THEN s
                                               ELSE [s EXCEPT !.cell[<<s.y, s.x - 1>>] = Blank, !.x = @ - 1]
           /\ c \notin {NewLine, BackSpace} => PutChar(s, c) = Show(s, IF c \in Printable THEN c ELSE "?")
<1>1. NewLine # BackSpace
    BY DEF NewLine, BackSpace
<1> QED
    BY <1>1, Zenon DEF PutChar

\* A new line with nothing in it changes no place of the text.
LEMMA EmptyLine ==
    ASSUME NEW q \in Sheets, NEW l \in Seq(Glyph), Len(l) = 0, NEW i \in Nat \ {0}, NEW j \in Nat \ {0}
    PROVE  Spot(AddLine(q, l), i, j) = Spot(q, i, j)
<1> DEFINE r == AddLine(q, l)
<1>1. q \in Seq(Seq(Glyph)) /\ Len(q) \in Nat \ {0}
    BY SheetIs
<1>2. /\ Len(r) = Len(q) + 1 /\ r[Len(q) + 1] = l
      /\ \A k \in 1..Len(q) : r[k] = q[k]
    BY <1>1 DEF AddLine
<1> HIDE DEF r
<1>3. CASE i \in 1..Len(q)
    <2>1. i <= Len(r) /\ i <= Len(q) /\ r[i] = q[i]
        BY <1>1, <1>2, <1>3
    <2>2. Spot(r, i, j) = Spot(q, i, j)
        BY <2>1, Zenon DEF Spot
    <2> QED
        BY <2>2 DEF r
<1>4. CASE i \notin 1..Len(q)
    <2>1. ~(i <= Len(q)) /\ (i <= Len(r) => r[i] = l)
        BY <1>1, <1>2, <1>4
    <2>2. ~(j <= Len(l))
        OBVIOUS
    <2>3. Spot(r, i, j) = Spot(q, i, j)
        BY <2>1, <2>2, Zenon DEF Spot
    <2> QED
        BY <2>3 DEF r
<1> QED
    BY <1>3, <1>4

\* The place of a cell.
LEMMA CellIs ==
    ASSUME NEW p \in Row \X Col
    PROVE  /\ p[1] \in Nat /\ p[1] < Height /\ p[2] \in Nat /\ p[2] \in Col
           /\ p[1] + 1 \in Nat \ {0} /\ p[2] + 1 \in Nat \ {0} /\ (p[1] < Height - 1 => p[1] + 1 \in Row)
<1> DEFINE k == p[1]
           m == p[2]
<1>1. k \in Row /\ m \in Col
    OBVIOUS
<1> HIDE DEF k, m
<1>2. /\ k \in Nat /\ k < Height /\ m \in Nat
      /\ k + 1 \in Nat \ {0} /\ m + 1 \in Nat \ {0} /\ (k < Height - 1 => k + 1 \in Row)
    BY <1>1, ConsoleAssumption DEF Row, Col
<1> QED
    BY <1>1, <1>2 DEF k, m

\* What the steps of the screen do to its record.
Shown(s) == s = [cell |-> s.cell, x |-> s.x, y |-> s.y]

LEMMA RecordIs ==
    ASSUME NEW c, NEW x, NEW y
    PROVE  LET s == [cell |-> c, x |-> x, y |-> y] IN Shown(s) /\ s.cell = c /\ s.x = x /\ s.y = y
    BY DEF Shown

LEMMA ScreenWith ==
    ASSUME NEW s, Shown(s), NEW z, NEW w
    PROVE  /\ [s EXCEPT !.cell = z] = [cell |-> z, x |-> s.x, y |-> s.y]
           /\ [s EXCEPT !.y = w] = [cell |-> s.cell, x |-> s.x, y |-> w]
           /\ [s EXCEPT !.cell = z, !.x = w] = [cell |-> z, x |-> w, y |-> s.y]
           /\ [s EXCEPT !.x = z, !.y = w] = [cell |-> s.cell, x |-> z, y |-> w]
<1> DEFINE c == s.cell
           x == s.x
           y == s.y
<1>1. s = [cell |-> c, x |-> x, y |-> y]
    BY DEF Shown
<1> SUFFICES /\ [s EXCEPT !.cell = z] = [cell |-> z, x |-> x, y |-> y]
             /\ [s EXCEPT !.y = w] = [cell |-> c, x |-> x, y |-> w]
             /\ [s EXCEPT !.cell = z, !.x = w] = [cell |-> z, x |-> w, y |-> y]
             /\ [s EXCEPT !.x = z, !.y = w] = [cell |-> c, x |-> z, y |-> w]
    OBVIOUS
<1> HIDE DEF c, x, y
<1>2. ASSUME NEW t, t = [s EXCEPT !.cell = z] PROVE t = [cell |-> z, x |-> x, y |-> y]
    BY <1>1, <1>2
<1>3. ASSUME NEW t, t = [s EXCEPT !.y = w] PROVE t = [cell |-> c, x |-> x, y |-> w]
    BY <1>1, <1>3
<1>4. ASSUME NEW t, t = [s EXCEPT !.cell = z, !.x = w] PROVE t = [cell |-> z, x |-> w, y |-> y]
    BY <1>1, <1>4
<1>5. ASSUME NEW t, t = [s EXCEPT !.x = z, !.y = w] PROVE t = [cell |-> c, x |-> z, y |-> w]
    BY <1>1, <1>5
<1> QED
    BY <1>2, <1>3, <1>4, <1>5, Zenon

LEMMA ScrolledIs ==
    ASSUME NEW s, Shown(s)
    PROVE  Scroll(s) = [cell |-> [p \in Row \X Col |-> IF p[1] < Height - 1 THEN s.cell[<<p[1] + 1, p[2]>>] ELSE Blank],
                        x |-> s.x, y |-> s.y]
<1> DEFINE z == [p \in Row \X Col |-> IF p[1] < Height - 1 THEN s.cell[<<p[1] + 1, p[2]>>] ELSE Blank]
<1>1. Scroll(s) = [s EXCEPT !.cell = z]
    BY Zenon DEF Scroll
<1> HIDE DEF z
<1>2. [s EXCEPT !.cell = z] = [cell |-> z, x |-> s.x, y |-> s.y]
    BY ScreenWith, Zenon
<1> QED
    BY <1>1, <1>2, Zenon DEF z

NextLine(s) == [s EXCEPT !.x = 0, !.y = @ + 1]
CharAt(s, p, d) == [s EXCEPT !.cell[p] = d, !.x = @ + 1]
BlankAt(s, p) == [s EXCEPT !.cell[p] = Blank, !.x = @ - 1]

LEMMA NextLineIs ==
    ASSUME NEW s, Shown(s)
    PROVE  NextLine(s) = [cell |-> s.cell, x |-> 0, y |-> s.y + 1]
<1> DEFINE t == NextLine(s)
           w == s.y + 1
           o == 0
<1>1. t = [s EXCEPT !.x = o, !.y = w]
    BY Zenon DEF NextLine
<1> HIDE DEF t, w, o
<1>2. t = [cell |-> s.cell, x |-> o, y |-> w]
    BY <1>1, ScreenWith
<1> QED
    BY <1>2 DEF t, w, o

LEMMA CharAtIs ==
    ASSUME NEW s, Shown(s), NEW p, NEW d
    PROVE  CharAt(s, p, d) = [cell |-> [s.cell EXCEPT ![p] = d], x |-> s.x + 1, y |-> s.y]
<1> DEFINE t == CharAt(s, p, d)
           w == s.x + 1
           z == [s.cell EXCEPT ![p] = d]
<1>1. t = [s EXCEPT !.cell = z, !.x = w]
    BY Zenon DEF CharAt
<1> HIDE DEF t, w, z
<1>2. t = [cell |-> z, x |-> w, y |-> s.y]
    BY <1>1, ScreenWith
<1> QED
    BY <1>2 DEF t, w, z

LEMMA BlankAtIs ==
    ASSUME NEW s, Shown(s), NEW p
    PROVE  BlankAt(s, p) = [cell |-> [s.cell EXCEPT ![p] = Blank], x |-> s.x - 1, y |-> s.y]
<1> DEFINE t == BlankAt(s, p)
           w == s.x - 1
           z == [s.cell EXCEPT ![p] = Blank]
<1>1. t = [s EXCEPT !.cell = z, !.x = w]
    BY Zenon DEF BlankAt
<1> HIDE DEF t, w, z
<1>2. t = [cell |-> z, x |-> w, y |-> s.y]
    BY <1>1, ScreenWith
<1> QED
    BY <1>2 DEF t, w, z

\* The screen with a new empty line: one more line is above it if the screen is full.
LEMMA LineAgrees ==
    ASSUME NEW q \in Sheets, NEW s, s = EndOf(q), NEW l \in Seq(Glyph), Len(l) = 0
    PROVE  /\ AddLine(q, l) \in Sheets
           /\ EndOf(AddLine(q, l)) = KeepAbove([cell |-> s.cell, x |-> 0, y |-> s.y + 1])
<1> DEFINE r == AddLine(q, l)
<1>1. /\ s.cell = [p \in Row \X Col |-> Spot(q, Above(q) + p[1] + 1, p[2] + 1)]
      /\ s.y = Len(q) - Above(q) - 1 /\ s.y \in 0..Height - 2
      /\ Above(q) \in Nat /\ Len(q) \in Nat \ {0} /\ Width > 1 /\ Width \in Nat /\ Height > 1 /\ Height \in Nat
    BY EndFacts
<1>2. Len(l) < Width
    BY <1>1
<1>3. /\ r \in Sheets /\ Len(r) = Len(q) + 1 /\ Len(r[Len(r)]) = 0
      /\ Above(r) = IF Len(q) - Above(q) = Height - 1 THEN Above(q) + 1 ELSE Above(q)
    BY <1>2, LineSheet
<1>4. \A i \in Nat \ {0}, j \in Nat \ {0} : Spot(r, i, j) = Spot(q, i, j)
    BY EmptyLine
<1> HIDE DEF r
<1>5. \A p \in Row \X Col : /\ p[1] \in Nat /\ p[2] \in Nat /\ p[1] < Height /\ Above(q) + p[1] + 1 \in Nat \ {0}
                            /\ Above(q) + p[1] + 2 \in Nat \ {0} /\ p[2] + 1 \in Nat \ {0}
    <2> SUFFICES ASSUME NEW p \in Row \X Col
                 PROVE  /\ p[1] \in Nat /\ p[2] \in Nat /\ p[1] < Height /\ Above(q) + p[1] + 1 \in Nat \ {0}
                        /\ Above(q) + p[1] + 2 \in Nat \ {0} /\ p[2] + 1 \in Nat \ {0}
        OBVIOUS
    <2> DEFINE k == p[1]
               a == Above(q)
    <2>1. k \in Nat /\ a \in Nat /\ k < Height /\ p[2] \in Nat /\ p[2] + 1 \in Nat \ {0}
        BY <1>1, CellIs
    <2> HIDE DEF k, a
    <2>2. a + k + 1 \in Nat \ {0} /\ a + k + 2 \in Nat \ {0}
        BY <2>1
    <2> QED
        BY <2>1, <2>2 DEF k, a
<1> DEFINE new == [cell |-> s.cell, x |-> 0, y |-> s.y + 1]
<1>6. CASE s.y # Height - 2
    <2>1. KeepAbove(new) = new
        <3>1. s.y + 1 # Height - 1
            BY <1>1, <1>6
        <3> QED
            BY <3>1 DEF KeepAbove
    <2>2. Above(r) = Above(q) /\ s.y + 1 = Len(r) - Above(r) - 1
        BY <1>1, <1>3, <1>6
    <2>3. s.cell = [p \in Row \X Col |-> Spot(r, Above(r) + p[1] + 1, p[2] + 1)]
        <3>1. \A p \in Row \X Col : Spot(r, Above(r) + p[1] + 1, p[2] + 1) = Spot(q, Above(q) + p[1] + 1, p[2] + 1)
            BY <1>4, <1>5, <2>2
        <3> QED
            BY <1>1, <3>1
    <2>4. EndOf(r) = new
        BY <1>2, <1>3, <2>2, <2>3, EndIs, Zenon
    <2> QED
        BY <1>3, <2>1, <2>4 DEF r
<1>7. CASE s.y = Height - 2
    <2> DEFINE cell == [p \in Row \X Col |-> IF p[1] < Height - 1 THEN s.cell[<<p[1] + 1, p[2]>>] ELSE Blank]
    <2>1. KeepAbove(new) = [cell |-> cell, x |-> 0, y |-> Height - 2]
        <3>1. s.y + 1 = Height - 1
            BY <1>1, <1>7
        <3> DEFINE low == [cell |-> s.cell, x |-> 0, y |-> Height - 2]
        <3>2. Shown(new) /\ new.cell = s.cell /\ new.x = 0 /\ new.y = s.y + 1
            BY RecordIs, Zenon
        <3>3. Shown(low) /\ low.cell = s.cell /\ low.x = 0 /\ low.y = Height - 2
            BY RecordIs, Zenon
        <3> HIDE DEF new, low, cell
        <3>4. [new EXCEPT !.y = Height - 2] = [cell |-> new.cell, x |-> new.x, y |-> Height - 2]
            BY <3>2, ScreenWith, Zenon
        <3>5. KeepAbove(new) = Scroll(low)
            BY <3>1, <3>2, <3>4, Zenon DEF KeepAbove, low
        <3>6. Scroll(low) = [cell |-> [p \in Row \X Col |-> IF p[1] < Height - 1 THEN low.cell[<<p[1] + 1, p[2]>>]
                                                            ELSE Blank], x |-> low.x, y |-> low.y]
            BY <3>3, ScrolledIs, Zenon
        <3> QED
            BY <3>3, <3>5, <3>6, Zenon DEF cell
    <2>2. Above(r) = Above(q) + 1 /\ Height - 2 = Len(r) - Above(r) - 1
        BY <1>1, <1>3, <1>7
    <2>3. ASSUME NEW p \in Row \X Col PROVE cell[p] = Spot(r, Above(r) + p[1] + 1, p[2] + 1)
        <3>1. Above(r) + p[1] + 1 = Above(q) + p[1] + 2
            BY <1>1, <1>5, <2>2
        <3>2. CASE p[1] < Height - 1
            <4> DEFINE up == <<p[1] + 1, p[2]>>
            <4>1. up \in Row \X Col /\ up[1] = p[1] + 1 /\ up[2] = p[2]
                <5>1. p[1] + 1 \in Row
                    BY <3>2, CellIs
                <5>2. p[2] \in Col
                    BY CellIs
                <5> QED
                    BY <5>1, <5>2
            <4>2. cell[p] = s.cell[up]
                BY <3>2
            <4> HIDE DEF cell, up
            <4>3. Above(q) + up[1] + 1 = Above(q) + p[1] + 2
                <5> DEFINE k == p[1]
                           i == Above(q)
                <5>1. k \in Nat /\ i \in Nat /\ up[1] = k + 1
                    BY <1>1, <1>5, <4>1
                <5> HIDE DEF k, i
                <5>2. i + up[1] + 1 = i + k + 2
                    BY <5>1
                <5> QED
                    BY <5>2 DEF k, i
            <4>4. s.cell[up] = Spot(q, Above(q) + up[1] + 1, up[2] + 1)
                BY <1>1, <4>1
            <4>5. s.cell[up] = Spot(q, Above(q) + p[1] + 2, p[2] + 1)
                BY <4>1, <4>3, <4>4
            <4> QED
                BY <1>4, <1>5, <3>1, <4>2, <4>5
        <3>3. CASE ~(p[1] < Height - 1)
            <4>1. cell[p] = Blank
                BY <3>3
            <4>2. ~(Above(r) + p[1] + 1 <= Len(r))
                <5> DEFINE k == p[1]
                           i == Above(q)
                <5>1. k \in Nat /\ i \in Nat /\ ~(k < Height - 1)
                    BY <1>1, <1>5, <3>3
                <5>2. Above(r) = i + 1 /\ Height - 2 = Len(r) - Above(r) - 1 /\ Len(r) \in Nat
                    BY <1>1, <1>3, <2>2
                <5> HIDE DEF k, i
                <5>3. ~(Above(r) + k + 1 <= Len(r))
                    BY <1>1, <5>1, <5>2
                <5> QED
                    BY <5>3 DEF k
            <4> QED
                BY <4>1, <4>2 DEF Spot
        <3> QED
            BY <3>2, <3>3
    <2>4. cell = [p \in Row \X Col |-> Spot(r, Above(r) + p[1] + 1, p[2] + 1)]
        BY <2>3
    <2> HIDE DEF cell
    <2>5. EndOf(r) = [cell |-> cell, x |-> 0, y |-> Height - 2]
        BY <1>2, <1>3, <2>2, <2>4, EndIs, Zenon
    <2> QED
        BY <1>3, <2>1, <2>5 DEF r
<1> QED
    BY <1>6, <1>7 DEF r

\* The screen with another last line.
LastRow(s, l) == [p \in Row \X Col |-> IF p[1] = s.y THEN (IF p[2] + 1 <= Len(l) THEN l[p[2] + 1] ELSE Blank)
                                         ELSE s.cell[p]]

LEMMA SetAgrees ==
    ASSUME NEW q \in Sheets, NEW s, s = EndOf(q), NEW l \in Seq(Glyph), Len(l) < Width
    PROVE  /\ SetLine(q, l) \in Sheets
           /\ EndOf(SetLine(q, l)) = [cell |-> LastRow(s, l), x |-> Len(l), y |-> s.y]
           /\ \A p \in Row \X Col : p[1] = s.y =>
                s.cell[p] = IF p[2] + 1 <= Len(q[Len(q)]) THEN q[Len(q)][p[2] + 1] ELSE Blank
<1> DEFINE r == SetLine(q, l)
           n == Len(q)
           a == Above(q)
<1>1. /\ s.cell = [p \in Row \X Col |-> Spot(q, a + p[1] + 1, p[2] + 1)]
      /\ s.y = n - a - 1 /\ s.y \in 0..Height - 2
      /\ a \in Nat /\ n \in Nat \ {0} /\ Width > 1 /\ Width \in Nat /\ Height > 1 /\ Height \in Nat
    BY EndFacts
<1>2. r \in Sheets /\ Len(r) = n /\ r[Len(r)] = l /\ Above(r) = a
    BY LastSheet
<1> HIDE DEF a, n
<1>3. ASSUME NEW p \in Row \X Col
      PROVE  /\ Spot(r, a + p[1] + 1, p[2] + 1) = IF p[1] = s.y THEN (IF p[2] + 1 <= Len(l) THEN l[p[2] + 1] ELSE Blank)
                                                  ELSE s.cell[p]
             /\ p[1] = s.y => s.cell[p] = IF p[2] + 1 <= Len(q[n]) THEN q[n][p[2] + 1] ELSE Blank
    <2> DEFINE i == a + p[1] + 1
               j == p[2] + 1
               k == p[1]
               w == s.y
    <2>1. k \in Nat /\ j \in Nat \ {0}
        BY CellIs
    <2>2. s.cell[p] = Spot(q, i, j)
        BY <1>1
    <2>3. i = a + k + 1 /\ w = n - a - 1
        BY <1>1
    <2> HIDE DEF i, j, k, w
    <2>4. i \in Nat \ {0} /\ (k = w <=> i = n)
        BY <1>1, <2>1, <2>3
    <2>5. CASE i = n
        <3>1. Spot(SetLine(q, l), i, j) = IF j <= Len(l) THEN l[j] ELSE Blank
            BY <2>1, <2>4, <2>5, LastSpot DEF n
        <3>2. Spot(q, n, j) = IF j <= Len(q[n]) THEN q[n][j] ELSE Blank
            BY <1>1 DEF Spot, n
        <3>3. k = w
            BY <2>4, <2>5
        <3> QED
            BY <2>2, <2>5, <3>1, <3>2, <3>3, Zenon DEF k, w, i, j
    <2>6. CASE i # n
        <3>1. Spot(SetLine(q, l), i, j) = Spot(q, i, j)
            BY <2>1, <2>4, <2>6, LastSpot DEF n
        <3>2. k # w
            BY <2>4, <2>6
        <3> QED
            BY <2>2, <3>1, <3>2, Zenon DEF k, w, i, j
    <2> QED
        BY <2>5, <2>6
<1> HIDE DEF r
<1>4. EndOf(r) = [cell |-> [p \in Row \X Col |-> Spot(r, a + p[1] + 1, p[2] + 1)], x |-> Len(l), y |-> s.y]
    BY <1>1, <1>2, EndIs, Zenon
<1>5. [p \in Row \X Col |-> Spot(r, a + p[1] + 1, p[2] + 1)]
      = [p \in Row \X Col |-> IF p[1] = s.y THEN (IF p[2] + 1 <= Len(l) THEN l[p[2] + 1] ELSE Blank) ELSE s.cell[p]]
    BY <1>3, Zenon
<1>6. \A p \in Row \X Col : p[1] = s.y => s.cell[p] = IF p[2] + 1 <= Len(q[n]) THEN q[n][p[2] + 1] ELSE Blank
    BY <1>3, Zenon
<1> QED
    BY <1>2, <1>4, <1>5, <1>6, Zenon DEF r, n, LastRow

\* A character at the cursor.
LEMMA CharAgrees ==
    ASSUME NEW q \in Sheets, NEW s, s = EndOf(q), NEW d \in Glyph, Len(q[Len(q)]) # Width - 1
    PROVE  /\ SetLine(q, Append(q[Len(q)], d)) \in Sheets
           /\ EndOf(SetLine(q, Append(q[Len(q)], d))) = CharAt(s, <<s.y, s.x>>, d)
<1> DEFINE last == q[Len(q)]
           l == Append(last, d)
           m == Len(last)
           cell == LastRow(s, l)
           put == [s.cell EXCEPT ![<<s.y, s.x>>] = d]
<1>1. /\ s = [cell |-> s.cell, x |-> s.x, y |-> s.y]
      /\ s.cell = [p \in Row \X Col |-> Spot(q, Above(q) + p[1] + 1, p[2] + 1)]
      /\ s.x = m /\ s.x \in 0..Width - 1 /\ s.y \in 0..Height - 2
      /\ Width > 1 /\ Width \in Nat /\ Height > 1 /\ Height \in Nat
    BY EndFacts
<1>2. last \in Seq(Glyph) /\ m \in Nat /\ m < Width /\ m # Width - 1
    BY SheetIs
<1> HIDE DEF last
<1>3. /\ l \in Seq(Glyph) /\ Len(l) = m + 1 /\ l[m + 1] = d /\ \A i \in 1..m : l[i] = last[i]
      /\ Len(l) < Width
    BY <1>1, <1>2
<1> HIDE DEF l
<1>4. /\ SetLine(q, l) \in Sheets /\ EndOf(SetLine(q, l)) = [cell |-> cell, x |-> Len(l), y |-> s.y]
      /\ \A p \in Row \X Col : p[1] = s.y => s.cell[p] = IF p[2] + 1 <= m THEN last[p[2] + 1] ELSE Blank
    <2>1. SetLine(q, l) \in Sheets /\ EndOf(SetLine(q, l)) = [cell |-> cell, x |-> Len(l), y |-> s.y]
        BY <1>3, SetAgrees
    <2>2. \A p \in Row \X Col : p[1] = s.y =>
             s.cell[p] = IF p[2] + 1 <= Len(last) THEN last[p[2] + 1] ELSE Blank
        BY <1>3, SetAgrees, Zenon DEF last
    <2> QED
        BY <2>1, <2>2
<1>5. ASSUME NEW p \in Row \X Col PROVE cell[p] = put[p]
    <2> DEFINE c == p[2]
               w == s.y
    <2>1. c \in Nat /\ p = <<p[1], c>>
        BY <1>1 DEF Row, Col
    <2>2. put[p] = IF p = <<w, m>> THEN d ELSE s.cell[p]
        BY <1>1
    <2>3. cell[p] = IF p[1] = w THEN (IF c + 1 <= Len(l) THEN l[c + 1] ELSE Blank) ELSE s.cell[p]
        BY DEF LastRow
    <2>4. p[1] = w => s.cell[p] = IF c + 1 <= m THEN last[c + 1] ELSE Blank
        BY <1>4
    <2>5. p = <<w, m>> <=> p[1] = w /\ c = m
        BY <2>1
    <2> HIDE DEF c, w, m, cell, put
    <2>6. CASE p[1] # w
        BY <2>2, <2>3, <2>5, <2>6
    <2>7. CASE p[1] = w /\ c = m
        <3>1. c + 1 <= Len(l) /\ l[c + 1] = d
            BY <1>2, <1>3, <2>1, <2>7
        <3> QED
            BY <2>2, <2>3, <2>5, <2>7, <3>1
    <2>8. CASE p[1] = w /\ c + 1 <= m
        <3>1. c + 1 <= Len(l) /\ l[c + 1] = last[c + 1] /\ c # m
            BY <1>2, <1>3, <2>1, <2>8
        <3> QED
            BY <2>2, <2>3, <2>4, <2>5, <2>8, <3>1
    <2>9. CASE p[1] = w /\ c # m /\ ~(c + 1 <= m)
        <3>1. ~(c + 1 <= Len(l))
            BY <1>2, <1>3, <2>1, <2>9
        <3> QED
            BY <2>2, <2>3, <2>4, <2>5, <2>9, <3>1
    <2> QED
        BY <2>6, <2>7, <2>8, <2>9
<1>6. put = [p \in Row \X Col |-> put[p]]
    BY <1>1
<1>7. cell = put
    <2>1. cell = [p \in Row \X Col |-> cell[p]]
        BY DEF LastRow
    <2> HIDE DEF cell, put
    <2> QED
        BY <1>5, <1>6, <2>1, Zenon
<1> HIDE DEF cell
<1>8. CharAt(s, <<s.y, s.x>>, d) = [cell |-> put, x |-> s.x + 1, y |-> s.y]
    <2>1. Shown(s)
        BY <1>1, Zenon DEF Shown
    <2>2. \A p : CharAt(s, p, d) = [cell |-> [s.cell EXCEPT ![p] = d], x |-> s.x + 1, y |-> s.y]
        BY <2>1, CharAtIs, Zenon
    <2> QED
        BY <2>2, Zenon
<1> HIDE DEF put
<1> QED
    BY <1>1, <1>3, <1>4, <1>7, <1>8 DEF l, last

\* A character rubbed out.
LEMMA RubAgrees ==
    ASSUME NEW q \in Sheets, NEW s, s = EndOf(q), NEW l \in Seq(Glyph),
           Len(q[Len(q)]) > 0, Len(l) = Len(q[Len(q)]) - 1, \A i \in 1..Len(l) : l[i] = q[Len(q)][i]
    PROVE  SetLine(q, l) \in Sheets /\ EndOf(SetLine(q, l)) = BlankAt(s, <<s.y, s.x - 1>>)
<1> DEFINE last == q[Len(q)]
           m == Len(l)
           cell == LastRow(s, l)
           put == [s.cell EXCEPT ![<<s.y, s.x - 1>>] = Blank]
<1>1. /\ s = [cell |-> s.cell, x |-> s.x, y |-> s.y]
      /\ s.cell = [p \in Row \X Col |-> Spot(q, Above(q) + p[1] + 1, p[2] + 1)]
      /\ s.x = Len(last) /\ s.x \in 0..Width - 1 /\ s.y \in 0..Height - 2
      /\ Width > 1 /\ Width \in Nat /\ Height > 1 /\ Height \in Nat
    BY EndFacts
<1>2. last \in Seq(Glyph) /\ Len(last) \in Nat /\ Len(last) < Width
    BY SheetIs
<1>3. m \in Nat /\ m + 1 = Len(last) /\ m < Width /\ s.x - 1 = m /\ \A i \in 1..m : l[i] = last[i]
    BY <1>1, <1>2
<1>4. /\ SetLine(q, l) \in Sheets /\ EndOf(SetLine(q, l)) = [cell |-> cell, x |-> m, y |-> s.y]
      /\ \A p \in Row \X Col : p[1] = s.y => s.cell[p] = IF p[2] + 1 <= m + 1 THEN last[p[2] + 1] ELSE Blank
    <2>1. SetLine(q, l) \in Sheets /\ EndOf(SetLine(q, l)) = [cell |-> cell, x |-> m, y |-> s.y]
        BY <1>3, SetAgrees
    <2>2. \A p \in Row \X Col : p[1] = s.y =>
             s.cell[p] = IF p[2] + 1 <= Len(last) THEN last[p[2] + 1] ELSE Blank
        BY <1>3, SetAgrees, Zenon DEF last
    <2> QED
        BY <1>3, <2>1, <2>2, Zenon
<1> HIDE DEF last
<1>5. ASSUME NEW p \in Row \X Col PROVE cell[p] = put[p]
    <2> DEFINE c == p[2]
               w == s.y
    <2>1. c \in Nat /\ p = <<p[1], c>>
        BY <1>1 DEF Row, Col
    <2>2. put[p] = IF p = <<w, m>> THEN Blank ELSE s.cell[p]
        BY <1>1, <1>3
    <2>3. cell[p] = IF p[1] = w THEN (IF c + 1 <= m THEN l[c + 1] ELSE Blank) ELSE s.cell[p]
        BY DEF LastRow
    <2>4. p[1] = w => s.cell[p] = IF c + 1 <= m + 1 THEN last[c + 1] ELSE Blank
        BY <1>4
    <2>5. p = <<w, m>> <=> p[1] = w /\ c = m
        BY <2>1
    <2> HIDE DEF c, w, cell, put, m
    <2>6. CASE p[1] # w
        BY <2>2, <2>3, <2>5, <2>6
    <2>7. CASE p[1] = w /\ c = m
        <3>1. ~(c + 1 <= m)
            BY <1>3, <2>1, <2>7
        <3> QED
            BY <2>2, <2>3, <2>5, <2>7, <3>1
    <2>8. CASE p[1] = w /\ c + 1 <= m
        <3>1. c + 1 <= m + 1 /\ l[c + 1] = last[c + 1] /\ c # m
            BY <1>3, <2>1, <2>8
        <3> QED
            BY <2>2, <2>3, <2>4, <2>5, <2>8, <3>1
    <2>9. CASE p[1] = w /\ c # m /\ ~(c + 1 <= m)
        <3>1. ~(c + 1 <= m + 1)
            BY <1>3, <2>1, <2>9
        <3> QED
            BY <2>2, <2>3, <2>4, <2>5, <2>9, <3>1
    <2> QED
        BY <2>6, <2>7, <2>8, <2>9
<1>6. put = [p \in Row \X Col |-> put[p]]
    BY <1>1
<1>7. cell = put
    <2>1. cell = [p \in Row \X Col |-> cell[p]]
        BY DEF LastRow
    <2> HIDE DEF cell, put
    <2> QED
        BY <1>5, <1>6, <2>1, Zenon
<1> HIDE DEF cell
<1>8. BlankAt(s, <<s.y, s.x - 1>>) = [cell |-> put, x |-> s.x - 1, y |-> s.y]
    <2>1. Shown(s)
        BY <1>1, Zenon DEF Shown
    <2>2. \A p : BlankAt(s, p) = [cell |-> [s.cell EXCEPT ![p] = Blank], x |-> s.x - 1, y |-> s.y]
        BY <2>1, BlankAtIs, Zenon
    <2> QED
        BY <2>2, Zenon
<1> HIDE DEF put
<1> QED
    BY <1>3, <1>4, <1>7, <1>8

\* Show puts its character at the cursor, on a new line if the last one is full.
LEMMA ShowIs ==
    ASSUME NEW q \in Sheets, NEW s, s = EndOf(q), NEW d
    PROVE  /\ s.x # Width - 1 => Show(s, d) = CharAt(s, <<s.y, s.x>>, d)
           /\ s.x = Width - 1 => LET k == KeepAbove([cell |-> s.cell, x |-> 0, y |-> s.y + 1])
                                 IN  Show(s, d) = CharAt(k, <<k.y, k.x>>, d)
<1>1. Shown(s) /\ s.y \in 0..Height - 2 /\ Height \in Nat
    BY EndFacts DEF Shown
<1>2. s.y # Height - 1
    BY <1>1
<1>3. KeepAbove(s) = s
    BY <1>2, Zenon DEF KeepAbove
<1>4. Wrap(s) = IF s.x = Width - 1 THEN NextLine(s) ELSE s
    BY Zenon DEF Wrap, NextLine
<1>5. NextLine(s) = [cell |-> s.cell, x |-> 0, y |-> s.y + 1]
    BY <1>1, NextLineIs
<1>6. ASSUME NEW k, k = KeepAbove(Wrap(s)) PROVE Show(s, d) = CharAt(k, <<k.y, k.x>>, d)
    BY <1>6, Zenon DEF Show, CharAt
<1> QED
    BY <1>3, <1>4, <1>5, <1>6, Zenon

LEMMA FullLine ==
    ASSUME NEW q \in Sheets, NEW l, Len(q) \in Nat
    PROVE  \A e \in Seq(Glyph) : SetLine(AddLine(q, e), l) = AddLine(q, l)
<1> SUFFICES ASSUME NEW e \in Seq(Glyph) PROVE SetLine(AddLine(q, e), l) = AddLine(q, l)
    OBVIOUS
<1> DEFINE V == Seq(Glyph)
           r == Append(q, e)
<1>1. q \in Seq(V) /\ e \in V
    BY SheetIs
<1> HIDE DEF V
<1>2. r \in Seq(V) /\ Len(r) = Len(q) + 1 /\ \A i \in 1..Len(q) : r[i] = q[i]
    BY <1>1
<1> HIDE DEF r
<1>3. Len(r) - 1 = Len(q)
    BY <1>2
<1> DEFINE up == SubSeq(r, 1, Len(q))
<1>4. up \in Seq(V) /\ Len(up) = Len(q) /\ \A i \in 1..Len(q) : up[i] = r[i]
    BY <1>1, <1>2
<1> HIDE DEF up
<1>5. up = q
    BY <1>1, <1>2, <1>4
<1> QED
    BY <1>3, <1>5, Zenon DEF SetLine, AddLine, r, up

LEMMA LastAgain ==
    ASSUME NEW q \in Sheets
    PROVE  SetLine(q, q[Len(q)]) = q
<1> DEFINE r == SetLine(q, q[Len(q)])
<1>1. q \in Seq(Seq(Glyph)) /\ Len(q) \in Nat /\ q[Len(q)] \in Seq(Glyph) /\ Len(q[Len(q)]) < Width
    BY SheetIs
<1>2. /\ r \in Sheets /\ Len(r) = Len(q) /\ r[Len(r)] = q[Len(q)]
      /\ \A i \in 1..Len(q) - 1 : r[i] = q[i]
    BY <1>1, LastSheet
<1>3. r \in Seq(Seq(Glyph))
    BY <1>2, SheetIs
<1> HIDE DEF r
<1> DEFINE V == Seq(Glyph)
<1>4. r \in Seq(V) /\ q \in Seq(V)
    BY <1>1, <1>3
<1> HIDE DEF V
<1>5. \A i \in 1..Len(q) : r[i] = q[i]
    BY <1>1, <1>2
<1>6. r = q
    BY <1>2, <1>4, <1>5
<1> QED
    BY <1>6 DEF r

\* One character more at the end of the text is one character more on the screen.
LEMMA TypedShows ==
    ASSUME NEW q \in Sheets, NEW c
    PROVE  Typed(q, c) \in Sheets /\ EndOf(Typed(q, c)) = PutChar(EndOf(q), c)
<1> DEFINE s == EndOf(q)
           last == q[Len(q)]
           d == IF c \in Printable THEN c ELSE "?"
<1>1. /\ s.x = Len(last) /\ s.x \in 0..Width - 1 /\ Width \in Nat /\ Shown(s)
    BY EndFacts DEF Shown
<1>2. last \in Seq(Glyph) /\ Len(last) \in Nat /\ Len(last) < Width /\ Len(q) \in Nat
    BY SheetIs
<1>3. d \in Glyph
    BY Zenon DEF Glyph
<1>4. PICK e \in Seq(Glyph) : e = <<>> /\ Len(e) = 0
    <2>1. <<>> \in Seq(Glyph) /\ Len(<<>>) = 0
        OBVIOUS
    <2> QED
        BY <2>1, Zenon
<1> HIDE DEF s, last, d
<1>5. /\ c = NewLine => Typed(q, c) = AddLine(q, e)
      /\ c = BackSpace => Typed(q, c) = SetLine(q, IF last = e THEN last ELSE SubSeq(last, 1, Len(last) - 1))
      /\ c \notin {NewLine, BackSpace} /\ Len(last) = Width - 1 => Typed(q, c) = AddLine(q, <<d>>)
      /\ c \notin {NewLine, BackSpace} /\ Len(last) # Width - 1 => Typed(q, c) = SetLine(q, Append(last, d))
    BY <1>4, TypedIs, Zenon DEF last, d
<1>6. /\ c = NewLine => PutChar(s, c) = KeepAbove(NextLine(s))
      /\ c = BackSpace => PutChar(s, c) = IF s.x = 0 THEN s ELSE BlankAt(s, <<s.y, s.x - 1>>)
      /\ c \notin {NewLine, BackSpace} => PutChar(s, c) = Show(s, d)
    BY PutIs, Zenon DEF d, NextLine, BlankAt
<1>7. AddLine(q, e) \in Sheets /\ EndOf(AddLine(q, e)) = KeepAbove([cell |-> s.cell, x |-> 0, y |-> s.y + 1])
    BY <1>4, LineAgrees DEF s
<1>8. CASE c = NewLine
    <2>1. NextLine(s) = [cell |-> s.cell, x |-> 0, y |-> s.y + 1]
        BY <1>1, NextLineIs
    <2> QED
        BY <1>5, <1>6, <1>7, <1>8, <2>1, Zenon DEF s
<1>9. CASE c = BackSpace /\ last = e
    <2>1. Typed(q, c) = SetLine(q, last)
        BY <1>5, <1>9, Zenon
    <2>2. SetLine(q, last) = q
        BY LastAgain DEF last
    <2>3. s.x = 0
        BY <1>1, <1>4, <1>9
    <2>4. PutChar(s, c) = s
        BY <1>6, <1>9, <2>3
    <2> QED
        BY <2>1, <2>2, <2>4, Zenon DEF s
<1>10. CASE c = BackSpace /\ last # e
    <2> DEFINE m == Len(last) - 1
               l == SubSeq(last, 1, m)
    <2>1. Typed(q, c) = SetLine(q, l)
        BY <1>5, <1>10, Zenon
    <2>2. Len(last) > 0
        BY <1>2, <1>4, <1>10
    <2>3. l \in Seq(Glyph) /\ Len(l) = Len(last) - 1 /\ \A i \in 1..Len(l) : l[i] = last[i]
        <3>1. m \in Nat /\ m <= Len(last)
            BY <1>2, <2>2
        <3>2. Len(last) - 1 = m
            OBVIOUS
        <3> HIDE DEF m
        <3>3. l \in Seq(Glyph) /\ Len(l) = m /\ \A i \in 1..m : l[i] = last[i]
            BY <1>2, <3>1
        <3> HIDE DEF l
        <3> QED
            BY <3>2, <3>3
    <2> HIDE DEF l
    <2>4. SetLine(q, l) \in Sheets /\ EndOf(SetLine(q, l)) = BlankAt(s, <<s.y, s.x - 1>>)
        BY <2>2, <2>3, RubAgrees DEF s, last
    <2>5. s.x # 0
        BY <1>1, <1>2, <2>2
    <2>6. PutChar(s, c) = BlankAt(s, <<s.y, s.x - 1>>)
        BY <1>6, <1>10, <2>5, Zenon
    <2> QED
        BY <2>1, <2>4, <2>6, Zenon DEF s
<1>11. CASE c \notin {NewLine, BackSpace} /\ Len(last) # Width - 1
    <2>1. Typed(q, c) = SetLine(q, Append(last, d)) /\ PutChar(s, c) = Show(s, d)
        BY <1>5, <1>6, <1>11, Zenon
    <2>2. Show(s, d) = CharAt(s, <<s.y, s.x>>, d)
        BY <1>1, <1>11, ShowIs DEF s
    <2>3. SetLine(q, Append(last, d)) \in Sheets /\ EndOf(SetLine(q, Append(last, d))) = CharAt(s, <<s.y, s.x>>, d)
        BY <1>3, <1>11, CharAgrees DEF s, last
    <2> QED
        BY <2>1, <2>2, <2>3, Zenon DEF s
<1>12. CASE c \notin {NewLine, BackSpace} /\ Len(last) = Width - 1
    <2> DEFINE r == AddLine(q, e)
               k == EndOf(r)
    <2>1. Typed(q, c) = AddLine(q, <<d>>) /\ PutChar(s, c) = Show(s, d)
        BY <1>5, <1>6, <1>12, Zenon
    <2>2. r \in Sheets /\ k = KeepAbove([cell |-> s.cell, x |-> 0, y |-> s.y + 1])
        BY <1>7
    <2>3. r[Len(r)] = e
        <3>1. Len(e) < Width
            BY <1>1, <1>4, SheetIs
        <3> QED
            BY <3>1, LineSheet
    <2>4. Append(r[Len(r)], d) = <<d>>
        <3>1. Append(<<>>, d) = <<d>>
            OBVIOUS
        <3> QED
            BY <1>4, <2>3, <3>1, Zenon
    <2>5. SetLine(r, Append(r[Len(r)], d)) = AddLine(q, <<d>>)
        BY <1>2, <2>4, FullLine, Zenon
    <2>6. Show(s, d) = CharAt(k, <<k.y, k.x>>, d)
        <3>1. s.x = Width - 1
            BY <1>1, <1>12
        <3> HIDE DEF k
        <3> QED
            BY <2>2, <3>1, ShowIs, Zenon DEF s
    <2>7. Len(r[Len(r)]) # Width - 1
        <3>1. Width > 1
            BY SheetIs
        <3> QED
            BY <1>1, <1>4, <2>3, <3>1
    <2> HIDE DEF r
    <2>8. SetLine(r, Append(r[Len(r)], d)) \in Sheets /\ EndOf(SetLine(r, Append(r[Len(r)], d))) = CharAt(k, <<k.y, k.x>>, d)
        BY <1>3, <2>2, <2>7, CharAgrees
    <2> QED
        BY <2>1, <2>5, <2>6, <2>8, Zenon DEF s
<1> QED
    BY <1>8, <1>9, <1>10, <1>11, <1>12, Zenon

\* A text is a sequence, of whatever; what one character sent to a terminal does.
IsText(w) == \E X : w \in Seq(X)
Views == {EndOf(q) : q \in Sheets}
Paper(b, w) == FoldLeft(OnPaper, b, w)
View(b, w) == FoldLeft(OnScreen, b, w)
PaperRun(f, b, w) ==
    /\ \A i \in 0..Len(w) : f[i] \in Sheets
    /\ f[0] = b /\ \A k \in 1..Len(w) : f[k] = OnPaper(f[k - 1], w[k])
    /\ Paper(b, w) = f[Len(w)]
ViewRun(f, b, w) ==
    /\ \A i \in 0..Len(w) : f[i] \in Views
    /\ f[0] = b /\ \A k \in 1..Len(w) : f[k] = OnScreen(f[k - 1], w[k])
    /\ View(b, w) = f[Len(w)]

LEMMA PaperShows ==
    ASSUME NEW q \in Sheets, NEW x
    PROVE  OnPaper(q, x) \in Sheets /\ EndOf(OnPaper(q, x)) = OnScreen(EndOf(q), x)
<1>1. CASE x[1] = 4
    BY <1>1, TypedShows, Zenon DEF OnPaper, OnScreen
<1>2. CASE x[1] # 4
    BY <1>2, Zenon DEF OnPaper, OnScreen
<1> QED
    BY <1>1, <1>2

LEMMA ViewShows ==
    ASSUME NEW s \in Views, NEW x
    PROVE  OnScreen(s, x) \in Views
<1>1. PICK q \in Sheets : s = EndOf(q)
    BY Zenon DEF Views
<1> QED
    BY <1>1, PaperShows, Zenon DEF Views

\* The lines of a text, character by character.
LEMMA PaperSteps ==
    ASSUME NEW b \in Sheets, NEW w, IsText(w)
    PROVE  Len(w) \in Nat /\ \E f : PaperRun(f, b, w)
<1> DEFINE N == Len(w)
           S == Sheets
           F == [x \in (1..N) \X S |-> OnPaper(x[2], w[x[1]])]
           it == CHOOSE it : it = [z \in SUBSET DOMAIN w |-> IF z = {} THEN b ELSE OnPaper(it[z \ {Max(z)}], w[Max(z)])]
<1>1. N \in Nat /\ DOMAIN w = 1..N
    BY DEF IsText
<1>2. Paper(b, w) = it[DOMAIN w]
    BY DEF Paper, FoldLeft, MapThenFoldSet
<1>3. \A p \in S : \A x : OnPaper(p, x) \in S
    BY PaperShows
<1>4. b \in S
    OBVIOUS
<1> HIDE DEF N, S
<1>5. F \in [(1..N) \X S -> S] /\ \A k \in 1..N, v \in S : F[<<k, v>>] = OnPaper(v, w[k])
    BY <1>3
<1> HIDE DEF F
<1>6. FoldOver(S, N, b, F) # {}
    BY <1>1, <1>4, <1>5, FoldExists
<1>7. PICK g \in [SUBSET (1..N) -> S] :
        g = [z \in SUBSET (1..N) |-> IF z = {} THEN b ELSE F[<<Max(z), g[z \ {Max(z)}]>>]]
    BY <1>6 DEF FoldOver
<1>8. g = [z \in SUBSET (1..N) |-> IF z = {} THEN b ELSE OnPaper(g[z \ {Max(z)}], w[Max(z)])]
    <2>1. ASSUME NEW z \in SUBSET (1..N), z # {}
          PROVE  g[z] = OnPaper(g[z \ {Max(z)}], w[Max(z)])
        <3>1. Max(z) \in 1..N /\ z \ {Max(z)} \in SUBSET (1..N)
            BY <1>1, <2>1, GreatestIn
        <3>2. g[z] = F[<<Max(z), g[z \ {Max(z)}]>>] /\ g[z \ {Max(z)}] \in S
            BY <1>7, <2>1, <3>1
        <3> QED
            BY <1>5, <3>1, <3>2
    <2> QED
        BY <1>7, <2>1
<1>9. it = [z \in SUBSET (1..N) |-> IF z = {} THEN b ELSE OnPaper(it[z \ {Max(z)}], w[Max(z)])]
    BY <1>1, <1>8
<1> HIDE DEF it
<1> DEFINE f == [k \in 0..N |-> it[1..k]]
<1>10. f[0] = b /\ \A k \in 1..N : f[k] = OnPaper(f[k - 1], w[k])
    <2>1. it[1..0] = b
        BY <1>1, <1>9, PlacesUpTo
    <2>2. ASSUME NEW k \in 1..N PROVE it[1..k] = OnPaper(it[1..k - 1], w[k])
        <3>1. /\ 1..k \in SUBSET (1..N) /\ 1..k # {} /\ Max(1..k) = k /\ (1..k) \ {k} = 1..k - 1
            BY <1>1, PlacesUpTo
        <3>2. it[1..k] = OnPaper(it[(1..k) \ {Max(1..k)}], w[Max(1..k)])
            BY <1>9, <3>1
        <3> QED
            BY <3>1, <3>2
    <2>3. 0 \in 0..N /\ \A k \in 1..N : k \in 0..N /\ k - 1 \in 0..N
        BY <1>1
    <2> QED
        BY <2>1, <2>2, <2>3
<1>11. f[N] = it[DOMAIN w]
    BY <1>1
<1>12. ASSUME NEW k \in 0..N PROVE f[k] \in S
    <2>1. k \in Nat /\ f[0] \in S /\ \A n \in 1..k : n \in 1..N
        BY <1>1, <1>4, <1>10
    <2> HIDE DEF f
    <2>2. \A n \in 1..k : f[n - 1] \in S => f[n] \in S
        BY <1>3, <1>10, <2>1
    <2> QED
        BY <2>1, <2>2, StepsKeep
<1> HIDE DEF f
<1> QED
    BY <1>1, <1>2, <1>10, <1>11, <1>12 DEF N, S, PaperRun

\* The screen, character by character.
LEMMA ScreenSteps ==
    ASSUME NEW b \in Views, NEW w, IsText(w)
    PROVE  Len(w) \in Nat /\ \E f : ViewRun(f, b, w)
<1> DEFINE N == Len(w)
           S == Views
           F == [x \in (1..N) \X S |-> OnScreen(x[2], w[x[1]])]
           it == CHOOSE it : it = [z \in SUBSET DOMAIN w |-> IF z = {} THEN b ELSE OnScreen(it[z \ {Max(z)}], w[Max(z)])]
<1>1. N \in Nat /\ DOMAIN w = 1..N
    BY DEF IsText
<1>2. View(b, w) = it[DOMAIN w]
    BY DEF View, FoldLeft, MapThenFoldSet
<1>3. \A p \in S : \A x : OnScreen(p, x) \in S
    BY ViewShows
<1>4. b \in S
    OBVIOUS
<1> HIDE DEF N, S
<1>5. F \in [(1..N) \X S -> S] /\ \A k \in 1..N, v \in S : F[<<k, v>>] = OnScreen(v, w[k])
    BY <1>3
<1> HIDE DEF F
<1>6. FoldOver(S, N, b, F) # {}
    BY <1>1, <1>4, <1>5, FoldExists
<1>7. PICK g \in [SUBSET (1..N) -> S] :
        g = [z \in SUBSET (1..N) |-> IF z = {} THEN b ELSE F[<<Max(z), g[z \ {Max(z)}]>>]]
    BY <1>6 DEF FoldOver
<1>8. g = [z \in SUBSET (1..N) |-> IF z = {} THEN b ELSE OnScreen(g[z \ {Max(z)}], w[Max(z)])]
    <2>1. ASSUME NEW z \in SUBSET (1..N), z # {}
          PROVE  g[z] = OnScreen(g[z \ {Max(z)}], w[Max(z)])
        <3>1. Max(z) \in 1..N /\ z \ {Max(z)} \in SUBSET (1..N)
            BY <1>1, <2>1, GreatestIn
        <3>2. g[z] = F[<<Max(z), g[z \ {Max(z)}]>>] /\ g[z \ {Max(z)}] \in S
            BY <1>7, <2>1, <3>1
        <3> QED
            BY <1>5, <3>1, <3>2
    <2> QED
        BY <1>7, <2>1
<1>9. it = [z \in SUBSET (1..N) |-> IF z = {} THEN b ELSE OnScreen(it[z \ {Max(z)}], w[Max(z)])]
    BY <1>1, <1>8
<1> HIDE DEF it
<1> DEFINE f == [k \in 0..N |-> it[1..k]]
<1>10. f[0] = b /\ \A k \in 1..N : f[k] = OnScreen(f[k - 1], w[k])
    <2>1. it[1..0] = b
        BY <1>1, <1>9, PlacesUpTo
    <2>2. ASSUME NEW k \in 1..N PROVE it[1..k] = OnScreen(it[1..k - 1], w[k])
        <3>1. /\ 1..k \in SUBSET (1..N) /\ 1..k # {} /\ Max(1..k) = k /\ (1..k) \ {k} = 1..k - 1
            BY <1>1, PlacesUpTo
        <3>2. it[1..k] = OnScreen(it[(1..k) \ {Max(1..k)}], w[Max(1..k)])
            BY <1>9, <3>1
        <3> QED
            BY <3>1, <3>2
    <2>3. 0 \in 0..N /\ \A k \in 1..N : k \in 0..N /\ k - 1 \in 0..N
        BY <1>1
    <2> QED
        BY <2>1, <2>2, <2>3
<1>11. f[N] = it[DOMAIN w]
    BY <1>1
<1>12. ASSUME NEW k \in 0..N PROVE f[k] \in S
    <2>1. k \in Nat /\ f[0] \in S /\ \A n \in 1..k : n \in 1..N
        BY <1>1, <1>4, <1>10
    <2> HIDE DEF f
    <2>2. \A n \in 1..k : f[n - 1] \in S => f[n] \in S
        BY <1>3, <1>10, <2>1
    <2> QED
        BY <2>1, <2>2, StepsKeep
<1> HIDE DEF f
<1> QED
    BY <1>1, <1>2, <1>10, <1>11, <1>12 DEF N, S, ViewRun

\* The screen goes with the text, character by character.
LEMMA ScreenFollows ==
    ASSUME NEW q \in Sheets, NEW w, IsText(w)
    PROVE  /\ Paper(q, w) \in Sheets
           /\ View(EndOf(q), w) = EndOf(Paper(q, w))
<1> DEFINE N == Len(w)
           o == EndOf(q)
<1>1. o \in Views
    BY Zenon DEF Views
<1> HIDE DEF o
<1>2. PICK f : PaperRun(f, q, w)
    BY PaperSteps
<1>2a. /\ \A i \in 0..N : f[i] \in Sheets
       /\ f[0] = q /\ \A k \in 1..N : f[k] = OnPaper(f[k - 1], w[k])
       /\ Paper(q, w) = f[N]
    BY <1>2 DEF PaperRun
<1>3. N \in Nat
    BY PaperSteps
<1>4. PICK g : ViewRun(g, o, w)
    BY <1>1, ScreenSteps
<1>4a. /\ \A i \in 0..N : g[i] \in Views
       /\ g[0] = o /\ \A k \in 1..N : g[k] = OnScreen(g[k - 1], w[k])
       /\ View(o, w) = g[N]
    BY <1>4 DEF ViewRun
<1> HIDE DEF N
<1> DEFINE h == [k \in 0..N |-> IF g[k] = EndOf(f[k]) THEN 1 ELSE 0]
           One == {1}
<1>5. \A k \in 0..N : h[k] = 1 <=> g[k] = EndOf(f[k])
    OBVIOUS
<1>6. /\ 0 \in 0..N /\ N \in 0..N /\ f[N] \in Sheets
      /\ \A k \in 1..N : k \in 0..N /\ k - 1 \in 0..N /\ f[k - 1] \in Sheets
    BY <1>2a, <1>3
<1> HIDE DEF h
<1>7. h[0] = 1
    BY <1>2a, <1>4a, <1>5, <1>6 DEF o
<1>8. ASSUME NEW k \in 1..N, h[k - 1] = 1 PROVE h[k] = 1
    <2>1. g[k - 1] = EndOf(f[k - 1]) /\ f[k - 1] \in Sheets
        BY <1>5, <1>6, <1>8
    <2>2. f[k] = OnPaper(f[k - 1], w[k]) /\ g[k] = OnScreen(g[k - 1], w[k])
        BY <1>2a, <1>4a
    <2>3. g[k] = EndOf(f[k])
        BY <2>1, <2>2, PaperShows, Zenon
    <2> QED
        BY <1>5, <1>6, <2>3
<1>9. \A x : x \in One <=> x = 1
    OBVIOUS
<1> HIDE DEF One
<1>10. h[0] \in One /\ \A k \in 1..N : h[k - 1] \in One => h[k] \in One
    BY <1>7, <1>8, <1>9
<1>11. h[N] \in One
    BY <1>3, <1>10, StepsKeep
<1>12. g[N] = EndOf(f[N])
    BY <1>5, <1>6, <1>9, <1>11
<1> QED
    BY <1>2a, <1>4a, <1>6, <1>12, Zenon DEF o

\* Two runs of the same characters.
OnSame(f, g, w, n) == \A k \in 1..n : f[k] = OnPaper(f[k - 1], w[k]) /\ g[k] = OnPaper(g[k - 1], w[k])

\* The same characters on the same lines make the same lines.
LEMMA SamePaper ==
    ASSUME NEW n \in Nat, NEW f, NEW g, f[0] = g[0], NEW w, OnSame(f, g, w, n)
    PROVE  f[n] = g[n]
<1> DEFINE h == [k \in 0..n |-> IF f[k] = g[k] THEN 1 ELSE 0]
           One == {1}
<1>1. /\ h[0] = 1 /\ (h[n] = 1 <=> f[n] = g[n])
      /\ \A k \in 1..n : h[k - 1] = 1 => h[k] = 1
    <2>1. \A k \in 0..n : h[k] = 1 <=> f[k] = g[k]
        OBVIOUS
    <2>2. 0 \in 0..n /\ n \in 0..n /\ \A k \in 1..n : k - 1 \in 0..n /\ k \in 0..n
        OBVIOUS
    <2> HIDE DEF h
    <2> QED
        BY <2>1, <2>2 DEF OnSame
<1> HIDE DEF h
<1>2. \A x : x \in One <=> x = 1
    OBVIOUS
<1> HIDE DEF One
<1>3. h[0] \in One /\ \A k \in 1..n : h[k - 1] \in One => h[k] \in One
    BY <1>1, <1>2
<1>4. h[n] \in One
    BY <1>3, StepsKeep
<1> QED
    BY <1>1, <1>2, <1>4

\* One text after another is one text, and makes the same lines.
LEMMA PaperGoesOn ==
    ASSUME NEW q \in Sheets, NEW v, IsText(v), NEW w, IsText(w)
    PROVE  /\ IsText(v \o w)
           /\ Paper(q, v \o w) = Paper(Paper(q, v), w)
<1> DEFINE n == Len(v)
           m == Len(w)
           u == v \o w
<1>1. /\ u \in Seq({v[i] : i \in 1..n} \cup {w[i] : i \in 1..m})
      /\ n \in Nat /\ m \in Nat /\ Len(u) = n + m /\ \A i \in 1..n : u[i] = v[i]
      /\ \A i \in 1..m : u[n + i] = w[i]
    <2>1. PICK X : v \in Seq(X)
        BY DEF IsText
    <2>2. PICK Y : w \in Seq(Y)
        BY DEF IsText
    <2> DEFINE Z == {v[i] : i \in 1..n} \cup {w[i] : i \in 1..m}
    <2>3. v \in Seq(Z) /\ n \in Nat
        <3>1. n \in Nat /\ v = [i \in 1..n |-> v[i]] /\ \A i \in 1..n : v[i] \in Z
            BY <2>1
        <3> HIDE DEF Z
        <3> QED
            BY <2>1, <3>1
    <2>4. w \in Seq(Z) /\ m \in Nat
        <3>1. m \in Nat /\ w = [i \in 1..m |-> w[i]] /\ \A i \in 1..m : w[i] \in Z
            BY <2>2
        <3> HIDE DEF Z
        <3> QED
            BY <2>2, <3>1
    <2> HIDE DEF Z
    <2>5. u \in Seq(Z) /\ Len(u) = n + m
        BY <2>3, <2>4
    <2>6. ASSUME NEW i \in 1..n PROVE u[i] = v[i]
        BY <2>3, <2>4
    <2>7. ASSUME NEW i \in 1..m PROVE u[n + i] = w[i]
        BY <2>3, <2>4
    <2> QED
        BY <2>3, <2>4, <2>5, <2>6, <2>7 DEF Z
<1> HIDE DEF n, m, u
<1>2. IsText(u)
    BY <1>1, Zenon DEF IsText
<1>3. PICK g : PaperRun(g, q, v)
    BY PaperSteps DEF n
<1>3a. /\ \A i \in 0..n : g[i] \in Sheets
       /\ g[0] = q /\ \A k \in 1..n : g[k] = OnPaper(g[k - 1], v[k])
       /\ Paper(q, v) = g[n]
    BY <1>3 DEF PaperRun, n
<1>4. g[n] \in Sheets
    BY <1>1, <1>3a
<1> DEFINE b == Paper(q, v)
<1>5. b \in Sheets
    BY <1>3a, <1>4
<1> HIDE DEF b
<1>6. PICK h : PaperRun(h, b, w)
    BY <1>5, PaperSteps DEF m
<1>6a. /\ \A i \in 0..m : h[i] \in Sheets
       /\ h[0] = b /\ \A k \in 1..m : h[k] = OnPaper(h[k - 1], w[k])
       /\ Paper(b, w) = h[m]
    BY <1>6 DEF PaperRun, m
<1>7. PICK f : PaperRun(f, q, u)
    BY <1>2, PaperSteps
<1>7a. /\ \A i \in 0..Len(u) : f[i] \in Sheets
       /\ f[0] = q /\ \A k \in 1..Len(u) : f[k] = OnPaper(f[k - 1], u[k])
       /\ Paper(q, u) = f[Len(u)]
    BY <1>7 DEF PaperRun
<1> DEFINE f1 == [k \in 0..n |-> f[k]]
           f2 == [k \in 0..m |-> f[n + k]]
<1>8. f1[n] = g[n]
    <2>1. f1[0] = g[0] /\ n \in Nat
        BY <1>1, <1>3a, <1>7a
    <2>2. ASSUME NEW k \in 1..n PROVE f1[k] = OnPaper(f1[k - 1], v[k])
        <3>1. k \in 1..Len(u) /\ k \in 0..n /\ k - 1 \in 0..n /\ u[k] = v[k]
            BY <1>1
        <3>2. f1[k] = f[k] /\ f1[k - 1] = f[k - 1]
            BY <3>1
        <3> HIDE DEF f1
        <3> QED
            BY <1>7a, <3>1, <3>2, Zenon
    <2>3. OnSame(f1, g, v, n)
        BY <1>3a, <2>2, Zenon DEF OnSame
    <2> HIDE DEF f1
    <2> QED
        BY <2>1, <2>3, SamePaper
<1>9. f1[n] = f[n] /\ f2[0] = f[n] /\ f2[m] = f[Len(u)]
    <2>1. n \in 0..n /\ 0 \in 0..m /\ m \in 0..m /\ n + 0 = n /\ n + m = Len(u)
        BY <1>1
    <2>2. f1[n] = f[n] /\ f2[0] = f[n + 0] /\ f2[m] = f[n + m]
        BY <2>1
    <2> HIDE DEF f1, f2
    <2> QED
        BY <2>1, <2>2, Zenon
<1>10. f2[m] = h[m]
    <2>2. f2[0] = h[0]
        BY <1>3a, <1>6a, <1>8, <1>9, Zenon DEF b
    <2>1. m \in Nat
        BY <1>1
    <2>3. ASSUME NEW k \in 1..m PROVE f2[k] = OnPaper(f2[k - 1], w[k])
        <3> DEFINE i == n + k
        <3>1. i \in 1..Len(u) /\ k \in 0..m /\ k - 1 \in 0..m /\ u[i] = w[k] /\ i - 1 = n + (k - 1)
            BY <1>1
        <3>2. f2[k] = f[i] /\ f2[k - 1] = f[n + (k - 1)]
            BY <3>1
        <3> HIDE DEF i, f2
        <3>3. f[i] = OnPaper(f[i - 1], u[i])
            BY <1>7a, <3>1
        <3> QED
            BY <3>1, <3>2, <3>3, Zenon
    <2>4. OnSame(f2, h, w, m)
        BY <1>6a, <2>3, Zenon DEF OnSame
    <2> HIDE DEF f2
    <2> QED
        BY <2>1, <2>2, <2>4, SamePaper
<1> HIDE DEF f1, f2
<1>11. Paper(q, u) = Paper(b, w)
    BY <1>6a, <1>7a, <1>9, <1>10, Zenon
<1> QED
    BY <1>2, <1>11, Zenon DEF u, b

\* An empty page, and what has been written since.
Page == <<<<>>>>
Pictured ==
    /\ machine \in Machine /\ IsText(serial)
    /\ Paper(Page, serial) \in Sheets /\ screen = EndOf(Paper(Page, serial))

LEMMA PageIs == Page \in Sheets /\ EndOf(Page) = EmptyScreen
<1>1. /\ Len(Page) = 1 /\ Page[1] = <<>> /\ Page \in Seq(Seq(Glyph))
      /\ Len(Page[1]) = 0
    BY DEF Page
<1>2. Width \in Nat /\ Width > 1 /\ Height \in Nat /\ Height > 1
    BY ConsoleAssumption
<1>3. Page \in Sheets
    <2>1. \A i \in 1..Len(Page) : Len(Page[i]) < Width
        <3>1. \A i \in 1..Len(Page) : i = 1
            BY <1>1
        <3>2. \A i \in 1..Len(Page) : Len(Page[i]) = 0
            BY <1>1, <3>1, Zenon
        <3> QED
            BY <1>2, <3>2
    <2>2. Len(Page) > 0
        BY <1>1
    <2> QED
        BY <1>1, <2>1, <2>2, Zenon DEF Sheets
<1>4. Above(Page) = 0
    BY <1>1, <1>2 DEF Above
<1>5. ASSUME NEW p \in Row \X Col PROVE Spot(Page, Above(Page) + p[1] + 1, p[2] + 1) = Blank
    <2> DEFINE i == Above(Page) + p[1] + 1
               j == p[2] + 1
    <2>1. i \in Nat \ {0} /\ j \in Nat \ {0}
        BY <1>2, <1>4 DEF Row, Col
    <2> HIDE DEF i, j
    <2>2. ~(i <= Len(Page) /\ j <= Len(Page[i]))
        <3>1. CASE i = 1
            BY <1>1, <2>1, <3>1
        <3>2. CASE i # 1
            BY <1>1, <2>1, <3>2
        <3> QED
            BY <3>1, <3>2
    <2>3. Spot(Page, i, j) = Blank
        BY <2>2, Zenon DEF Spot
    <2> QED
        BY <2>3 DEF i, j
<1> DEFINE cell == [p \in Row \X Col |-> Spot(Page, Above(Page) + p[1] + 1, p[2] + 1)]
           blanks == [p \in Row \X Col |-> Blank]
<1>6. cell = blanks
    BY <1>5, Zenon
<1>7. EndOf(Page) = [cell |-> cell, x |-> Len(Page[Len(Page)]), y |-> Len(Page) - Above(Page) - 1]
    BY <1>3, EndIs
<1>8. EmptyScreen = [cell |-> blanks, x |-> 0, y |-> 0]
    BY DEF EmptyScreen
<1>9. Len(Page[Len(Page)]) = 0 /\ Len(Page) - Above(Page) - 1 = 0
    BY <1>1, <1>4
<1> HIDE DEF cell, blanks
<1> QED
    BY <1>3, <1>6, <1>7, <1>8, <1>9

\* Nothing is written yet.
LEMMA NothingWritten ==
    ASSUME NEW w, w = <<>>
    PROVE  IsText(w) /\ Paper(Page, w) = Page
<1>1. w \in Seq({}) /\ Len(w) = 0
    OBVIOUS
<1>2. IsText(w)
    BY <1>1 DEF IsText
<1>3. PICK f : PaperRun(f, Page, w)
    BY <1>2, PageIs, PaperSteps
<1> QED
    BY <1>1, <1>2, <1>3 DEF PaperRun

\* tty_write
LEMMA TtyWritePictured ==
    ASSUME Pictured, NEW node, NEW text, TtyWrite(node, text)
    PROVE  Pictured'
<1> DEFINE sent == [i \in 1..Len(text) |-> <<node, text[i]>>]
           q == Paper(Page, serial)
<1>1. Len(text) \in Nat
    <2>1. Len(serial) \in Nat
        BY DEF Pictured, IsText
    <2>2. machine.printed \in Nat
        BY MachineAssumption DEF Pictured
    <2> QED
        BY <2>1, <2>2 DEF TtyWrite
<1>2. IsText(sent)
    <2>1. sent \in Seq({<<node, text[i]>> : i \in 1..Len(text)})
        BY <1>1
    <2> HIDE DEF sent
    <2> QED
        BY <2>1 DEF IsText
<1>3. machine' = machine /\ serial' = serial \o sent /\ screen' = View(screen, sent)
    BY Zenon DEF TtyWrite, View
<1>4. machine \in Machine /\ IsText(serial) /\ q \in Sheets /\ screen = EndOf(q)
    BY DEF Pictured
<1> HIDE DEF sent
<1>5. IsText(serial \o sent) /\ Paper(Page, serial \o sent) = Paper(q, sent)
    BY <1>2, <1>4, PageIs, PaperGoesOn
<1> HIDE DEF q
<1>6. Paper(q, sent) \in Sheets /\ View(EndOf(q), sent) = EndOf(Paper(q, sent))
    BY <1>2, <1>4, ScreenFollows
<1>7. machine' \in Machine /\ IsText(serial')
    BY <1>3, <1>4, <1>5, Zenon
<1>8. Paper(Page, serial') \in Sheets /\ screen' = EndOf(Paper(Page, serial'))
    BY <1>3, <1>4, <1>5, <1>6, Zenon
<1>9. Page' = Page
    BY DEF Page
<1> QED
    BY <1>7, <1>8, <1>9, Zenon DEF Pictured

\* What a step does to the terminals: it stops the kernel, it is one write, or it leaves
\* them as they are.
Quietly == UNCHANGED <<machine, screen, serial, stopped>> /\ (stopped = "" \/ alive' = alive)
Writes  == (\E why : Stop(why)) \/ (\E node, text : TtyWrite(node, text)) \/ Quietly

LEMMA WriteWrites ==
    ASSUME NEW t, NEW fd, NEW text, Write(t, fd, text)
    PROVE  Writes
BY Zenon DEF Write, VfsWrite, Writes

\* The other system calls write nothing.
LEMMA OthersWrite ==
    ASSUME \/ \E t, path, rd, wr, dir : Open(t, path, rd, wr, dir)
           \/ \E t, fd : Close(t, fd) \/ ReadDir(t, fd)
           \/ \E t, fd, len : Read(t, fd, len)
           \/ \E t, c : Fork(t, c)
           \/ \E t, c, path : Fexecve(t, c, path)
           \/ \E t : Exit(t)
           \/ UNCHANGED filesVars
    PROVE  Writes
<1>1. CASE UNCHANGED filesVars
    BY <1>1 DEF filesVars, Writes, Quietly
<1>2. CASE \E t, path, rd, wr, dir : Open(t, path, rd, wr, dir)
    BY <1>2, Zenon DEF Open, OnlyFiles, Runs, Writes, Quietly
<1>3. CASE \E t, fd : Close(t, fd) \/ ReadDir(t, fd)
    BY <1>3, Zenon DEF Close, ReadDir, OnlyFiles, Runs, Writes, Quietly
<1>4. CASE \E t, fd, len : Read(t, fd, len)
    BY <1>4, Zenon DEF Read, OnlyFiles, Runs, Writes, Quietly
<1>5. CASE \E t, c : Fork(t, c) \/ \E path : Fexecve(t, c, path)
    BY <1>5, Zenon DEF Fork, Fexecve, Runs, Writes, Quietly
<1>6. CASE \E t : Exit(t)
    BY <1>6, Zenon DEF Exit, Runs, Writes, Quietly
<1> QED
    BY <1>1, <1>2, <1>3, <1>4, <1>5, <1>6, Zenon

LEMMA FilesWrite ==
    ASSUME FilesNext
    PROVE  Writes
BY OthersWrite, WriteWrites, Zenon DEF FilesNext, FilesStopped

LEMMA ShellWrites ==
    ASSUME ShellStep
    PROVE  Writes
<1>1. UNCHANGED filesVars => Writes
    BY OthersWrite
<1>2. \A text : Say(text) => Writes
    BY WriteWrites DEF Say
<1>3. CASE \/ ShowPrompt \/ GotBackSpace \/ GotCharacter \/ GotNewLine \/ GotOther \/ Split \/ Put \/ Echo \/ Pid
           \/ Waited
    BY <1>1, <1>2, <1>3 DEF ShowPrompt, GotBackSpace, GotCharacter, GotNewLine, GotOther, Split, Put, Echo, Pid,
                            Waited
<1>e. CASE ChildExec
    <2>1. UNCHANGED filesVars \/ Stop("program")
        BY <1>e, Zenon DEF ChildExec
    <2> QED
        BY <1>1, <2>1, Zenon DEF Writes
<1>4. CASE SplitTooLong \/ Quit \/ ChildExits
    BY <1>4, OthersWrite, Zenon DEF SplitTooLong, Quit, ChildExits
<1>5. CASE OpenArgument
    <2>1. Stop("argument") \/ \E path, dir : Open(Me, path, TRUE, FALSE, dir)
        BY <1>5, Zenon DEF OpenArgument
    <2> QED
        BY <2>1, OthersWrite, Zenon DEF Writes
<1>6. CASE Pump \/ List \/ CloseFile \/ Launch
    BY <1>6, OthersWrite, Zenon DEF Pump, List, CloseFile, Launch
<1>7. CASE ChildFails \/ ChildPrints
    BY <1>7, WriteWrites DEF ChildFails, ChildPrints
<1> QED
    BY <1>e, <1>3, <1>4, <1>5, <1>6, <1>7 DEF ShellStep

LEMMA NextWrites ==
    ASSUME [ShellNext]_<<filesVars, shellVars>>
    PROVE  Writes
<1>1. CASE UNCHANGED filesVars
    BY <1>1, OthersWrite
<1> QED
    BY <1>1, FilesWrite, ShellWrites DEF ShellNext, Key, FilesStopped, Quiet, shellVars, filesVars

LEMMA PicturedAtFirst ==
    ASSUME ShellInit
    PROVE  Pictured
<1>1. machine \in Machine /\ serial = <<>> /\ screen = EmptyScreen
    BY DEF ShellInit, FilesInit
<1>2. IsText(serial) /\ Paper(Page, serial) = Page
    BY <1>1, NothingWritten
<1> QED
    BY <1>1, <1>2, PageIs, Zenon DEF Pictured

LEMMA PicturedStep ==
    ASSUME Pictured, [ShellNext]_<<filesVars, shellVars>>
    PROVE  Pictured'
<1>1. (\E node, text : TtyWrite(node, text)) \/ (machine' = machine /\ serial' = serial /\ screen' = screen)
    BY NextWrites DEF Writes, Quietly, Stop
<1>2. machine' = machine /\ serial' = serial /\ screen' = screen => Pictured'
    BY Zenon DEF Pictured, Page
<1> QED
    BY <1>1, <1>2, TtyWritePictured

\* The screen shows the end of what was written to tty0, in lines of Width - 1
\* characters: however the writes of all programs follow one another, and whatever goes
\* to the serial terminal in between, x86_con_putc has wrapped, scrolled and rubbed out
\* so that what is seen is the last Height - 1 lines of that text, with the cursor behind
\* them, for every size of the screen.
THEOREM ScreenShowsTheEnd == ShellSpec => []ScreenShows
<1>1. ShellInit => Pictured
    BY PicturedAtFirst
<1>2. Pictured /\ [ShellNext]_<<filesVars, shellVars>> => Pictured'
    BY PicturedStep
<1>3. Pictured => ScreenShows
    BY Zenon DEF Pictured, ScreenShows, Paper, Page
<1> QED
    BY <1>1, <1>2, <1>3, PTL DEF ShellSpec

-----------------------------------------------------------------------------
(***************************************************************************)
(* The terminal shows the prompt and the line that the shell has kept.     *)
(***************************************************************************)

\* The characters of what was sent, and the last line after each of them.
Chars(w) == {w[i][2] : i \in 1..Len(w)}
LineRun(f, w) ==
    /\ \A i \in 0..Len(w) : f[i] \in Seq(Chars(w))
    /\ f[0] = <<>> /\ \A k \in 1..Len(w) : f[k] = OnLine(f[k - 1], w[k])
    /\ LastLine(w) = f[Len(w)]

LEMMA OnLineIs ==
    ASSUME NEW X, NEW l \in Seq(X), NEW x, x[2] \in X
    PROVE  OnLine(l, x) \in Seq(X)
<1>1. CASE x[2] = NewLine
    <2>0. x[2] # BackSpace
        BY <1>1 DEF NewLine, BackSpace
    <2>1. OnLine(l, x) = <<>>
        BY <1>1, <2>0, Zenon DEF OnLine
    <2> QED
        BY <2>1
<1>2. CASE x[2] = BackSpace
    <2>1. x[2] # NewLine
        BY <1>2 DEF NewLine, BackSpace
    <2>2. OnLine(l, x) = IF l = <<>> THEN l ELSE Front(l)
        BY <1>2, <2>1, Zenon DEF OnLine
    <2>3. l # <<>> => Front(l) \in Seq(X)
        BY DEF Front
    <2> QED
        BY <2>2, <2>3
<1>3. CASE x[2] # NewLine /\ x[2] # BackSpace
    <2>1. OnLine(l, x) = Append(l, x[2])
        BY <1>3, Zenon DEF OnLine
    <2> QED
        BY <2>1
<1> QED
    BY <1>1, <1>2, <1>3

LEMMA LineSteps ==
    ASSUME NEW w, IsText(w)
    PROVE  Len(w) \in Nat /\ \E f : LineRun(f, w)
<1> DEFINE N == Len(w)
           S == Seq(Chars(w))
           b == <<>>
           F == [x \in (1..N) \X S |-> OnLine(x[2], w[x[1]])]
           it == CHOOSE it : it = [z \in SUBSET DOMAIN w |-> IF z = {} THEN b ELSE OnLine(it[z \ {Max(z)}], w[Max(z)])]
<1>1. N \in Nat /\ DOMAIN w = 1..N
    BY DEF IsText
<1>2. LastLine(w) = it[DOMAIN w]
    BY DEF LastLine, FoldLeft, MapThenFoldSet
<1>3. \A p \in S : \A k \in 1..N : OnLine(p, w[k]) \in S
    BY OnLineIs DEF Chars
<1>4. b \in S
    OBVIOUS
<1> HIDE DEF N, S, b
<1>5. F \in [(1..N) \X S -> S] /\ \A k \in 1..N, v \in S : F[<<k, v>>] = OnLine(v, w[k])
    BY <1>3
<1> HIDE DEF F
<1>6. FoldOver(S, N, b, F) # {}
    BY <1>1, <1>4, <1>5, FoldExists
<1>7. PICK g \in [SUBSET (1..N) -> S] :
        g = [z \in SUBSET (1..N) |-> IF z = {} THEN b ELSE F[<<Max(z), g[z \ {Max(z)}]>>]]
    BY <1>6 DEF FoldOver
<1>8. g = [z \in SUBSET (1..N) |-> IF z = {} THEN b ELSE OnLine(g[z \ {Max(z)}], w[Max(z)])]
    <2>1. ASSUME NEW z \in SUBSET (1..N), z # {}
          PROVE  g[z] = OnLine(g[z \ {Max(z)}], w[Max(z)])
        <3>1. Max(z) \in 1..N /\ z \ {Max(z)} \in SUBSET (1..N)
            BY <1>1, <2>1, GreatestIn
        <3>2. g[z] = F[<<Max(z), g[z \ {Max(z)}]>>] /\ g[z \ {Max(z)}] \in S
            BY <1>7, <2>1, <3>1
        <3> QED
            BY <1>5, <3>1, <3>2
    <2> QED
        BY <1>7, <2>1
<1>9. it = [z \in SUBSET (1..N) |-> IF z = {} THEN b ELSE OnLine(it[z \ {Max(z)}], w[Max(z)])]
    BY <1>1, <1>8
<1> HIDE DEF it
<1> DEFINE f == [k \in 0..N |-> it[1..k]]
<1>10. f[0] = b /\ \A k \in 1..N : f[k] = OnLine(f[k - 1], w[k])
    <2>1. it[1..0] = b
        BY <1>1, <1>9, PlacesUpTo
    <2>2. ASSUME NEW k \in 1..N PROVE it[1..k] = OnLine(it[1..k - 1], w[k])
        <3>1. /\ 1..k \in SUBSET (1..N) /\ 1..k # {} /\ Max(1..k) = k /\ (1..k) \ {k} = 1..k - 1
            BY <1>1, PlacesUpTo
        <3>2. it[1..k] = OnLine(it[(1..k) \ {Max(1..k)}], w[Max(1..k)])
            BY <1>9, <3>1
        <3> QED
            BY <3>1, <3>2
    <2>3. 0 \in 0..N /\ \A k \in 1..N : k \in 0..N /\ k - 1 \in 0..N
        BY <1>1
    <2> QED
        BY <2>1, <2>2, <2>3
<1>11. f[N] = it[DOMAIN w]
    BY <1>1
<1>12. ASSUME NEW k \in 0..N PROVE f[k] \in S
    <2>1. k \in Nat /\ f[0] \in S /\ \A n \in 1..k : n \in 1..N
        BY <1>1, <1>4, <1>10
    <2> HIDE DEF f
    <2>2. \A n \in 1..k : f[n - 1] \in S => f[n] \in S
        BY <1>3, <1>10, <2>1
    <2> QED
        BY <2>1, <2>2, StepsKeep
<1> HIDE DEF f
<1>13. LineRun(f, w)
    <2>1. LastLine(w) = f[N]
        BY <1>2, <1>11, Zenon
    <2>2. f[0] = <<>>
        BY <1>10, Zenon DEF b
    <2> QED
        BY <1>10, <1>12, <2>1, <2>2, Zenon DEF N, S, LineRun
<1> QED
    BY <1>1, <1>13, Zenon DEF N

\* Two runs of the same characters.
InSame(f, g, w, n) == \A k \in 1..n : f[k] = OnLine(f[k - 1], w[k]) /\ g[k] = OnLine(g[k - 1], w[k])

\* The same characters make the same line.
LEMMA SameLine ==
    ASSUME NEW n \in Nat, NEW f, NEW g, f[0] = g[0], NEW w, InSame(f, g, w, n)
    PROVE  f[n] = g[n]
<1> DEFINE h == [k \in 0..n |-> IF f[k] = g[k] THEN 1 ELSE 0]
           One == {1}
<1>1. /\ h[0] = 1 /\ (h[n] = 1 <=> f[n] = g[n])
      /\ \A k \in 1..n : h[k - 1] = 1 => h[k] = 1
    <2>1. \A k \in 0..n : h[k] = 1 <=> f[k] = g[k]
        OBVIOUS
    <2>2. 0 \in 0..n /\ n \in 0..n /\ \A k \in 1..n : k - 1 \in 0..n /\ k \in 0..n
        OBVIOUS
    <2> HIDE DEF h
    <2> QED
        BY <2>1, <2>2 DEF InSame
<1> HIDE DEF h
<1>2. \A x : x \in One <=> x = 1
    OBVIOUS
<1> HIDE DEF One
<1>3. h[0] \in One /\ \A k \in 1..n : h[k - 1] \in One => h[k] \in One
    BY <1>1, <1>2
<1>4. h[n] \in One
    BY <1>3, StepsKeep
<1> QED
    BY <1>1, <1>2, <1>4

\* One character more.
LEMMA LineGoesOn ==
    ASSUME NEW v, IsText(v), NEW x, NEW u, u = Append(v, x)
    PROVE  IsText(u) /\ IsText(LastLine(v)) /\ LastLine(u) = OnLine(LastLine(v), x)
<1> DEFINE n == Len(v)
<1>1. /\ n \in Nat /\ Len(u) = n + 1 /\ u[n + 1] = x /\ IsText(u) /\ \A i \in 1..n : u[i] = v[i]
    <2>1. PICK X : v \in Seq(X)
        BY DEF IsText
    <2> DEFINE Z == X \cup {x}
    <2>2. v \in Seq(Z) /\ x \in Z
        BY <2>1
    <2> HIDE DEF Z
    <2>3. n \in Nat /\ u \in Seq(Z) /\ Len(u) = n + 1 /\ u[n + 1] = x /\ \A i \in 1..n : u[i] = v[i]
        BY <2>2
    <2> QED
        BY <2>3 DEF IsText
<1> HIDE DEF n
<1>2. PICK f : LineRun(f, v)
    BY LineSteps
<1>3. PICK g : LineRun(g, u)
    BY <1>1, LineSteps
<1>2a. f[0] = <<>> /\ f[n] \in Seq(Chars(v)) /\ LastLine(v) = f[n] /\ \A k \in 1..n : f[k] = OnLine(f[k - 1], v[k])
    BY <1>1, <1>2 DEF LineRun, n
<1>3a. g[0] = <<>> /\ LastLine(u) = g[n + 1] /\ \A k \in 1..n + 1 : g[k] = OnLine(g[k - 1], u[k])
    BY <1>1, <1>3 DEF LineRun
<1>4. f[n] = g[n]
    <2>1. f[0] = g[0]
        BY <1>2a, <1>3a, Zenon
    <2>2. ASSUME NEW k \in 1..n PROVE g[k] = OnLine(g[k - 1], v[k])
        BY <1>1, <1>3a
    <2>3. InSame(f, g, v, n)
        BY <1>2a, <2>2, Zenon DEF InSame
    <2> QED
        BY <1>1, <2>1, <2>3, SameLine
<1>5. g[n + 1] = OnLine(g[n], x)
    <2> DEFINE k == n + 1
    <2>1. k \in 1..n + 1 /\ k - 1 = n /\ u[k] = x
        BY <1>1
    <2> HIDE DEF k
    <2>2. g[k] = OnLine(g[k - 1], u[k])
        BY <1>3a, <2>1
    <2> QED
        BY <2>1, <2>2, Zenon DEF k
<1>6. IsText(LastLine(v))
    BY <1>2a, Zenon DEF IsText
<1> QED
    BY <1>1, <1>2a, <1>3a, <1>4, <1>5, <1>6, Zenon

\* A sequence stands at the end of another, as IsSuffix says it.
Closes(s, t) == Len(s) <= Len(t) /\ \A i \in 1..Len(s) : s[i] = t[Len(t) - Len(s) + i]

LEMMA ClosesIsSuffix ==
    ASSUME NEW s, IsText(s), NEW t, IsText(t), Closes(s, t)
    PROVE  IsSuffix(s, t)
<1> DEFINE n == Len(s)
           m == Len(t)
           a == Reverse(s)
           b == Reverse(t)
<1>1. n \in Nat /\ m \in Nat /\ n <= m /\ \A i \in 1..n : s[i] = t[m - n + i]
    BY DEF Closes, IsText
<1>2. /\ a = [i \in 1..n |-> s[(n - i) + 1]] /\ b = [i \in 1..m |-> t[(m - i) + 1]]
    BY DEF Reverse
<1> HIDE DEF n, m, a, b
<1>3. Len(a) = n /\ Len(b) = m
    BY <1>1, <1>2
<1>4. ASSUME NEW i \in 1..n PROVE a[i] = b[i]
    <2> DEFINE j == (n - i) + 1
    <2>1. j \in 1..n /\ m - n + j = (m - i) + 1 /\ i \in 1..m
        BY <1>1
    <2>2. a[i] = s[j] /\ b[i] = t[(m - i) + 1]
        BY <1>2, <2>1
    <2> HIDE DEF j
    <2> QED
        BY <1>1, <2>1, <2>2
<1>5. SubSeq(a, 1, n) = [i \in 1..n |-> a[i]] /\ SubSeq(b, 1, n) = [i \in 1..n |-> b[i]]
    BY <1>1, <1>2, <1>3
<1>6. SubSeq(a, 1, n) = SubSeq(b, 1, n)
    BY <1>4, <1>5, Zenon
<1> QED
    BY <1>1, <1>3, <1>6, Zenon DEF IsSuffix, IsPrefix, a, b

\* A character more at both ends, or one less.
LEMMA ClosesMore ==
    ASSUME NEW s, IsText(s), NEW t, IsText(t), Closes(s, t), NEW c, NEW p, p = Append(s, c), NEW q, q = Append(t, c)
    PROVE  Closes(p, q)
<1>1. PICK X : s \in Seq(X)
    BY DEF IsText
<1>2. PICK Y : t \in Seq(Y)
    BY DEF IsText
<1>3. /\ Len(s) \in Nat /\ Len(t) \in Nat /\ Len(s) <= Len(t) /\ \A i \in 1..Len(s) : s[i] = t[Len(t) - Len(s) + i]
      /\ Len(p) = Len(s) + 1 /\ p[Len(s) + 1] = c /\ \A i \in 1..Len(s) : p[i] = s[i]
      /\ Len(q) = Len(t) + 1 /\ q[Len(t) + 1] = c /\ \A i \in 1..Len(t) : q[i] = t[i]
    BY <1>1, <1>2 DEF Closes
<1>4. ASSUME NEW i \in 1..Len(p) PROVE p[i] = q[Len(q) - Len(p) + i]
    <2>1. CASE i = Len(s) + 1
        <3>1. Len(q) - Len(p) + i = Len(t) + 1
            BY <1>3, <2>1
        <3> QED
            BY <1>3, <2>1, <3>1, Zenon
    <2>2. CASE i # Len(s) + 1
        <3> DEFINE j == Len(t) - Len(s) + i
        <3>1. i \in 1..Len(s) /\ j \in 1..Len(t) /\ Len(q) - Len(p) + i = j
            BY <1>3, <2>2
        <3>2. s[i] = t[j] /\ p[i] = s[i]
            BY <1>3, <3>1
        <3> HIDE DEF j
        <3>3. q[j] = t[j]
            BY <1>3, <3>1
        <3> QED
            BY <3>1, <3>2, <3>3, Zenon
    <2> QED
        BY <2>1, <2>2
<1>5. Len(p) <= Len(q)
    BY <1>3
<1> QED
    BY <1>4, <1>5, Zenon DEF Closes

LEMMA ClosesLess ==
    ASSUME NEW s, IsText(s), NEW t, IsText(t), Closes(s, t), Len(s) > 0, NEW p, p = Front(s), NEW q, q = Front(t)
    PROVE  Len(t) > 0 /\ Closes(p, q)
<1>1. PICK X : s \in Seq(X)
    BY DEF IsText
<1>2. PICK Y : t \in Seq(Y)
    BY DEF IsText
<1>3. /\ Len(s) \in Nat /\ Len(t) \in Nat /\ Len(s) <= Len(t) /\ \A i \in 1..Len(s) : s[i] = t[Len(t) - Len(s) + i]
    BY <1>1, <1>2 DEF Closes
<1>4. /\ Len(p) = Len(s) - 1 /\ \A i \in 1..Len(s) - 1 : p[i] = s[i]
    <2> DEFINE n == Len(s) - 1
    <2>1. n \in Nat /\ n <= Len(s) /\ p = SubSeq(s, 1, n)
        BY <1>3 DEF Front
    <2> HIDE DEF n
    <2>2. Len(p) = n /\ \A i \in 1..n : p[i] = s[i]
        BY <1>1, <2>1
    <2> QED
        BY <2>2 DEF n
<1>5. /\ Len(q) = Len(t) - 1 /\ \A i \in 1..Len(t) - 1 : q[i] = t[i]
    <2> DEFINE n == Len(t) - 1
    <2>1. n \in Nat /\ n <= Len(t) /\ q = SubSeq(t, 1, n)
        BY <1>3 DEF Front
    <2> HIDE DEF n
    <2>2. Len(q) = n /\ \A i \in 1..n : q[i] = t[i]
        BY <1>2, <2>1
    <2> QED
        BY <2>2 DEF n
<1>6. ASSUME NEW i \in 1..Len(p) PROVE p[i] = q[Len(q) - Len(p) + i]
    <2> DEFINE j == Len(t) - Len(s) + i
    <2>1. i \in 1..Len(s) - 1 /\ i \in 1..Len(s) /\ j \in 1..Len(t) - 1 /\ Len(q) - Len(p) + i = j
        BY <1>3, <1>4, <1>5
    <2>2. s[i] = t[j] /\ p[i] = s[i]
        BY <1>3, <1>4, <2>1
    <2> HIDE DEF j
    <2>3. q[j] = t[j]
        BY <1>5, <2>1
    <2> QED
        BY <2>1, <2>2, <2>3, Zenon
<1> QED
    BY <1>3, <1>4, <1>5, <1>6 DEF Closes

\* Two characters stand behind whatever they are appended to.
LEMMA ClosesPair ==
    ASSUME NEW t, IsText(t), NEW c, NEW d, NEW s, s = <<c, d>>, NEW q, q = Append(Append(t, c), d)
    PROVE  Closes(s, q)
<1>1. PICK Y : t \in Seq(Y)
    BY DEF IsText
<1> DEFINE Z == Y \cup {c, d}
<1>2. t \in Seq(Z) /\ c \in Z /\ d \in Z
    BY <1>1
<1> HIDE DEF Z
<1>3. Len(t) \in Nat /\ Len(q) = Len(t) + 2 /\ q[Len(t) + 1] = c /\ q[Len(t) + 2] = d
    BY <1>2
<1>4. Len(s) = 2 /\ s[1] = c /\ s[2] = d
    OBVIOUS
<1>5. ASSUME NEW i \in 1..Len(s) PROVE s[i] = q[Len(q) - Len(s) + i]
    <2>1. Len(q) - Len(s) + i = Len(t) + i /\ (i = 1 \/ i = 2)
        BY <1>3, <1>4
    <2> QED
        BY <1>3, <1>4, <2>1
<1> QED
    BY <1>3, <1>4, <1>5 DEF Closes

\* What fits into a piece is sent as it is.
LEMMA SentIs ==
    ASSUME NEW V, NEW text \in Seq(V), Len(text) \in 0..2
    PROVE  Sent(text) = text
<1>1. Piece \in Nat /\ Piece > 1
    BY FilesAssumption
<1>2. 0 % Piece = 0 /\ 1 % Piece = 1
    BY <1>1
<1>3. ASSUME NEW i \in 1..Len(text) PROVE ((i - 1) % Piece) + 1 = i
    <2> DEFINE n == Len(text)
    <2>0. n \in 0..2 /\ i \in 1..n
        OBVIOUS
    <2> HIDE DEF n
    <2>1. i = 1 \/ i = 2
        BY <2>0
    <2>2. CASE i = 1
        <3>1. i - 1 = 0 /\ 0 + 1 = i
            BY <2>2
        <3> QED
            BY <1>2, <3>1
    <2>3. CASE i = 2
        <3>1. i - 1 = 1 /\ 1 + 1 = i
            BY <2>3
        <3> QED
            BY <1>2, <3>1
    <2> QED
        BY <2>1, <2>2, <2>3
<1>4. Sent(text) = [i \in 1..Len(text) |-> text[i]]
    BY <1>3, Zenon DEF Sent
<1>5. text = [i \in 1..Len(text) |-> text[i]]
    OBVIOUS
<1> QED
    BY <1>4, <1>5

\* What the shell says goes to the serial line, character by character.
LEMMA SayIs ==
    ASSUME NEW V, NEW text \in Seq(V), Len(text) \in 0..2, Say(text), files[Me][0] = StartFiles[0]
    PROVE  TtyWrite(4, text)
<1>1. VfsWrite(files[Me][0], Sent(text))
    BY DEF Say, Write
<1>2. /\ files[Me][0].kind = "dev" /\ files[Me][0].wr /\ files[Me][0].node = 4
    BY StartFacts DEF Terminal
<1>3. HasHandlers(Nodes[4])
    BY DEF HasHandlers, Nodes
<1>4. TtyWrite(4, Sent(text))
    BY <1>1, <1>2, <1>3 DEF VfsWrite, IsDir
<1> QED
    BY <1>4, SentIs

LEMMA SayOne ==
    ASSUME IsText(serial), NEW c, NEW text, text = <<c>>, TtyWrite(4, text)
    PROVE  serial' = Append(serial, <<4, c>>)
<1> DEFINE sent == [i \in 1..Len(text) |-> <<4, text[i]>>]
           x == <<4, c>>
<1>1. serial' = serial \o sent
    BY Zenon DEF TtyWrite
<1>2. Len(text) = 1 /\ text[1] = c
    OBVIOUS
<1>3. sent \in Seq({x}) /\ Len(sent) = 1 /\ sent[1] = x
    BY <1>2
<1> HIDE DEF sent, x
<1>4. PICK X : serial \in Seq(X)
    BY DEF IsText
<1> DEFINE Z == X \cup {x}
<1>5. serial \in Seq(Z) /\ sent \in Seq(Z) /\ x \in Z
    BY <1>3, <1>4
<1> HIDE DEF Z
<1> DEFINE u == serial \o sent
           v == Append(serial, x)
<1>6. u = v
    <2>1. u \in Seq(Z) /\ v \in Seq(Z) /\ Len(u) = Len(serial) + 1 /\ Len(v) = Len(serial) + 1 /\ Len(serial) \in Nat
        <3>1. u \in Seq(Z) /\ Len(u) = Len(serial) + Len(sent)
            BY <1>5
        <3>2. v \in Seq(Z) /\ Len(v) = Len(serial) + 1 /\ Len(serial) \in Nat
            BY <1>5
        <3> QED
            BY <1>3, <3>1, <3>2
    <2>2. ASSUME NEW i \in 1..Len(serial) PROVE u[i] = v[i]
        <3>1. u[i] = serial[i]
            BY <1>5
        <3>2. v[i] = serial[i]
            BY <1>5
        <3> QED
            BY <3>1, <3>2
    <2>3. u[Len(serial) + 1] = v[Len(serial) + 1]
        <3>1. u[Len(serial) + 1] = sent[1]
            BY <1>3, <1>5, <2>1
        <3>2. v[Len(serial) + 1] = x
            BY <1>5, <2>1
        <3> QED
            BY <1>3, <3>1, <3>2
    <2> HIDE DEF u, v
    <2>4. \A i \in 1..Len(u) : i \in 1..Len(serial) \/ i = Len(serial) + 1
        BY <2>1
    <2>5. \A i \in 1..Len(u) : u[i] = v[i]
        BY <2>2, <2>3, <2>4, Zenon
    <2> QED
        BY <2>1, <2>5, SeqsAgree
<1> QED
    BY <1>1, <1>6, Zenon DEF x, u, v

LEMMA SayTwo ==
    ASSUME IsText(serial), NEW c, NEW d, NEW text, text = <<c, d>>, TtyWrite(4, text)
    PROVE  serial' = Append(Append(serial, <<4, c>>), <<4, d>>)
<1> DEFINE sent == [i \in 1..Len(text) |-> <<4, text[i]>>]
           x == <<4, c>>
           y == <<4, d>>
<1>1. serial' = serial \o sent
    BY Zenon DEF TtyWrite
<1>2. Len(text) = 2 /\ text[1] = c /\ text[2] = d
    OBVIOUS
<1>3. sent \in Seq({x, y}) /\ Len(sent) = 2 /\ sent[1] = x /\ sent[2] = y
    BY <1>2
<1> HIDE DEF sent, x, y
<1>4. PICK X : serial \in Seq(X)
    BY DEF IsText
<1> DEFINE Z == X \cup {x, y}
<1>5. serial \in Seq(Z) /\ sent \in Seq(Z) /\ x \in Z /\ y \in Z
    BY <1>3, <1>4
<1> HIDE DEF Z
<1> DEFINE u == serial \o sent
           v == Append(Append(serial, x), y)
<1>6. u = v
    <2>1. u \in Seq(Z) /\ v \in Seq(Z) /\ Len(u) = Len(serial) + 2 /\ Len(v) = Len(serial) + 2 /\ Len(serial) \in Nat
        <3>1. u \in Seq(Z) /\ Len(u) = Len(serial) + Len(sent)
            BY <1>5
        <3>2. v \in Seq(Z) /\ Len(v) = Len(serial) + 2 /\ Len(serial) \in Nat
            BY <1>5
        <3> QED
            BY <1>3, <3>1, <3>2
    <2>2. ASSUME NEW i \in 1..Len(serial) PROVE u[i] = v[i]
        <3>1. u[i] = serial[i]
            BY <1>5
        <3>2. v[i] = serial[i]
            BY <1>5
        <3> QED
            BY <3>1, <3>2
    <2>3. u[Len(serial) + 1] = v[Len(serial) + 1]
        <3>1. u[Len(serial) + 1] = sent[1]
            BY <1>3, <1>5, <2>1
        <3>2. v[Len(serial) + 1] = x
            BY <1>5, <2>1
        <3> QED
            BY <1>3, <3>1, <3>2
    <2>4. u[Len(serial) + 2] = v[Len(serial) + 2]
        <3>1. u[Len(serial) + 2] = sent[2]
            BY <1>3, <1>5, <2>1
        <3>2. v[Len(serial) + 2] = y
            BY <1>5, <2>1
        <3> QED
            BY <1>3, <3>1, <3>2
    <2> HIDE DEF u, v
    <2>5. \A i \in 1..Len(u) : i \in 1..Len(serial) \/ i = Len(serial) + 1 \/ i = Len(serial) + 2
        BY <2>1
    <2>6. \A i \in 1..Len(u) : u[i] = v[i]
        BY <2>2, <2>3, <2>4, <2>5, Zenon
    <2> QED
        BY <2>1, <2>6, SeqsAgree
<1> QED
    BY <1>1, <1>6, Zenon DEF x, y, u, v

LEMMA FormatOfTwo ==
    ASSUME NEW q, DOMAIN q = 1..2, NEW base
    PROVE  FoldLeft(UserDirective, base, q) = UserDirective(UserDirective(base, q[1]), q[2])
<1> DEFINE Op(w, d) == UserDirective(w, d)
           it == CHOOSE it : it = [s \in SUBSET DOMAIN q |-> IF s = {} THEN base ELSE Op(it[s \ {Max(s)}], q[Max(s)])]
           g == [s \in SUBSET (1..2) |->
                    IF s = {} THEN base ELSE IF s = {1} THEN Op(base, q[1])
                    ELSE IF s = {2} THEN Op(base, q[2]) ELSE Op(Op(base, q[1]), q[2])]
<1>1. DOMAIN q = 1..2
    OBVIOUS
<1>2. FoldLeft(UserDirective, base, q) = it[DOMAIN q]
    BY DEF FoldLeft, MapThenFoldSet
<1> HIDE DEF Op
<1>3. 1..2 = {1, 2} /\ \A s \in SUBSET {1, 2} : s = {} \/ s = {1} \/ s = {2} \/ s = {1, 2}
    <2>1. 1..2 = {1, 2}
        OBVIOUS
    <2>2. ASSUME NEW s \in SUBSET {1, 2}
          PROVE  s = {} \/ s = {1} \/ s = {2} \/ s = {1, 2}
        <3>1. CASE 1 \in s /\ 2 \in s
            BY <3>1
        <3>2. CASE 1 \in s /\ 2 \notin s
            BY <3>2
        <3>3. CASE 1 \notin s
            BY <3>3
        <3> QED
            BY <3>1, <3>2, <3>3
    <2> QED
        BY <2>1, <2>2
<1>4. Max({1}) = 1 /\ Max({2}) = 2 /\ Max({1, 2}) = 2
    BY GreatestIs
<1>5. {1} \ {1} = {} /\ {2} \ {2} = {} /\ {1, 2} \ {2} = {1}
      /\ {} # {1} /\ {} # {2} /\ {} # {1, 2} /\ {1} # {2} /\ {1, 2} # {1} /\ {1, 2} # {2}
    OBVIOUS
<1>6. g[{}] = base /\ g[{1}] = Op(base, q[1]) /\ g[{2}] = Op(base, q[2]) /\ g[{1, 2}] = Op(Op(base, q[1]), q[2])
    <2>1. {} \in SUBSET (1..2) /\ {1} \in SUBSET (1..2) /\ {2} \in SUBSET (1..2) /\ {1, 2} \in SUBSET (1..2)
        OBVIOUS
    <2> QED
        BY <1>5, <2>1
<1>7. \A s \in SUBSET (1..2) : g[s] = IF s = {} THEN base ELSE Op(g[s \ {Max(s)}], q[Max(s)])
    <2> HIDE DEF g
    <2>1. (IF {} = {} THEN base ELSE Op(g[{} \ {Max({})}], q[Max({})])) = base
        OBVIOUS
    <2>2. ASSUME NEW s \in SUBSET (1..2), s # {}
          PROVE  g[s] = Op(g[s \ {Max(s)}], q[Max(s)])
        <3>1. CASE s = {1}
            BY <1>1, <1>4, <1>5, <1>6, <3>1
        <3>2. CASE s = {2}
            BY <1>1, <1>4, <1>5, <1>6, <3>2
        <3>3. CASE s = {1, 2}
            BY <1>1, <1>4, <1>5, <1>6, <3>3
        <3> QED
            BY <1>3, <2>2, <3>1, <3>2, <3>3
    <2> QED
        BY <1>6, <2>2
<1>8. g = [s \in SUBSET DOMAIN q |-> IF s = {} THEN base ELSE Op(g[s \ {Max(s)}], q[Max(s)])]
    BY <1>1, <1>7
<1> HIDE DEF g
<1>9. it = [s \in SUBSET DOMAIN q |-> IF s = {} THEN base ELSE Op(it[s \ {Max(s)}], q[Max(s)])]
    BY <1>8
<1> HIDE DEF it
<1>10. it[{}] = base /\ it[{1}] = Op(base, q[1])
    <2>1. {} \in SUBSET DOMAIN q /\ {1} \in SUBSET DOMAIN q
        BY <1>1
    <2>2. it[{}] = base
        BY <1>9, <2>1
    <2>3. it[{1}] = Op(it[{1} \ {Max({1})}], q[Max({1})])
        BY <1>5, <1>9, <2>1
    <2> QED
        BY <1>1, <1>4, <1>5, <2>2, <2>3
<1>11. it[{1, 2}] = Op(it[{1}], q[2])
    <2>1. {1, 2} \in SUBSET DOMAIN q
        BY <1>1
    <2>2. it[{1, 2}] = Op(it[{1, 2} \ {Max({1, 2})}], q[Max({1, 2})])
        BY <1>5, <1>9, <2>1
    <2> QED
        BY <1>1, <1>4, <1>5, <2>2
<1> QED
    BY <1>1, <1>2, <1>3, <1>10, <1>11 DEF Op


LEMMA AppendIs ==
    ASSUME NEW V, NEW t \in Seq(V), NEW d \in V, NEW w, w = Append(t, d)
    PROVE  /\ w \in Seq(V) /\ Len(w) = Len(t) + 1 /\ w[Len(t) + 1] = d
           /\ \A i \in 1..Len(t) : w[i] = t[i]
OBVIOUS

LEMMA OneAndOne ==
    ASSUME NEW V, NEW t \in Seq(V), Len(t) = 1, NEW d \in V, NEW w, w = Append(t, d)
    PROVE  w = <<t[1], d>>
<1>1. /\ w \in Seq(V) /\ Len(w) = Len(t) + 1 /\ w[Len(t) + 1] = d
      /\ \A i \in 1..Len(t) : w[i] = t[i]
    BY AppendIs
<1>2. 1 \in 1..Len(t) /\ Len(t) + 1 = 2
    OBVIOUS
<1>3. Len(w) = 2 /\ w[1] = t[1] /\ w[2] = d
    BY <1>1, <1>2, Zenon
<1>4. w = <<w[1], w[2]>>
    BY <1>1, <1>3, PairIs, Zenon
<1> QED
    BY <1>3, <1>4, Zenon

\* printf("# ")
LEMMA PromptIs ==
    ASSUME NEW f, f = <<Char("#"), Char(Space)>>
    PROVE  Printf(f) = Prompt
<1> DEFINE b == Buffer(PrintSize)
<1>1. b.text = <<>> /\ b.len = PrintSize /\ b.done = FALSE /\ b = [text |-> b.text, len |-> b.len, done |-> FALSE, wild |-> FALSE]
    BY DEF Buffer
<1>2. PrintSize \in Nat /\ PrintSize > 2
    BY ShellAssumption
<1> HIDE DEF b
<1>3. ASSUME NEW c, NEW w PROVE UserDirective(w, Char(c)) = PutC(w, c)
    <2>1. Char(c).conv = "plain" /\ Char(c).text = <<c>>
        BY DEF Char, Given
    <2>2. Char(c).text[1] = c
        BY <2>1
    <2> DEFINE d == Char(c)
    <2> HIDE DEF d
    <2>3. d.conv = "plain" /\ d.text[1] = c
        BY <2>1, <2>2 DEF d
    <2>4. UserDirective(w, d) = PutC(w, d.text[1])
        BY <2>3 DEF UserDirective
    <2> QED
        BY <2>3, <2>4, Zenon DEF d
<1> DEFINE b1 == PutC(b, "#")
           b2 == PutC(b1, Space)
<1>4. b1.text = <<"#">> /\ b1.len = PrintSize /\ b1.done = FALSE
    <2>1. Len(b.text) # b.len - 1
        BY <1>1, <1>2
    <2>2. b1 = [b EXCEPT !.text = Append(@, "#")]
        BY <1>1, <2>1, Zenon DEF PutC
    <2> QED
        BY <1>1, <2>2
<1>5. DOMAIN b1 = {"text", "len", "done", "wild"}
    <2>1. Len(b.text) # b.len - 1
        BY <1>1, <1>2
    <2>2. b1 = [b EXCEPT !.text = Append(@, "#")]
        BY <1>1, <2>1, Zenon DEF PutC
    <2> QED
        BY <1>1, <2>2
<1> HIDE DEF b1
<1>6. b2.text = <<"#", Space>>
    <2>1. Len(b1.text) # b1.len - 1
        BY <1>2, <1>4
    <2>2. b2 = [b1 EXCEPT !.text = Append(@, Space)]
        BY <1>4, <2>1, Zenon DEF PutC
    <2>3. b2.text = Append(b1.text, Space)
        BY <1>5, <2>2
    <2>4. b1.text \in Seq({"#", Space}) /\ Len(b1.text) = 1 /\ b1.text[1] = "#"
        BY <1>4
    <2>5. Append(b1.text, Space) = <<b1.text[1], Space>>
        BY <2>4, OneAndOne
    <2> QED
        BY <2>3, <2>4, <2>5, Zenon
<1>7. DOMAIN f = 1..2 /\ f[1] = Char("#") /\ f[2] = Char(Space)
    OBVIOUS
<1>8. UserFormat(f, PrintSize) = UserDirective(UserDirective(b, f[1]), f[2])
    BY <1>7, FormatOfTwo, Zenon DEF UserFormat, b
<1>9. UserFormat(f, PrintSize) = b2
    BY <1>3, <1>7, <1>8, Zenon DEF b1
<1> QED
    BY <1>6, <1>9, Zenon DEF Printf, Prompt

\* While the shell reads, its prompt and its line stand in the last line of what was sent.
Echoed ==
    HasShell /\ shell.at \in {"read", "got"} => Closes(Prompt \o shell.line, LastLine(serial))

Join(s, t) == s \o t

\* A text of n characters and what follows it, and the same of two characters.
Joined(V, u, s, n, t) ==
    /\ u \in Seq(V) /\ Len(u) = Len(t) + n /\ Len(t) \in Nat
    /\ \A i \in 1..n : u[i] = s[i]
    /\ \A i \in 1..Len(t) : u[n + i] = t[i]

LEMMA JoinIs ==
    ASSUME NEW V, NEW s \in Seq(V), NEW n, n = Len(s), NEW t \in Seq(V), NEW u, u = Join(s, t)
    PROVE  Joined(V, u, s, n, t)
<1>1. u \in Seq(V) /\ Len(u) = Len(t) + n /\ Len(t) \in Nat
    BY DEF Join
<1>2. ASSUME NEW i \in 1..n PROVE u[i] = s[i]
    BY DEF Join
<1>3. ASSUME NEW i \in 1..Len(t) PROVE u[n + i] = t[i]
    BY DEF Join
<1> QED
    BY <1>1, <1>2, <1>3, Zenon DEF Joined

LEMMA JoinTwo ==
    ASSUME NEW V, NEW p \in Seq(V), Len(p) = 2, NEW t \in Seq(V), NEW u, u = Join(p, t)
    PROVE  /\ u \in Seq(V) /\ Len(u) = Len(t) + 2 /\ Len(t) \in Nat
           /\ \A i \in 1..2 : u[i] = p[i]
           /\ \A i \in 1..Len(t) : u[2 + i] = t[i]
<1>1. Joined(V, u, p, Len(p), t)
    BY JoinIs
<1>2. Joined(V, u, p, 2, t)
    BY <1>1
<1> QED
    BY <1>2 DEF Joined

\* The line behind the prompt, as it grows and shrinks.
LEMMA BehindPrompt ==
    ASSUME NEW l \in Seq(Printable)
    PROVE  /\ IsText(Prompt \o l) /\ (Len(l) = 0 => Prompt \o l = Prompt)
           /\ \A c \in Printable : Prompt \o Append(l, c) = Append(Prompt \o l, c)
           /\ Len(l) > 0 => Len(Prompt \o l) > 0 /\ Prompt \o Front(l) = Front(Prompt \o l)
<1> DEFINE Z == Printable \cup {"#", Space}
<1>1. Prompt \in Seq(Z) /\ Len(Prompt) = 2
    BY DEF Prompt
<1>2. l \in Seq(Z) /\ Printable \subseteq Z
    OBVIOUS
<1> DEFINE p == Prompt
<1> HIDE DEF Z, p
<1>3. p \in Seq(Z) /\ Len(p) = 2
    BY <1>1 DEF p
<1>4. Join(p, l) \in Seq(Z) /\ Len(Join(p, l)) = Len(l) + 2 /\ Len(l) \in Nat
    BY <1>2, <1>3, JoinTwo
<1>5. /\ \A i \in 1..2 : Join(p, l)[i] = p[i]
      /\ \A i \in 1..Len(l) : Join(p, l)[2 + i] = l[i]
    BY <1>2, <1>3, JoinTwo
<1>6. Len(l) = 0 => Join(p, l) = p
    <2> SUFFICES ASSUME Len(l) = 0 PROVE Join(p, l) = p
        OBVIOUS
    <2> DEFINE u == Join(p, l)
    <2>1. Len(u) = 2 /\ u \in Seq(Z) /\ \A i \in 1..2 : u[i] = p[i]
        BY <1>4, <1>5
    <2> HIDE DEF u
    <2>2. u = p
        BY <1>3, <2>1, SeqsAgree
    <2> QED
        BY <2>2 DEF u
<1>7. ASSUME NEW c \in Printable PROVE Join(p, Append(l, c)) = Append(Join(p, l), c)
    BY <1>2, <1>3, <1>4 DEF Join
<1>8. ASSUME Len(l) > 0 PROVE Join(p, Front(l)) = Front(Join(p, l))
    <2> DEFINE n == Len(l) - 1
               f == SubSeq(l, 1, n)
               u == Join(p, f)
               w == Join(p, l)
               g == SubSeq(w, 1, n + 2)
    <2>1. n \in Nat /\ n + 1 = Len(l)
        BY <1>4, <1>8
    <2> HIDE DEF n
    <2>2. f \in Seq(Z) /\ Len(f) = n /\ \A i \in 1..n : f[i] = l[i]
        BY <1>2, <2>1
    <2> HIDE DEF f
    <2>3. u \in Seq(Z) /\ Len(u) = n + 2 /\ (\A i \in 1..2 : u[i] = p[i]) /\ \A i \in 1..n : u[2 + i] = f[i]
        BY <1>3, <2>2, JoinTwo
    <2>4. w \in Seq(Z) /\ Len(w) = n + 3 /\ (\A i \in 1..2 : w[i] = p[i]) /\ \A i \in 1..n + 1 : w[2 + i] = l[i]
        BY <1>4, <1>5, <2>1
    <2> HIDE DEF u, w
    <2>5. g \in Seq(Z) /\ Len(g) = n + 2 /\ \A i \in 1..n + 2 : g[i] = w[i]
        BY <2>1, <2>4
    <2> HIDE DEF g
    <2>6. ASSUME NEW i \in 1..Len(u) PROVE u[i] = g[i]
        <3>1. CASE i \in 1..2
            BY <2>1, <2>3, <2>4, <2>5, <3>1
        <3>2. CASE i \notin 1..2
            <4> DEFINE j == i - 2
            <4>1. j \in 1..n /\ j \in 1..n + 1 /\ i = 2 + j /\ i \in 1..n + 2
                BY <2>1, <2>3, <3>2
            <4> HIDE DEF j
            <4> QED
                BY <2>2, <2>3, <2>4, <2>5, <4>1
        <3> QED
            BY <3>1, <3>2
    <2>7. u = g
        BY <2>3, <2>5, <2>6, SeqsAgree
    <2>8. Front(l) = f /\ Front(w) = g
        <3>1. Len(l) - 1 = n /\ Len(w) - 1 = n + 2
            BY <2>1, <2>4
        <3> QED
            BY <3>1, Zenon DEF Front, f, g
    <2> QED
        BY <2>7, <2>8, Zenon DEF u, w
<1>9. IsText(Join(p, l)) /\ (Len(l) > 0 => Len(Join(p, l)) > 0)
    BY <1>4 DEF IsText
<1> QED
    BY <1>6, <1>7, <1>8, <1>9, Zenon DEF p, Join

\* What the terminal makes of a character, and of a backspace.
LEMMA OnLineShows ==
    ASSUME NEW l
    PROVE  /\ \A c \in Printable \cup {"#", Space} : OnLine(l, <<4, c>>) = Append(l, c)
           /\ OnLine(l, <<4, BackSpace>>) = IF l = <<>> THEN l ELSE Front(l)
<1>1. ASSUME NEW c, c # NewLine, c # BackSpace PROVE OnLine(l, <<4, c>>) = Append(l, c)
    <2>1. <<4, c>>[2] = c
        OBVIOUS
    <2> QED
        BY <1>1, <2>1, Zenon DEF OnLine
<1>2. \A c \in Printable \cup {"#", Space} : c # NewLine /\ c # BackSpace
    <2>1. "#" # NewLine /\ "#" # BackSpace /\ Space # NewLine /\ Space # BackSpace
        BY DEF NewLine, BackSpace, Space
    <2> QED
        BY <2>1, PrintableAssumption
<1>3. OnLine(l, <<4, BackSpace>>) = IF l = <<>> THEN l ELSE Front(l)
    <2>1. <<4, BackSpace>>[2] = BackSpace /\ BackSpace # NewLine
        BY DEF NewLine, BackSpace
    <2> QED
        BY <2>1, Zenon DEF OnLine
<1> QED
    BY <1>1, <1>2, <1>3

LEMMA PromptStays == Prompt' = Prompt
BY DEF Prompt, Space

\* What the shell says of one character.
LEMMA LineOfOne ==
    ASSUME IsText(serial), NEW c, NEW text, text = <<c>>, TtyWrite(4, text)
    PROVE  IsText(LastLine(serial)) /\ LastLine(serial') = OnLine(LastLine(serial), <<4, c>>)
<1> DEFINE x == <<4, c>>
<1>1. serial' = Append(serial, x)
    BY SayOne
<1> HIDE DEF x
<1>2. IsText(LastLine(serial)) /\ LastLine(serial') = OnLine(LastLine(serial), x)
    BY <1>1, LineGoesOn
<1> QED
    BY <1>2, Zenon DEF x

\* What the shell has read stays, and so does the line.
LEMMA EchoedStays ==
    ASSUME Echoed, shell.at \in {"read", "got"}, shell'.line = shell.line, serial' = serial
    PROVE  Echoed'
<1>1. Closes(Prompt \o shell.line, LastLine(serial))
    BY DEF Echoed, HasShell
<1> QED
    BY <1>1, PromptStays, Zenon DEF Echoed

LEMMA EchoPrompt ==
    ASSUME Pictured, files[Me][0] = StartFiles[0], ShowPrompt
    PROVE  Echoed'
<1> DEFINE f == <<Char("#"), Char(Space)>>
           x == <<4, "#">>
           y == <<4, Space>>
           l == LastLine(serial)
<1>1. Say(Prompt)
    <2>1. Say(Printf(f)) /\ Printf(f) = Prompt
        BY PromptIs DEF ShowPrompt
    <2> QED
        BY <2>1, Zenon
<1>2. IsText(serial) /\ TtyWrite(4, Prompt)
    <2>1. Prompt \in Seq({"#", Space}) /\ Len(Prompt) \in 0..2
        BY DEF Prompt
    <2> QED
        BY <1>1, <2>1, SayIs DEF Pictured
<1>3. serial' = Append(Append(serial, x), y)
    BY <1>2, SayTwo DEF Prompt
<1>4. shell'.line = <<>>
    <2>1. shell' = [FirstPrompt(Me) EXCEPT !.at = "read"]
        BY DEF ShowPrompt
    <2> QED
        BY <2>1 DEF FirstPrompt
<1>5. OnLine(l, x) = Append(l, "#") /\ OnLine(Append(l, "#"), y) = Append(Append(l, "#"), Space)
    BY OnLineShows
<1> DEFINE u == Append(serial, x)
<1> HIDE DEF f, x, y
<1>6. IsText(u) /\ IsText(l) /\ LastLine(u) = OnLine(l, x)
    BY <1>2, LineGoesOn
<1>7. serial' = Append(u, y)
    BY <1>3
<1> HIDE DEF u
<1>8. LastLine(serial') = OnLine(LastLine(u), y)
    BY <1>6, <1>7, LineGoesOn
<1> HIDE DEF l
<1>9. LastLine(serial') = Append(Append(l, "#"), Space)
    BY <1>5, <1>6, <1>8, Zenon
<1>10. Closes(Prompt, LastLine(serial'))
    BY <1>6, <1>9, ClosesPair, Zenon DEF Prompt
<1>11. Prompt \o shell'.line = Prompt
    <2> DEFINE k == shell'.line
    <2>1. k \in Seq(Printable) /\ Len(k) = 0
        BY <1>4
    <2> HIDE DEF k
    <2>2. Prompt \o k = Prompt
        BY <2>1, BehindPrompt, Zenon
    <2> QED
        BY <2>2, Zenon DEF k
<1> QED
    BY <1>10, <1>11, PromptStays, Zenon DEF Echoed

LEMMA EchoCharacter ==
    ASSUME Pictured, TextOK, ShellInv, HasShell, Echoed, files[Me][0] = StartFiles[0], GotCharacter
    PROVE  Echoed'
<1> DEFINE c == shell.char
           k == shell.line
           l == LastLine(serial)
           p == Prompt \o k
           q == Append(l, c)
<1>1. IsText(serial) /\ c \in Printable /\ k \in Seq(Printable) /\ Closes(p, l)
    BY DEF Pictured, TextOK, Echoed, GotCharacter, At, IsPrinted
<1>2. TtyWrite(4, <<c>>)
    <2>1. Say(<<c>>)
        BY DEF GotCharacter
    <2> HIDE DEF c
    <2>2. <<c>> \in Seq({c}) /\ Len(<<c>>) \in 0..2
        OBVIOUS
    <2> QED
        BY <2>1, <2>2, SayIs
<1>3. shell'.line = Append(k, c)
    <2> DEFINE line == Append(k, c)
               at == IF Len(line) < LineSize - 1 THEN "read" ELSE "split"
    <2>1. shell' = [shell EXCEPT !.line = line, !.at = at] /\ "line" \in DOMAIN shell
        BY DEF GotCharacter, TextOK, Text
    <2> HIDE DEF line, at
    <2>2. shell'.line = line
        BY <2>1
    <2> QED
        BY <2>2 DEF line
<1> HIDE DEF c
<1>4. IsText(l) /\ LastLine(serial') = OnLine(l, <<4, c>>)
    BY <1>1, <1>2, LineOfOne
<1>5. OnLine(l, <<4, c>>) = q
    BY <1>1, OnLineShows
<1>6. IsText(p) /\ Prompt \o Append(k, c) = Append(p, c)
    BY <1>1, BehindPrompt
<1> DEFINE r == Append(p, c)
<1> HIDE DEF k, l, p
<1>7. Closes(r, q)
    BY <1>1, <1>4, <1>6, ClosesMore
<1> HIDE DEF q, r
<1>8. Prompt \o shell'.line = r /\ LastLine(serial') = q
    BY <1>3, <1>4, <1>5, <1>6, Zenon DEF k, r
<1> QED
    BY <1>7, <1>8, PromptStays, Zenon DEF Echoed

LEMMA EchoBackSpace ==
    ASSUME Pictured, TextOK, ShellInv, HasShell, Echoed, files[Me][0] = StartFiles[0], GotBackSpace,
           shell.line # <<>>
    PROVE  Echoed'
<1> DEFINE k == shell.line
           l == LastLine(serial)
           p == Prompt \o k
           q == Front(l)
           r == Front(p)
<1>1. IsText(serial) /\ k \in Seq(Printable) /\ Len(k) > 0 /\ Closes(p, l)
    <2>1. IsText(serial) /\ k \in Seq(Printable) /\ Closes(p, l)
        BY DEF Pictured, TextOK, Echoed, GotBackSpace, At
    <2>2. Len(k) > 0
        BY <2>1
    <2> QED
        BY <2>1, <2>2
<1>2. TtyWrite(4, <<BackSpace>>)
    <2>1. Say(<<BackSpace>>)
        BY DEF GotBackSpace
    <2>2. <<BackSpace>> \in Seq({BackSpace}) /\ Len(<<BackSpace>>) \in 0..2
        OBVIOUS
    <2> QED
        BY <2>1, <2>2, SayIs
<1>3. shell'.line = Front(k)
    <2> DEFINE line == Front(k)
    <2>1. shell' = [shell EXCEPT !.at = "read", !.line = line] /\ "line" \in DOMAIN shell
        BY DEF GotBackSpace, TextOK, Text
    <2> HIDE DEF line
    <2>2. shell'.line = line
        BY <2>1
    <2> QED
        BY <2>2 DEF line
<1>4. IsText(l) /\ LastLine(serial') = OnLine(l, <<4, BackSpace>>)
    BY <1>1, <1>2, LineOfOne
<1>5. OnLine(l, <<4, BackSpace>>) = IF l = <<>> THEN l ELSE q
    BY OnLineShows
<1>6. IsText(p) /\ Len(p) > 0 /\ Prompt \o Front(k) = r
    BY <1>1, BehindPrompt
<1> HIDE DEF k, l, p
<1>7. Len(l) > 0 /\ Closes(r, q)
    BY <1>1, <1>4, <1>6, ClosesLess
<1>8. l # <<>>
    BY <1>7
<1> HIDE DEF q, r
<1>9. Prompt \o shell'.line = r /\ LastLine(serial') = q
    BY <1>3, <1>4, <1>5, <1>6, <1>8, Zenon
<1> QED
    BY <1>7, <1>9, PromptStays, Zenon DEF Echoed

\* Where the shell is when it is not reading.
LEMMA OthersLeave ==
    ASSUME ShellInv, HasShell,
           \/ GotNewLine \/ Split \/ SplitTooLong \/ Put \/ Echo \/ Pid \/ Quit \/ OpenArgument \/ Pump
           \/ List \/ CloseFile \/ Launch \/ ChildExec \/ ChildFails \/ ChildPrints \/ ChildExits \/ Waited
    PROVE  shell'.at \notin {"read", "got"}
<1> DEFINE Elsewhere == {"split", "run", "put", "list", "pump", "close", "wait", "ended", "prompt"}
<1>1. {"at", "then"} \subseteq DOMAIN shell
    BY DEF ShellInv, Fields
<1>2. (\E at \in Elsewhere : shell' = [shell EXCEPT !.at = at]) => shell'.at \in Elsewhere
    BY <1>1
<1>3. (\E todo, then : shell' = [shell EXCEPT !.at = "put", !.todo = todo, !.then = then]) => shell'.at \in Elsewhere
    BY <1>1
<1>4. CASE GotNewLine \/ SplitTooLong \/ Quit \/ CloseFile \/ Waited
    BY <1>2, <1>4 DEF GotNewLine, SplitTooLong, Quit, CloseFile, Waited
<1>5. CASE Split
    <2>1. PICK cmd, arg : shell' = [shell EXCEPT !.at = "run", !.cmd = cmd, !.arg = arg]
        BY <1>5 DEF Split
    <2> QED
        BY <1>1, <2>1
<1>6. CASE Put
    <2>1. /\ shell.at = "put" /\ stopped = "" /\ (shell.then = "prompt" \/ Abroad(shell.then))
        BY <1>6 DEF Put, At, Runs, ShellInv
    <2>2. PICK todo, out, at : shell' = [shell EXCEPT !.todo = todo, !.out = out, !.at = at] /\ at \in {shell.then, "put"}
        BY <1>6 DEF Put
    <2> QED
        BY <1>1, <2>1, <2>2 DEF Abroad
<1>7. CASE Echo \/ Pid
    BY <1>3, <1>7 DEF Echo, Pid, Prints
<1>8. CASE OpenArgument
    <2>1. \/ shell' = [shell EXCEPT !.at = "ended"]
          \/ \E todo, then : shell' = [shell EXCEPT !.at = "put", !.todo = todo, !.then = then]
          \/ \E fd : \E at \in {"list", "pump"} : shell' = [shell EXCEPT !.at = at, !.fd = fd]
        BY <1>8 DEF OpenArgument, Prints
    <2>2. CASE \E fd : \E at \in {"list", "pump"} : shell' = [shell EXCEPT !.at = at, !.fd = fd]
        BY <1>1, <2>2
    <2> QED
        BY <1>2, <1>3, <2>1, <2>2
<1>9. CASE Pump \/ List
    BY <1>2, <1>3, <1>9 DEF Pump, List, Prints
<1>10. CASE Launch
    <2>1. PICK child : shell' = [shell EXCEPT !.at = "wait", !.child = child]
        BY <1>10 DEF Launch
    <2> QED
        BY <1>1, <2>1
<1>11. CASE ChildExec \/ ChildFails \/ ChildPrints \/ ChildExits
    <2>1. /\ shell.at = "wait"
          /\ \/ shell' = [shell EXCEPT !.at = "ended"]
             \/ \E child : shell' = [shell EXCEPT !.child = child]
        BY <1>11, Zenon DEF ChildExec, ChildFails, ChildPrints, ChildExits, ChildDoes, ChildThen
    <2>2. CASE \E child : shell' = [shell EXCEPT !.child = child]
        BY <1>1, <2>1, <2>2
    <2> QED
        BY <1>2, <2>1, <2>2
<1> QED
    BY <1>4, <1>5, <1>6, <1>7, <1>8, <1>9, <1>10, <1>11

LEMMA EchoedStep ==
    ASSUME ShellInv, TextOK, Pictured, Echoed, [ShellNext]_<<filesVars, shellVars>>
    PROVE  Echoed'
<1>1. CASE shell' = shell /\ serial' = serial
    BY <1>1, PromptStays, Zenon DEF Echoed, HasShell
<1>2. CASE shell.at = "none" /\ UNCHANGED shellVars
    BY <1>2 DEF shellVars, Echoed, HasShell
<1>3. CASE HasShell /\ ShellStep
    <2>1. CASE ShowPrompt \/ GotBackSpace \/ GotCharacter \/ GotOther
        <3>1. files[Me][0] = StartFiles[0] /\ shell.at # "none"
            BY <1>3, <2>1 DEF ShellInv, ShowPrompt, GotBackSpace, GotCharacter, GotOther, At, Runs, Home, Tidy, HasShell
        <3>2. CASE GotOther \/ (GotBackSpace /\ shell.line = <<>>)
            <4>1. PICK at : shell' = [shell EXCEPT !.at = at, !.line = shell.line] /\ shell.at = "got" /\ serial' = serial
                <5>1. CASE GotOther
                    BY <5>1, <1>3 DEF GotOther, At, filesVars, TextOK, Text
                <5>2. CASE GotBackSpace /\ shell.line = <<>>
                    BY <5>2, Zenon DEF GotBackSpace, At, filesVars
                <5> QED
                    BY <3>2, <5>1, <5>2
            <4>2. shell'.line = shell.line
                BY <1>3, <4>1 DEF TextOK, Text
            <4> QED
                BY <4>1, <4>2, EchoedStays
        <3> QED
            BY <1>3, <2>1, <3>1, <3>2, EchoPrompt, EchoBackSpace, EchoCharacter
    <2>2. CASE ~(ShowPrompt \/ GotBackSpace \/ GotCharacter \/ GotOther)
        <3>1. shell'.at \notin {"read", "got"}
            BY <1>3, <2>2, OthersLeave DEF ShellStep
        <3> QED
            BY <3>1 DEF Echoed
    <2> QED
        BY <2>1, <2>2
<1>4. ASSUME NEW code, Key(code) PROVE Echoed'
    <2>1. serial' = serial
        BY <1>4 DEF Key, filesVars
    <2>2. CASE shell' # shell
        <3>1. PICK char : shell' = [shell EXCEPT !.at = "got", !.char = char] /\ shell.at = "read"
            BY <1>4, <2>2 DEF Key
        <3>2. shell'.line = shell.line
            BY <3>1 DEF TextOK, Text, HasShell
        <3> QED
            BY <2>1, <3>1, <3>2, EchoedStays
    <2> QED
        BY <1>1, <2>1, <2>2
<1> QED
    BY <1>1, <1>2, <1>3, <1>4 DEF ShellNext, FilesStopped, Quiet, HasShell, shellVars, filesVars

-----------------------------------------------------------------------------
(***************************************************************************)
(* The variables keep their types, and the prompt and the line are shown.  *)
(***************************************************************************)

\* Nothing lives once the kernel has stopped, and no more is written than the bound.
Within == (stopped # "" => alive = {}) /\ Len(serial) <= machine.printed

LEMMA WithinStep ==
    ASSUME Pictured, Within, [ShellNext]_<<filesVars, shellVars>>
    PROVE  Within'
<1>1. CASE \E why : Stop(why)
    BY <1>1 DEF Stop, Within
<1>2. CASE Quietly
    BY <1>2 DEF Quietly, Within
<1>3. ASSUME NEW node, NEW text, TtyWrite(node, text) PROVE Within'
    <2> DEFINE sent == [i \in 1..Len(text) |-> <<node, text[i]>>]
               n == Len(text)
    <2>1. n \in 0..machine.printed - Len(serial) /\ serial' = serial \o sent
          /\ machine' = machine /\ alive' = alive /\ stopped' = stopped
        BY <1>3, Zenon DEF TtyWrite
    <2>2. Len(serial) \in Nat /\ IsText(serial) /\ machine.printed \in Nat
        <3>1. machine.printed \in Nat
            BY MachineAssumption, Zenon DEF Pictured
        <3>2. PICK X : serial \in Seq(X)
            BY Zenon DEF Pictured, IsText
        <3>3. Len(serial) \in Nat
            BY <3>2
        <3> QED
            BY <3>1, <3>3 DEF Pictured
    <2>3. n \in Nat /\ n + Len(serial) <= machine.printed
        BY <2>1, <2>2
    <2>4. Len(serial \o sent) = Len(serial) + n
        <3>1. PICK X : serial \in Seq(X)
            BY <2>2 DEF IsText
        <3> DEFINE Y == {<<node, text[i]>> : i \in 1..n}
                   Z == X \cup Y
        <3>2. sent \in Seq(Y) /\ Len(sent) = n
            BY <2>3
        <3> HIDE DEF sent, n, Y
        <3>3. serial \in Seq(Z) /\ sent \in Seq(Z)
            BY <3>1, <3>2, SeqWiden
        <3> HIDE DEF Z
        <3>4. Len(serial \o sent) = Len(serial) + Len(sent)
            BY <3>3
        <3> QED
            BY <3>2, <3>4
    <2> HIDE DEF sent, n
    <2>5. Len(serial') <= machine.printed
        BY <2>1, <2>2, <2>3, <2>4
    <2> QED
        BY <2>1, <2>5 DEF Within
<1> QED
    BY <1>1, <1>2, <1>3, NextWrites DEF Writes

\* The files have their types.
LEMMA FilesTyped ==
    ASSUME Placed, Kept, Pictured, Within
    PROVE  FilesTypeOK
<1>1. machine \in Machine /\ alive \subseteq Task /\ (stopped # "" => alive = {}) /\ Len(serial) <= machine.printed
    BY DEF Placed, Within
<1>2. \A t \in Task, fd \in Fd : files[t][fd].kind \in {"none", "dev", "reg", "devfs", "initramfs"}
    BY DEF Kept, Firm
<1>3. \A f \in OpenNow : f.kind = "reg" => f.pos \in Nat /\ f.left \in Nat
    <2> SUFFICES ASSUME NEW f \in OpenNow, f.kind = "reg" PROVE f.pos \in Nat /\ f.left \in Nat
        OBVIOUS
    <2>1. PICK t \in Task, fd \in Fd : f = files[t][fd]
        BY <1>1 DEF OpenNow, FilesOf
    <2> QED
        BY <2>1 DEF Placed, Sound
<1>4. screen.x \in Col /\ screen.y \in Row /\ DOMAIN screen.cell = Row \X Col
    <2> DEFINE q == Paper(Page, serial)
               cell == [p \in Row \X Col |-> Spot(q, Above(q) + p[1] + 1, p[2] + 1)]
    <2>1. q \in Sheets /\ screen = EndOf(q)
        BY DEF Pictured
    <2>2. /\ screen.cell = cell /\ DOMAIN cell = Row \X Col
          /\ screen.x \in 0..Width - 1 /\ screen.y \in 0..Height - 2
        BY <2>1, EndFacts
    <2> HIDE DEF cell
    <2> QED
        BY <2>2, ConsoleAssumption DEF Col, Row
<1> QED
    BY <1>1, <1>2, <1>3, <1>4 DEF FilesTypeOK

\* The shell is where its code is, and its line and its command fit into their buffers. A
\* line that is read on has room for a character more.
Then == {"prompt", "list", "pump"}
Typing == {"at", "then", "line", "cmd", "fd"}
ShellTyped ==
    HasShell =>
        /\ Typing \subseteq DOMAIN shell
        /\ shell.at \in Places /\ shell.then \in Then /\ shell.fd \in Fd
        /\ Len(shell.line) < LineSize /\ Len(shell.cmd) < CmdSize
        /\ shell.at \in {"read", "got"} => Len(shell.line) < LineSize - 1

LEMMA TypedStays ==
    ASSUME ShellTyped, HasShell, Typing \subseteq DOMAIN shell', shell'.at \in Places \ {"read", "got"},
           shell'.then \in Then, shell'.fd \in Fd, shell'.line = shell.line, shell'.cmd = shell.cmd
    PROVE  ShellTyped'
BY DEF ShellTyped

LEMMA LineTyped ==
    ASSUME ShellTyped, TextOK, HasShell, ShowPrompt \/ GotBackSpace \/ GotCharacter \/ GotNewLine \/ GotOther \/ Split
    PROVE  ShellTyped'
<1>1. /\ Typing \subseteq DOMAIN shell /\ shell.line \in Seq(Printable) /\ Len(shell.line) \in Nat
      /\ {LineSize, CmdSize} \subseteq Nat \ {0} /\ LineSize > 1
    BY ShellAssumption DEF ShellTyped, TextOK
<1>2. CASE ShowPrompt
    <2>1. shell' = [FirstPrompt(Me) EXCEPT !.at = "read"]
        BY <1>2 DEF ShowPrompt
    <2>2. /\ Typing \subseteq DOMAIN shell' /\ shell'.at = "read" /\ shell'.then = "prompt" /\ shell'.fd = 0
          /\ shell'.line = <<>> /\ shell'.cmd = <<>>
        BY <2>1 DEF FirstPrompt, Typing
    <2>3. 0 < LineSize /\ 0 < CmdSize /\ 0 < LineSize - 1
        BY <1>1
    <2>4. Len(shell'.line) = 0 /\ Len(shell'.cmd) = 0
        BY <2>2
    <2> QED
        BY <2>2, <2>3, <2>4, StartFacts DEF ShellTyped, Places, Then
<1>3. CASE GotBackSpace
    <2> DEFINE line == IF shell.line = <<>> THEN shell.line ELSE Front(shell.line)
    <2>1. shell' = [shell EXCEPT !.at = "read", !.line = line] /\ shell.at = "got"
        BY <1>3 DEF GotBackSpace, At
    <2>2. Len(line) \in Nat /\ Len(line) <= Len(shell.line)
        BY <1>1 DEF Front
    <2>3. Len(shell.line) < LineSize - 1
        BY <2>1 DEF ShellTyped
    <2>4. Len(line) < LineSize /\ Len(line) < LineSize - 1
        BY <1>1, <2>2, <2>3
    <2> HIDE DEF line
    <2>5. /\ Typing \subseteq DOMAIN shell' /\ shell'.at = "read" /\ shell'.then = shell.then /\ shell'.fd = shell.fd
          /\ shell'.line = line /\ shell'.cmd = shell.cmd
        BY <1>1, <2>1 DEF Typing
    <2> QED
        BY <2>4, <2>5 DEF ShellTyped, Places
<1>4. CASE GotCharacter
    <2> DEFINE line == Append(shell.line, shell.char)
               at == IF Len(line) < LineSize - 1 THEN "read" ELSE "split"
    <2>1. shell' = [shell EXCEPT !.line = line, !.at = at] /\ shell.at = "got" /\ shell.char \in Printable
        BY <1>4 DEF GotCharacter, At, IsPrinted
    <2>2. Len(line) = Len(shell.line) + 1
        BY <1>1, <2>1
    <2>3. Len(shell.line) < LineSize - 1
        BY <2>1 DEF ShellTyped
    <2>4. Len(line) < LineSize /\ (at = "read" => Len(line) < LineSize - 1) /\ at \in {"read", "split"}
        BY <1>1, <2>2, <2>3
    <2> HIDE DEF line, at
    <2>5. /\ Typing \subseteq DOMAIN shell' /\ shell'.at = at /\ shell'.then = shell.then /\ shell'.fd = shell.fd
          /\ shell'.line = line /\ shell'.cmd = shell.cmd
        BY <1>1, <2>1 DEF Typing
    <2> QED
        BY <2>4, <2>5 DEF ShellTyped, Places
<1>5. CASE GotNewLine \/ GotOther
    <2>1. PICK at \in {"split", "read"} : shell' = [shell EXCEPT !.at = at] /\ shell.at = "got"
        BY <1>5 DEF GotNewLine, GotOther, At
    <2>2. /\ Typing \subseteq DOMAIN shell' /\ shell'.at = at /\ shell'.then = shell.then /\ shell'.fd = shell.fd
          /\ shell'.line = shell.line /\ shell'.cmd = shell.cmd
        BY <1>1, <2>1 DEF Typing
    <2> QED
        BY <2>1, <2>2 DEF ShellTyped, Places
<1>6. CASE Split
    <2> DEFINE n == FirstSpace(shell.line)
               cmd == SubSeq(shell.line, 1, n - 1)
               m == n - 1
    <2>1. n - 1 < CmdSize /\ \E arg : shell' = [shell EXCEPT !.at = "run", !.cmd = cmd, !.arg = arg]
        BY <1>6, Zenon DEF Split
    <2>2. n \in Nat \ {0} /\ n <= Len(shell.line) + 1
        BY <1>1, SpaceIs
    <2> HIDE DEF n
    <2>3. m \in Nat /\ m <= Len(shell.line) /\ m < CmdSize
        BY <1>1, <2>1, <2>2
    <2>4. cmd = SubSeq(shell.line, 1, m)
        OBVIOUS
    <2> HIDE DEF m, cmd
    <2>5. Len(cmd) = m
        BY <1>1, <2>3, <2>4
    <2>6. /\ Typing \subseteq DOMAIN shell' /\ shell'.at = "run" /\ shell'.then = shell.then /\ shell'.fd = shell.fd
          /\ shell'.line = shell.line /\ shell'.cmd = cmd
        BY <1>1, <2>1 DEF Typing
    <2> QED
        BY <2>3, <2>5, <2>6 DEF ShellTyped, Places
<1> QED
    BY <1>2, <1>3, <1>4, <1>5, <1>6

LEMMA RestTyped ==
    ASSUME ShellInv, ShellTyped, HasShell,
           \/ SplitTooLong \/ Put \/ Echo \/ Pid \/ Quit \/ OpenArgument \/ Pump \/ List \/ CloseFile
           \/ Launch \/ ChildExec \/ ChildFails \/ ChildPrints \/ ChildExits \/ Waited
    PROVE  ShellTyped'
<1> DEFINE Elsewhere == Places \ {"read", "got"}
<1>1. Typing \subseteq DOMAIN shell /\ shell.then \in Then /\ shell.fd \in Fd
    BY DEF ShellTyped
<1>2. ASSUME NEW at \in Elsewhere, shell' = [shell EXCEPT !.at = at] PROVE ShellTyped'
    BY <1>1, <1>2, TypedStays DEF Typing
<1>3. ASSUME NEW todo, NEW then \in Then, shell' = [shell EXCEPT !.at = "put", !.todo = todo, !.then = then]
      PROVE  ShellTyped'
    BY <1>1, <1>3, TypedStays DEF Typing, Places
<1>4. CASE SplitTooLong \/ Quit \/ CloseFile \/ Waited
    BY <1>2, <1>4 DEF SplitTooLong, Quit, CloseFile, Waited, Places
<1>5. CASE Put
    <2>1. PICK todo, out, at : shell' = [shell EXCEPT !.todo = todo, !.out = out, !.at = at] /\ at \in {shell.then, "put"}
        BY <1>5 DEF Put
    <2>2. at \in Elsewhere
        BY <1>1, <2>1 DEF Then, Places
    <2> QED
        BY <1>1, <2>1, <2>2, TypedStays DEF Typing
<1>6. CASE Echo \/ Pid
    BY <1>3, <1>6 DEF Echo, Pid, Prints, Then
<1>7. CASE OpenArgument
    <2>1. \/ shell' = [shell EXCEPT !.at = "ended"]
          \/ \E todo : shell' = [shell EXCEPT !.at = "put", !.todo = todo, !.then = "prompt"]
          \/ FreeFds(Me) # {} /\ \E at \in {"list", "pump"} : shell' = [shell EXCEPT !.at = at, !.fd = Min(FreeFds(Me))]
        BY <1>7 DEF OpenArgument, Prints, Open
    <2>2. CASE FreeFds(Me) # {} /\ \E at \in {"list", "pump"} : shell' = [shell EXCEPT !.at = at, !.fd = Min(FreeFds(Me))]
        <3> DEFINE m == Min(FreeFds(Me))
        <3>1. m \in Fd
            BY <2>2, LeastFd DEF FreeFds
        <3> HIDE DEF m
        <3>2. PICK at \in {"list", "pump"} : shell' = [shell EXCEPT !.at = at, !.fd = m]
            BY <2>2 DEF m
        <3> QED
            BY <1>1, <3>1, <3>2, TypedStays DEF Typing, Places
    <2> QED
        BY <1>2, <1>3, <2>1, <2>2 DEF Places, Then
<1>8. CASE Pump \/ List
    BY <1>2, <1>3, <1>8 DEF Pump, List, Prints, Places, Then
<1>9. CASE Launch
    <2>1. PICK child : shell' = [shell EXCEPT !.at = "wait", !.child = child]
        BY <1>9 DEF Launch
    <2> QED
        BY <1>1, <2>1, TypedStays DEF Typing, Places
<1>10. CASE ChildExec \/ ChildFails \/ ChildPrints \/ ChildExits
    <2>1. /\ shell.at = "wait"
          /\ \/ shell' = [shell EXCEPT !.at = "ended"]
             \/ \E child : shell' = [shell EXCEPT !.child = child]
        BY <1>10, Zenon DEF ChildExec, ChildFails, ChildPrints, ChildExits, ChildDoes, ChildThen
    <2>2. CASE shell' = [shell EXCEPT !.at = "ended"]
        BY <1>2, <2>2 DEF Places
    <2>3. CASE \E child : shell' = [shell EXCEPT !.child = child]
        BY <1>1, <2>1, <2>3, TypedStays DEF Typing, Places
    <2> QED
        BY <2>1, <2>2, <2>3
<1> QED
    BY <1>4, <1>5, <1>6, <1>7, <1>8, <1>9, <1>10

LEMMA TypedStep ==
    ASSUME ShellInv, TextOK, ShellTyped, [ShellNext]_<<filesVars, shellVars>>
    PROVE  ShellTyped'
<1>1. CASE shell' = shell
    BY <1>1 DEF ShellTyped, HasShell
<1>2. CASE shell.at # "none" /\ ShellStep
    BY <1>2, LineTyped, RestTyped DEF ShellStep, HasShell
<1>3. ASSUME NEW code, Key(code), shell' # shell PROVE ShellTyped'
    <2>1. PICK char : shell' = [shell EXCEPT !.at = "got", !.char = char] /\ shell.at = "read"
        BY <1>3 DEF Key
    <2>2. /\ Typing \subseteq DOMAIN shell' /\ shell'.at = "got" /\ shell'.then = shell.then /\ shell'.fd = shell.fd
          /\ shell'.line = shell.line /\ shell'.cmd = shell.cmd
        BY <2>1 DEF Typing, ShellTyped, HasShell
    <2> QED
        BY <2>1, <2>2 DEF ShellTyped, HasShell, Places
<1> QED
    BY <1>1, <1>2, <1>3 DEF ShellNext, Quiet, shellVars

\* All of it together: what is needed of the shell, of its files and of the screen for
\* what is read to be what is shown.
EchoInv ==
    /\ ShellInv /\ KeysInv /\ Placed /\ TextOK /\ Kept
    /\ Pictured /\ Within /\ ShellTyped /\ Echoed

LEMMA EchoFirst ==
    ASSUME ShellInit
    PROVE  EchoInv
<1>1. ShellInv /\ Placed /\ TextOK /\ Kept /\ Pictured
    BY ShellFirstInv, PlacedAtFirst, FollowsAtFirst, PicturedAtFirst
<1>2. KeysInv
    BY DEF ShellInit, KeysInv, ShiftSound, NoKeys
<1>3. Within
    <2>1. stopped = "" /\ Len(serial) = 0 /\ machine \in Machine
        BY DEF ShellInit, FilesInit
    <2>2. machine.printed \in Nat
        BY <2>1, MachineAssumption
    <2>3. Len(serial) <= machine.printed
        <3>1. \A n \in Nat : 0 <= n
            OBVIOUS
        <3> QED
            BY <2>1, <2>2, <3>1, Zenon
    <2> QED
        BY <2>1, <2>3, Zenon DEF Within
<1>4. ShellTyped /\ Echoed
    <2> SUFFICES ASSUME HasShell PROVE ShellTyped /\ Echoed
        BY DEF ShellTyped, Echoed
    <2>1. PICK t : shell = FirstPrompt(t)
        BY DEF ShellInit, HasShell, NoShell
    <2>2. /\ Typing \subseteq DOMAIN shell /\ shell.at = "prompt" /\ shell.then = "prompt" /\ shell.fd = 0
          /\ Len(shell.line) = 0 /\ Len(shell.cmd) = 0
        BY <2>1 DEF FirstPrompt, Typing
    <2>3. LineSize > 0 /\ CmdSize > 0
        BY ShellAssumption
    <2> QED
        BY <2>2, <2>3, StartFacts DEF ShellTyped, Echoed, Places, Then
<1> QED
    BY <1>1, <1>2, <1>3, <1>4 DEF EchoInv

LEMMA EchoStep ==
    ASSUME EchoInv, [ShellNext]_<<filesVars, shellVars>>
    PROVE  EchoInv'
<1>1. ShellInv' /\ KeysInv' /\ Placed' /\ TextOK' /\ Kept'
    BY ShellNextInv, KeysStep, PlacedStep, FollowsStep DEF EchoInv
<1>2. Pictured' /\ Within' /\ ShellTyped' /\ Echoed'
    BY PicturedStep, WithinStep, TypedStep, EchoedStep DEF EchoInv
<1> QED
    BY <1>1, <1>2 DEF EchoInv

\* The last line of a text is one.
LEMMA LineIsText ==
    ASSUME NEW v, IsText(v)
    PROVE  IsText(LastLine(v))
<1> DEFINE u == Append(v, "")
<1> HIDE DEF u
<1> QED
    BY LineGoesOn DEF u

LEMMA ShellTypes ==
    ASSUME EchoInv
    PROVE  ShellTypeOK
<1>1. FilesTypeOK
    BY FilesTyped DEF EchoInv
<1> QED
    BY <1>1 DEF EchoInv, KeysInv, ShellInv, ShellTyped, ShellTypeOK, Me

\* While the shell waits for a key, the last line of its terminal is its prompt and what
\* readline has kept: whatever was typed or rubbed out before, however fast, whatever its
\* commands and its children have printed, and whenever the keys came; and the line always
\* fits into its buffer, the command into its own.
THEOREM EchoIsRight == ShellSpec => []EchoAgrees
<1>1. ShellInit => EchoInv
    BY EchoFirst
<1>2. EchoInv /\ [ShellNext]_<<filesVars, shellVars>> => EchoInv'
    BY EchoStep
<1>3. EchoInv => EchoAgrees
    <2> SUFFICES ASSUME EchoInv, HasShell, shell.at = "read" PROVE IsSuffix(Prompt \o shell.line, LastLine(serial))
        BY ShellTypes DEF EchoAgrees
    <2>1. IsText(Prompt \o shell.line)
        BY BehindPrompt DEF EchoInv, TextOK
    <2>2. IsText(LastLine(serial))
        BY LineIsText DEF EchoInv, Pictured
    <2>3. Closes(Prompt \o shell.line, LastLine(serial))
        BY DEF EchoInv, Echoed
    <2> QED
        BY <2>1, <2>2, <2>3, ClosesIsSuffix
<1> QED
    BY <1>1, <1>2, <1>3, PTL DEF ShellSpec

-----------------------------------------------------------------------------
(***************************************************************************)
(* What a whole listing gives.                                             *)
(***************************************************************************)

\* What a walk has listed after some steps: of the entries that were ahead at first, those
\* that are not ahead any more, in their order.
ListStep(a, dir, w) ==
    LET e == ReadEntry(a, dir, w.at)
    IN  [at |-> e.at, names |-> IF e.ok THEN Append(w.names, e.name) ELSE w.names]

EntryNames(a, dir) == {EntryName(dir, a[i].name) : i \in 1..Len(a)}
UpTo(s, i) == {j \in s : j <= i}
Past(a, dir, from, at) == Ahead(a, dir, from) \ Ahead(a, dir, at)

ListedSo(a, dir, from) ==
    {w \in [at : Stations(a, dir), names : Seq(EntryNames(a, dir))] :
        /\ Ahead(a, dir, w.at) \subseteq Ahead(a, dir, from)
        /\ \A i \in Past(a, dir, from, w.at), j \in Ahead(a, dir, w.at) : i < j
        /\ Len(w.names) = Cardinality(Past(a, dir, from, w.at))
        /\ \A i \in Past(a, dir, from, w.at) :
                w.names[Cardinality(UpTo(Ahead(a, dir, from), i))] = EntryName(dir, a[i].name)}

LEMMA AheadIs ==
    ASSUME NEW a \in Seq(Record), NEW dir, NEW at, NEW S, S \subseteq Ahead(a, dir, at)
    PROVE  /\ S \subseteq 1..Len(a) /\ IsFiniteSet(S) /\ Cardinality(S) \in Nat /\ Cardinality(S) <= Len(a)
<1>1. Len(a) \in Nat /\ 1 \in Int /\ Len(a) \in Int
    OBVIOUS
<1>2. S \subseteq 1..Len(a)
    BY DEF Ahead, InDirectory
<1>3. IsFiniteSet(1..Len(a)) /\ Cardinality(1..Len(a)) = Len(a)
    <2>1. Cardinality(1..Len(a)) = IF 1 > Len(a) THEN 0 ELSE Len(a) - 1 + 1
        BY <1>1, FS_Interval
    <2> QED
        BY <1>1, <2>1, FS_Interval
<1>4. IsFiniteSet(S) /\ Cardinality(S) <= Cardinality(1..Len(a))
    BY <1>2, <1>3, FS_Subset
<1> QED
    BY <1>2, <1>3, <1>4, FS_CardinalityType

\* One more call lists one more entry, or there is none.
Advances(a, dir, w, v) == Ahead(a, dir, v.at) = {} \/ (Ahead(a, dir, w.at) # {} /\ Len(v.names) = Len(w.names) + 1)

LEMMA ListGoesOn ==
    ASSUME NEW a \in Seq(Record), NEW dir, Steady(a, dir),
           \A i \in 1..Len(a) : PathMatch(dir, a[i].name) <=> IsIn(dir, a[i].name),
           NEW from, NEW w \in ListedSo(a, dir, from), NEW v, v = ListStep(a, dir, w)
    PROVE  /\ v \in ListedSo(a, dir, from)
           /\ Advances(a, dir, w, v)
<1> DEFINE e == ReadEntry(a, dir, w.at)
           first == Ahead(a, dir, from)
           ahead == Ahead(a, dir, w.at)
           past == Past(a, dir, from, w.at)
<1>1. /\ w.at \in Stations(a, dir) /\ w.names \in Seq(EntryNames(a, dir))
      /\ ahead \subseteq first /\ past = first \ ahead
      /\ \A i \in past, j \in ahead : i < j
      /\ Len(w.names) = Cardinality(past)
      /\ \A i \in past : w.names[Cardinality(UpTo(first, i))] = EntryName(dir, a[i].name)
    BY Zenon DEF ListedSo, Past
<1>2. /\ v.at = e.at /\ v.names = IF e.ok THEN Append(w.names, e.name) ELSE w.names
      /\ v = [at |-> v.at, names |-> v.names]
    BY DEF ListStep
<1>3. /\ e.at \in Stations(a, dir)
      /\ ahead = {} => ~e.ok /\ e.at = Naddr
      /\ ahead # {} =>
            /\ e.ok /\ e.name = EntryName(dir, a[Min(ahead)].name)
            /\ Ahead(a, dir, e.at) = ahead \ {Min(ahead)}
    BY <1>1, ReadEntryIs
<1> HIDE DEF e
<1>4. CASE ahead = {}
    <2>1. v.names = w.names /\ Ahead(a, dir, v.at) = {}
        BY <1>2, <1>3, <1>4 DEF Ahead
    <2>2. Past(a, dir, from, v.at) = past
        BY <1>4, <2>1 DEF Past
    <2> HIDE DEF first, ahead, past
    <2>3. v \in [at : Stations(a, dir), names : Seq(EntryNames(a, dir))]
        BY <1>1, <1>2, <1>3, <2>1
    <2>4. /\ Ahead(a, dir, v.at) \subseteq Ahead(a, dir, from)
          /\ \A i \in Past(a, dir, from, v.at), j \in Ahead(a, dir, v.at) : i < j
        BY <2>1
    <2>5. /\ Len(v.names) = Cardinality(Past(a, dir, from, v.at))
          /\ \A i \in Past(a, dir, from, v.at) :
                v.names[Cardinality(UpTo(Ahead(a, dir, from), i))] = EntryName(dir, a[i].name)
        BY <1>1, <2>1, <2>2 DEF first
    <2> QED
        BY <2>1, <2>3, <2>4, <2>5, Zenon DEF ListedSo, Advances
<1>5. CASE ahead # {}
    <2> DEFINE m == Min(ahead)
               more == Past(a, dir, from, v.at)
    <2>1. ahead \subseteq 1..Len(a) /\ first \subseteq 1..Len(a) /\ Len(a) \in Nat
        <3>1. \A at : Ahead(a, dir, at) \subseteq 1..Len(a)
            BY AheadIs
        <3> QED
            BY <3>1
    <2>2. m \in ahead /\ \A i \in ahead : m <= i
        <3>1. ahead \in SUBSET Nat
            BY <2>1
        <3> HIDE DEF ahead
        <3> QED
            BY <1>5, <3>1, LeastOf
    <2>3. Ahead(a, dir, v.at) = ahead \ {m} /\ v.names = Append(w.names, EntryName(dir, a[m].name))
        BY <1>2, <1>3, <1>5
    <2>4. more = past \cup {m} /\ m \notin past
        BY <1>1, <2>2, <2>3 DEF Past
    <2>5. IsFiniteSet(past) /\ past \subseteq first /\ Cardinality(past) \in Nat
        BY <1>1, AheadIs
    <2>6. \A i \in first : UpTo(first, i) \subseteq first /\ IsFiniteSet(UpTo(first, i)) /\ Cardinality(UpTo(first, i)) \in Nat
        <3>1. \A i \in first : UpTo(first, i) \subseteq first
            BY DEF UpTo
        <3> QED
            BY <3>1, AheadIs
    <2> DEFINE x == EntryName(dir, a[m].name)
    <2>7. x \in EntryNames(a, dir)
        BY <2>1, <2>2 DEF EntryNames
    <2> HIDE DEF first, ahead, past, m, more, x
    <2>8. Cardinality(more) = Cardinality(past) + 1
        BY <2>4, <2>5, FS_AddElement
    <2>9. /\ v.names \in Seq(EntryNames(a, dir)) /\ Len(v.names) = Len(w.names) + 1
          /\ v.names[Len(w.names) + 1] = x
          /\ \A k \in 1..Len(w.names) : v.names[k] = w.names[k]
        <3>1. v.names = Append(w.names, x)
            BY <2>3 DEF x
        <3> QED
            <4>1. w.names \in Seq(EntryNames(a, dir))
                BY <1>1, Zenon
            <4> QED
                BY <2>7, <3>1, <4>1, AppendIs
    <2>10. UpTo(first, m) = more
        <3>1. \A j \in first : j <= m <=> j \in past \cup {m}
            <4>1. \A j \in first : j \in past \/ j \in ahead
                BY <1>1
            <4>2. \A j \in first : j \in Nat
                BY <2>1
            <4>3. m \in first /\ m \in Nat
                BY <1>1, <2>1, <2>2
            <4> QED
                BY <1>1, <2>2, <4>1, <4>2, <4>3
        <3>2. more \subseteq first
            BY <1>1, <2>2, <2>4
        <3> QED
            BY <2>4, <3>1, <3>2 DEF UpTo
    <2>11. v.names[Cardinality(UpTo(first, m))] = x
        BY <1>1, <2>8, <2>9, <2>10
    <2>12. ASSUME NEW i \in past
           PROVE  v.names[Cardinality(UpTo(first, i))] = EntryName(dir, a[i].name)
        <3>1. i \in first /\ i \in Nat
            BY <2>1, <2>5
        <3>2. UpTo(first, i) \subseteq past
            <4>1. \A j \in first : j <= i => j \notin ahead
                <5>1. \A j \in ahead : j \in Nat /\ i < j
                    BY <1>1, <2>1
                <5> QED
                    BY <3>1, <5>1
            <4> QED
                BY <1>1, <4>1 DEF UpTo
        <3>3. Cardinality(UpTo(first, i)) <= Cardinality(past)
            BY <2>5, <3>2, FS_Subset
        <3>4. i \in UpTo(first, i)
            BY <3>1 DEF UpTo
        <3>5. Cardinality(UpTo(first, i)) # 0
            BY <2>6, <3>1, <3>4, FS_EmptySet
        <3>6. Cardinality(UpTo(first, i)) \in 1..Len(w.names)
            BY <1>1, <2>5, <2>6, <3>1, <3>3, <3>5
        <3> QED
            BY <1>1, <2>9, <3>6
    <2>13. \A i \in more : v.names[Cardinality(UpTo(first, i))] = EntryName(dir, a[i].name)
        BY <2>4, <2>11, <2>12 DEF x
    <2>14. Ahead(a, dir, v.at) \subseteq first /\ \A i \in more, j \in Ahead(a, dir, v.at) : i < j
        <3>1. \A j \in ahead \ {m} : m < j
            BY <2>1, <2>2
        <3> QED
            BY <1>1, <2>3, <2>4, <3>1 DEF m, ahead
    <2>15. v \in [at : Stations(a, dir), names : Seq(EntryNames(a, dir))]
        BY <1>2, <1>3, <2>9
    <2>16. Len(v.names) = Cardinality(more)
        BY <1>1, <2>8, <2>9
    <2>17. v \in ListedSo(a, dir, from)
        BY <2>13, <2>14, <2>15, <2>16, Zenon DEF ListedSo, first, more
    <2> QED
        BY <1>5, <2>9, <2>17 DEF ahead, Advances
<1> QED
    BY <1>4, <1>5

\* A walk of one step more than there are records lists all that was ahead.
LEMMA ListingIs ==
    ASSUME NEW a \in Seq(Record), NEW dir, Steady(a, dir),
           \A i \in 1..Len(a) : PathMatch(dir, a[i].name) <=> IsIn(dir, a[i].name),
           NEW from \in Stations(a, dir)
    PROVE  /\ Len(Listing(a, dir, from)) = Cardinality(Ahead(a, dir, from))
           /\ \A i \in Ahead(a, dir, from) :
                Listing(a, dir, from)[Cardinality(UpTo(Ahead(a, dir, from), i))] = EntryName(dir, a[i].name)
<1> DEFINE N == Len(a) + 1
           S == ListedSo(a, dir, from)
           Op(w) == ListStep(a, dir, w)
           b == [at |-> from, names |-> <<>>]
           q == [i \in 1..N |-> i]
           F == [x \in (1..N) \X S |-> Op(x[2])]
           it == CHOOSE it : it = [s \in SUBSET DOMAIN q |-> IF s = {} THEN b ELSE Op(it[s \ {Max(s)}])]
<1>1. N \in Nat /\ DOMAIN q = 1..N /\ N = Len(a) + 1 /\ Len(a) \in Nat
    OBVIOUS
<1>2. Listing(a, dir, from) = it[DOMAIN q].names
    BY DEF Listing, FoldLeft, MapThenFoldSet, ListStep
<1>3. \A w \in S : Op(w) \in S
    BY ListGoesOn
<1>18. ASSUME NEW w \in ListedSo(a, dir, from), NEW v, v = ListStep(a, dir, w)
       PROVE  /\ v \in ListedSo(a, dir, from)
              /\ Advances(a, dir, w, v)
    BY <1>18, ListGoesOn
<1>4. b \in S /\ b.at = from /\ b.names = <<>>
    <2>1. Past(a, dir, from, from) = {}
        BY DEF Past
    <2>2. Cardinality({}) = 0 /\ Len(<<>>) = 0
        BY FS_EmptySet
    <2>3. b \in [at : Stations(a, dir), names : Seq(EntryNames(a, dir))] /\ b.at = from /\ b.names = <<>>
        OBVIOUS
    <2> HIDE DEF b
    <2> QED
        BY <2>1, <2>2, <2>3 DEF ListedSo
<1> HIDE DEF N, S, Op, b, q
<1>5. F \in [(1..N) \X S -> S] /\ \A k \in 1..N, w \in S : F[<<k, w>>] = Op(w)
    BY <1>3
<1> HIDE DEF F
<1>6. FoldOver(S, N, b, F) # {}
    BY <1>1, <1>4, <1>5, FoldExists
<1>7. PICK g \in [SUBSET (1..N) -> S] :
        g = [s \in SUBSET (1..N) |-> IF s = {} THEN b ELSE F[<<Max(s), g[s \ {Max(s)}]>>]]
    BY <1>6 DEF FoldOver
<1>8. g = [s \in SUBSET (1..N) |-> IF s = {} THEN b ELSE Op(g[s \ {Max(s)}])]
    <2>1. ASSUME NEW s \in SUBSET (1..N), s # {}
          PROVE  g[s] = Op(g[s \ {Max(s)}])
        <3>1. Max(s) \in 1..N /\ s \ {Max(s)} \in SUBSET (1..N)
            BY <1>1, <2>1, GreatestIn
        <3>2. g[s] = F[<<Max(s), g[s \ {Max(s)}]>>] /\ g[s \ {Max(s)}] \in S
            BY <1>7, <2>1, <3>1
        <3> QED
            BY <1>5, <3>1, <3>2
    <2> QED
        BY <1>7, <2>1
<1>9. it = [s \in SUBSET (1..N) |-> IF s = {} THEN b ELSE Op(it[s \ {Max(s)}])]
    BY <1>1, <1>8
<1> HIDE DEF it
<1> DEFINE f == [k \in 0..N |-> it[1..k]]
<1>10. f[0] = b /\ \A k \in 1..N : f[k] = Op(f[k - 1])
    <2>1. it[1..0] = b
        BY <1>1, <1>9, PlacesUpTo
    <2>2. ASSUME NEW k \in 1..N PROVE it[1..k] = Op(it[1..k - 1])
        <3>1. /\ 1..k \in SUBSET (1..N) /\ 1..k # {} /\ Max(1..k) = k /\ (1..k) \ {k} = 1..k - 1
            BY <1>1, PlacesUpTo
        <3>2. it[1..k] = Op(it[(1..k) \ {Max(1..k)}])
            BY <1>9, <3>1
        <3> QED
            BY <3>1, <3>2
    <2>3. 0 \in 0..N /\ \A k \in 1..N : k \in 0..N /\ k - 1 \in 0..N
        BY <1>1
    <2> QED
        BY <2>1, <2>2, <2>3
<1>11. f[N] = it[DOMAIN q]
    BY <1>1
<1> HIDE DEF f
\* After k steps there is nothing ahead any more, or k entries have been listed at least.
<1> DEFINE Far(k) == {w \in S : Ahead(a, dir, w.at) = {} \/ Len(w.names) >= k}
           h == [k \in 0..N |-> <<f[k], k>>]
           T == {p \in S \X Nat : p[1] \in Far(p[2])}
<1>12. h[N] \in T
    <2>1. \A k \in 0..N : h[k] = <<f[k], k>>
        OBVIOUS
    <2>2. \A w, k : <<w, k>> \in T <=> w \in S /\ k \in Nat /\ w \in Far(k)
        OBVIOUS
    <2>3. h[0] \in T
        <3>1. 0 \in 0..N /\ Len(<<>>) = 0
            BY <1>1
        <3>2. b \in Far(0)
            BY <1>4, <3>1
        <3> QED
            BY <1>4, <1>10, <2>1, <2>2, <3>1, <3>2
    <2>4. ASSUME NEW k \in 1..N, h[k - 1] \in T PROVE h[k] \in T
        <3>1. k \in 0..N /\ k - 1 \in 0..N /\ k \in Nat /\ k - 1 \in Nat
            BY <1>1
        <3>2. f[k - 1] \in S /\ f[k - 1] \in Far(k - 1) /\ f[k] = Op(f[k - 1])
            BY <1>10, <2>1, <2>2, <2>4, <3>1
        <3>3. /\ f[k] \in S
              /\ Ahead(a, dir, f[k].at) = {} \/ (Ahead(a, dir, f[k - 1].at) # {} /\ Len(f[k].names) = Len(f[k - 1].names) + 1)
            <4>1. f[k - 1] \in ListedSo(a, dir, from) /\ f[k] = ListStep(a, dir, f[k - 1])
                BY <3>2, Zenon DEF S, Op
            <4> QED
                BY <1>18, <4>1, Zenon DEF S, Advances
        <3>4. Len(f[k - 1].names) \in Nat
            <4>1. f[k - 1].names \in Seq(EntryNames(a, dir))
                BY <3>2 DEF S, ListedSo
            <4> QED
                BY <4>1
        <3>5. f[k] \in Far(k)
            BY <3>1, <3>2, <3>3, <3>4
        <3> HIDE DEF h, T, Far
        <3> QED
            <4>1. <<f[k], k>> \in T
                BY <2>2, <3>1, <3>3, <3>5, Zenon
            <4> QED
                BY <2>1, <3>1, <4>1, Zenon
    <2> HIDE DEF h, T
    <2> QED
        BY <1>1, <2>3, <2>4, StepsKeep
<1>13. f[N] \in S /\ f[N] \in Far(N)
    <2>1. h[N] = <<f[N], N>>
        BY <1>1
    <2> QED
        BY <1>12, <2>1
<1> DEFINE w == f[N]
           past == Past(a, dir, from, w.at)
<1>14. /\ Len(w.names) = Cardinality(past)
       /\ \A i \in past : w.names[Cardinality(UpTo(Ahead(a, dir, from), i))] = EntryName(dir, a[i].name)
    BY <1>13, Zenon DEF S, ListedSo
<1>15. Ahead(a, dir, w.at) = {}
    <2>1. Cardinality(past) <= Len(a) /\ Cardinality(past) \in Nat
        <3>1. past \subseteq Ahead(a, dir, from)
            BY DEF Past
        <3> QED
            BY <3>1, AheadIs
    <2>2. ~(Len(w.names) >= N)
        <3> HIDE DEF w, past
        <3> QED
            BY <1>1, <1>14, <2>1
    <2> QED
        BY <1>13, <2>2
<1>16. past = Ahead(a, dir, from)
    BY <1>15 DEF Past
<1>17. Listing(a, dir, from) = w.names
    BY <1>2, <1>11
<1> HIDE DEF w, past
<1> QED
    BY <1>14, <1>16, <1>17

LEMMA ListsStep ==
    ASSUME Placed, Kept
    PROVE  ListsChildren
<1> SUFFICES ASSUME NEW f \in OpenNow, f.kind = "initramfs", ~Confused(Archived, f.rel)
             PROVE  /\ Len(Listing(Archived, f.rel, f.next)) = Cardinality(Ahead(Archived, f.rel, f.next))
                    /\ \A i \in Ahead(Archived, f.rel, f.next) :
                        Listing(Archived, f.rel, f.next)[Cardinality({j \in Ahead(Archived, f.rel, f.next) : j <= i})]
                            = OwnName(f.rel, Archived[i].name)
    BY DEF ListsChildren
<1> DEFINE a == Archived
           dir == f.rel
<1>1. a \in Seq(Record) /\ \A i \in 1..Len(a) : a[i].name # Nameless
    BY MachineIs DEF Placed
<1>2. Firm(a, f)
    BY DEF Kept, OpenNow, FilesOf, Placed
<1>3. PICK V : dir \in Seq(V)
    BY <1>2 DEF Firm
<1>4. dir # <<>> /\ (Steady(a, dir) => f.next \in Stations(a, dir))
    BY <1>2 DEF Firm
<1> HIDE DEF a, dir
<1>5. Steady(a, dir) /\ Slashed(dir) /\ \A i \in 1..Len(a) : Apart(dir, a[i].name)
    BY Zenon DEF Confused, Steady, Slashed, Apart, Nameless, a, dir
<1>6. ASSUME NEW i \in 1..Len(a)
      PROVE  /\ PathMatch(dir, a[i].name) <=> IsIn(dir, a[i].name)
             /\ IsIn(dir, a[i].name) => EntryName(dir, a[i].name) = OwnName(dir, a[i].name)
    <2>1. a[i].name \in Seq(STRING) /\ a[i].name # <<>> /\ a[i].name # Nameless
        <3>1. a[i] \in Record
            BY <1>1
        <3> DEFINE Nm == Seq(STRING) \ {<<>>}
        <3>2. Record = [name : Nm, dir : BOOLEAN, size : Nat]
            BY DEF Record
        <3>3. \A x \in Nm : x \in Seq(STRING) /\ x # <<>>
            OBVIOUS
        <3> HIDE DEF Nm
        <3> QED
            BY <1>1, <3>1, <3>2, <3>3
    <2> QED
        BY <1>3, <1>4, <1>5, <2>1, MatchIsIn
<1>7. /\ Len(Listing(a, dir, f.next)) = Cardinality(Ahead(a, dir, f.next))
      /\ \A i \in Ahead(a, dir, f.next) :
            Listing(a, dir, f.next)[Cardinality(UpTo(Ahead(a, dir, f.next), i))] = EntryName(dir, a[i].name)
    BY <1>1, <1>4, <1>5, <1>6, ListingIs
<1>8. \A i \in Ahead(a, dir, f.next) : EntryName(dir, a[i].name) = OwnName(dir, a[i].name)
    BY <1>6 DEF Ahead, InDirectory
<1> QED
    BY <1>7, <1>8, Zenon DEF UpTo, a, dir

\* A directory lists what is in it: whatever the archive holds, wherever a listing stands
\* between two calls, the entries that are left come each once, in the order of the archive
\* and by their own names, unless initramfs_readdir is known to confuse the directory.
THEOREM DirectoriesListAll == ShellSpec => []ListsChildren
<1> DEFINE Inv == Placed /\ TextOK /\ Kept
<1>1. ShellInit => Inv
    BY PlacedAtFirst, FollowsAtFirst
<1>2. Inv /\ [ShellNext]_<<filesVars, shellVars>> => Inv'
    BY PlacedStep, FollowsStep
<1>3. Inv => ListsChildren
    BY ListsStep
<1> QED
    BY <1>1, <1>2, <1>3, PTL DEF ShellSpec
=============================================================================
