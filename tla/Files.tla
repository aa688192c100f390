------------------------------- MODULE Files -------------------------------
(***************************************************************************)
(* Open files: the descriptors of the tasks, the mount table, the device   *)
(* file system, the initial ramdisk and the terminals as far as they are   *)
(* written to (src/sys/vfs.c, src/dev/devfs.c, src/dev/initrd.c,           *)
(* src/sys/dev.c, src/dev/tty.c, the system calls on files). A system call *)
(* is one step. A read of a terminal waits: module Terminal is about those.*)
(***************************************************************************)
EXTENDS Archive, Console, TLC

CONSTANTS
    Task,       \* the tasks that may live at the same time
    NFds,       \* descriptors of a task: 4
    Piece,      \* bytes that sys_write copies at once: 512
    Machine     \* what is booted: the ramdisk, the paths, modes, lengths and texts that
                \* its programs use, and three bounds: how many programs live at the
                \* same time, how many descriptors they use and how much they print

ASSUME FilesAssumption == NFds \in Nat \ {0, 1} /\ Piece \in Nat \ {0, 1}

\* Names have a component, and none of them is empty; sizes and lengths are numbers. What
\* stands in front of a path's first slash can be cut.
ASSUME MachineAssumption ==
    \A m \in Machine :
        /\ m.archive \in Seq([name : Seq(STRING) \ {<<>>}, dir : BOOLEAN, size : Nat])
        /\ \A i \in 1..Len(m.archive) : m.archive[i].name # <<"">>
        /\ m.paths \subseteq Seq(STRING) \ {<<>>} /\ \A p \in m.paths : p[1] \in DOMAIN Shorter \cup {""}
        /\ m.lengths \subseteq Nat /\ m.fds \in Nat /\ m.printed \in Nat

VARIABLES
    machine,    \* one of Machine
    files,      \* the descriptors of each task
    alive,      \* the tasks that live
    screen,     \* what the console shows
    serial,     \* what went out on the serial line, and to which terminal it was written
    stopped     \* why the kernel has stopped, "" while it runs

filesVars == <<machine, files, alive, screen, serial, stopped>>

Fd   == 0..NFds - 1
None == [kind |-> "none"]

-----------------------------------------------------------------------------
\* devfs_populate, dev_init and tty_init: what there is under /dev, in its order.
\* The read and write handlers of null and zero are never installed.
Nodes == <<
    [name |-> "ram0",  chr |-> FALSE, tty |-> FALSE],
    [name |-> "null",  chr |-> FALSE, tty |-> FALSE],
    [name |-> "zero",  chr |-> FALSE, tty |-> FALSE],
    [name |-> "tty0",  chr |-> TRUE,  tty |-> TRUE],
    [name |-> "ttyS0", chr |-> TRUE,  tty |-> TRUE] >>

NodesNamed(rel) == {i \in 1..Len(Nodes) : <<Nodes[i].name>> = rel}

\* dev_pseudo_setup and initrd_init install no handlers to read or write the device.
HasHandlers(node) == node.tty

\* devfs_fact
IsBlockNode(rel) == \E i \in NodesNamed(rel) : ~Nodes[i].chr

\* vfs_get_blkdev: only the device file system knows block devices.
IsBlockDevice(mounts, path) ==
    LET f == LookupFile(mounts, path)
    IN  f.best # 0 /\ mounts[f.mount].fs = "devfs" /\ IsBlockNode(f.rel)

\* vfs_mount: a mount that fails for its source has taken a slot without a name,
\* which the next one takes again.
Mount(mounts, src, dst, fs) ==
    IF \/ \E i \in 1..Len(mounts) : mounts[i].dst = dst
       \/ src # <<>> /\ ~IsBlockDevice(mounts, src)
    THEN [ok |-> FALSE, mounts |-> mounts]
    ELSE [ok |-> TRUE, mounts |-> Append(mounts, [dst |-> dst, fs |-> fs])]

Dev == <<"", "dev">>
DevMount == Mount(<<>>, <<>>, Dev, "devfs")
BootMount == Mount(DevMount.mounts, <<"", "dev", "ram0">>, Root, "initramfs")
mounts == BootMount.mounts

-----------------------------------------------------------------------------
\* The files that every program starts with: the terminal to write and to read.
\* The field path is not in the code, it is there for the properties: what the kernel
\* took the path for.
Terminal(rd, wr) == [kind |-> "dev", path |-> Dev \o <<"tty0">>, node |-> 4, rd |-> rd, wr |-> wr]
StartFiles == [fd \in Fd |-> CASE fd = 0 -> Terminal(FALSE, TRUE) [] fd = 1 -> Terminal(TRUE, FALSE) [] OTHER -> None]

NoFiles == [t \in Task |-> [fd \in Fd |-> None]]

FilesInit ==
    /\ BootMount.ok
    /\ machine \in Machine
    /\ \E t \in Task : alive = {t} /\ files = [NoFiles EXCEPT ![t] = StartFiles]
    /\ screen = EmptyScreen /\ serial = <<>> /\ stopped = ""

Runs(t) == stopped = "" /\ t \in alive
\* The kernel panics, and nothing runs any more.
Stop(why) ==
    /\ stopped' = why /\ alive' = {} /\ files' = NoFiles
    /\ UNCHANGED <<machine, screen, serial>>
OnlyFiles == UNCHANGED <<machine, alive, screen, serial, stopped>>
Archived == machine.archive

\* What the kernel may take a path for. Behind the end of an empty one it reads on in its
\* buffer, which still holds most of the path before it, or anything: a thing of the
\* ramdisk, or nothing that there is.
Other == "other"
Remnants == {<<"">>, <<Other>>} \cup {Skip(p) : p \in machine.paths \ {<<"">>}}
           \cup {SubSeq(Archived[i].name, 1, Parts(Archived[i].name)) : i \in 1..Len(Archived)}
Meant(path) ==
    IF path # <<"">> THEN {path}
    ELSE {p \in {<<"">> \o rest : rest \in Remnants} : mounts[LookupFile(mounts, p).mount].fs = "initramfs"}

FreeFds(t) == {fd \in Fd : files[t][fd] = None /\ fd < machine.fds}

\* devfs_open and dev_open: the first node of that name.
OpenedNode(path, rel, rd, wr) ==
    IF NodesNamed(rel) = {} THEN None
    ELSE [kind |-> "dev", path |-> path, node |-> Min(NodesNamed(rel)), rd |-> rd, wr |-> wr]

\* Mutant: the header of the record is not skipped.
OpenedRecord_Header(path, rel, rd, wr) ==
    LET at == FindFile(Archived, rel)
    IN  IF at = Naddr THEN None
        ELSE [kind |-> "reg", path |-> path, rd |-> rd, wr |-> wr,
              pos |-> at, left |-> Archived[RecordAt(Archived, at)].size]

\* initramfs_open: from behind the header, up to the size it has.
OpenedRecord(path, rel, rd, wr) ==
    LET at == FindFile(Archived, rel)
    IN  IF at = Naddr THEN None
        ELSE [kind |-> "reg", path |-> path, rd |-> rd, wr |-> wr,
              pos |-> at + Block, left |-> Archived[RecordAt(Archived, at)].size]

\* vfs_open: the file, or None if there is none of that name.
Opened(path, rd, wr) ==
    LET f == LookupFile(mounts, path)
    IN  IF f.best = 0 THEN None
        ELSE IF mounts[f.mount].fs = "devfs" THEN OpenedNode(path, f.rel, rd, wr)
        ELSE OpenedRecord(path, f.rel, rd, wr)

\* devfs_opendir has one directory, initramfs_opendir any. A listing begins at the
\* first node, or at the first record.
KnowsDir(fs, rel) == fs = "initramfs" \/ rel = <<"">>
FirstEntry(fs) == IF fs = "devfs" THEN 1 ELSE 0

\* vfs_opendir
OpenedDir(path) ==
    LET f == LookupFile(mounts, path)
        fs == mounts[f.mount].fs
    IN  IF f.best = 0 \/ ~KnowsDir(fs, f.rel) THEN None
        ELSE [kind |-> fs, path |-> path, rel |-> f.rel, next |-> FirstEntry(fs)]

\* sys_open: the first free descriptor. The lookup of a path without slashes that
\* is the name of a mount point follows a null pointer.
Open(t, path, rd, wr, dir) ==
    LET f == IF dir THEN OpenedDir(path) ELSE Opened(path, rd, wr)
    IN  /\ Runs(t) /\ FreeFds(t) # {}
        /\ IF LookupFile(mounts, path).best # 0 /\ LookupFile(mounts, path).rel = <<>> THEN Stop("path")
           ELSE files' = [files EXCEPT ![t][Min(FreeFds(t))] = f] /\ OnlyFiles

\* sys_close
Close(t, fd) ==
    /\ Runs(t)
    /\ files' = [files EXCEPT ![t][fd] = None]
    /\ OnlyFiles

IsDir(f) == f.kind \in {"devfs", "initramfs"}

\* initramfs_read
ReadFile(f, len) ==
    LET n == Min({len, f.left}) IN [f EXCEPT !.pos = @ + n, !.left = @ - n]

\* vfs_read. A read of a terminal waits; it is not part of this module.
Read(t, fd, len) ==
    LET f == files[t][fd]
    IN  /\ Runs(t) /\ f.kind \in {"reg", "dev"} /\ f.rd
        /\ \/ /\ f.kind = "reg"
              /\ files' = [files EXCEPT ![t][fd] = ReadFile(f, len)]
              /\ OnlyFiles
           \/ f.kind = "dev" /\ ~HasHandlers(Nodes[f.node]) /\ Stop("device")

\* devfs_readdir: one node after the other.
NextNode(n) == IF n <= Len(Nodes) THEN n + 1 ELSE n

\* sys_read of a directory, vfs_readdir.
ReadDir(t, fd) ==
    LET f == files[t][fd]
    IN  /\ Runs(t) /\ IsDir(f)
        /\ files' = [files EXCEPT ![t][fd].next =
                        IF f.kind = "devfs" THEN NextNode(@) ELSE ReadEntry(Archived, f.rel, @).at]
        /\ OnlyFiles

\* tty_write_char: of what is sent, each character to a terminal, the screen shows
\* what is for tty0.
OnScreen(s, w) == IF w[1] = 4 THEN PutChar(s, w[2]) ELSE s

\* tty_write
TtyWrite(node, text) ==
    LET sent == [i \in 1..Len(text) |-> <<node, text[i]>>]
    IN  /\ Len(text) \in 0..machine.printed - Len(serial)
        /\ serial' = serial \o sent /\ screen' = FoldLeft(OnScreen, screen, sent)
        /\ UNCHANGED <<machine, files, alive, stopped>>

\* vfs_write: regular files and other devices have no handler. The flags of a
\* directory are what its block of the heap held.
VfsWrite(f, text) ==
    \/ f.kind = "dev" /\ f.wr /\ HasHandlers(Nodes[f.node]) /\ TtyWrite(f.node, text)
    \/ f.kind = "dev" /\ f.wr /\ ~HasHandlers(Nodes[f.node]) /\ Stop("device")
    \/ f.kind = "reg" /\ f.wr /\ Stop("regular")
    \/ IsDir(f) /\ Stop("directory")

\* What the loop of sys_write sends of a text: every piece is copied from its beginning.
Sent(text) == [i \in 1..Len(text) |-> text[((i - 1) % Piece) + 1]]

\* sys_write
Write(t, fd, text) ==
    Runs(t) /\ files[t][fd] # None /\ text # <<>> /\ VfsWrite(files[t][fd], Sent(text))

\* Mutant: the child inherits the files.
Fork_Shares(t, c) ==
    /\ Runs(t) /\ c \notin alive /\ Cardinality(alive) < machine.tasks
    /\ alive' = alive \cup {c} /\ files' = [files EXCEPT ![c] = files[t]]
    /\ UNCHANGED <<machine, screen, serial, stopped>>

\* A child starts with terminals of its own, and none of its parent's files.
Fork(t, c) ==
    /\ Runs(t) /\ c \notin alive /\ Cardinality(alive) < machine.tasks
    /\ alive' = alive \cup {c} /\ files' = [files EXCEPT ![c] = StartFiles]
    /\ UNCHANGED <<machine, screen, serial, stopped>>

\* initramfs_fact: only files of the ramdisk lie in memory.
Located(fs, rel) == IF fs = "initramfs" THEN FindFile(Archived, rel) ELSE Naddr

\* vfs_getm: where a program lies.
GetM(path) ==
    LET f == LookupFile(mounts, path)
    IN  IF f.best = 0 THEN Naddr ELSE Located(mounts[f.mount].fs, f.rel)

\* elf_load takes it.
IsProgram(at) == Archived[RecordAt(Archived, at)].name \in machine.programs

\* task_fexecve asserts that there is such a file, and that it is a program.
Fexecve(t, c, path) ==
    IF GetM(path) # Naddr /\ IsProgram(GetM(path)) THEN Fork(t, c)
    ELSE Runs(t) /\ c \notin alive /\ Stop("program")

\* task_destroy closes the files.
Exit(t) ==
    /\ Runs(t)
    /\ alive' = alive \ {t} /\ files' = [files EXCEPT ![t] = [fd \in Fd |-> None]]
    /\ UNCHANGED <<machine, screen, serial, stopped>>

\* The kernel has stopped, or no program is left.
FilesStopped == alive = {} /\ UNCHANGED filesVars

FilesNext ==
    \/ \E t \in Task, path \in machine.paths, mode \in machine.modes, dir \in BOOLEAN :
            \E p \in Meant(path) : Open(t, p, "rd" \in mode, "wr" \in mode, dir)
    \/ \E t \in Task, fd \in Fd :
        \/ Close(t, fd) \/ ReadDir(t, fd)
        \/ \E len \in machine.lengths : Read(t, fd, len)
        \/ \E text \in machine.texts : Write(t, fd, text)
    \/ \E t, c \in Task : Fork(t, c) \/ \E path \in machine.paths : \E p \in Meant(path) : Fexecve(t, c, p)
    \/ \E t \in Task : Exit(t)
    \/ FilesStopped

FilesSpec == FilesInit /\ [][FilesNext]_filesVars

-----------------------------------------------------------------------------
FilesOf(t) == {files[t][fd] : fd \in Fd} \ {None}
OpenNow == UNION {FilesOf(t) : t \in alive}

\* Every variable keeps its type.
FilesTypeOK ==
    /\ machine \in Machine /\ alive \subseteq Task /\ (stopped # "" => alive = {})
    /\ \A t \in Task, fd \in Fd : files[t][fd].kind \in {"none", "dev", "reg", "devfs", "initramfs"}
    /\ \A f \in OpenNow : f.kind = "reg" => f.pos \in Nat /\ f.left \in Nat
    /\ screen.x \in Col /\ screen.y \in Row /\ DOMAIN screen.cell = Row \X Col
    /\ Len(serial) <= machine.printed

\* The file that a path names, and the exception: a path without a slash in front loses
\* its first character instead.
NamedBy(path, name) ==
    IF path[1] = "" THEN path = <<"">> \o name
    ELSE name[1] = Shorter[path[1]] /\ Tail(name) = Tail(path)

\* A file that is open reads from the record that its path names, up to its last byte
\* and no further; a directory that is listed is never in the middle of a file; a
\* device is the one that the path names.
PositionSound ==
    \A f \in OpenNow :
        /\ f.kind = "reg" => \E i \in 1..Len(Archived) :
            /\ NamedBy(f.path, Archived[i].name) /\ ~Archived[i].dir
            /\ f.pos >= Data(Archived, i) /\ f.pos + f.left = Data(Archived, i) + Archived[i].size
        /\ f.kind = "initramfs" =>
            f.next = Naddr \/ f.next >= End(Archived) \/ IsHeader(Archived, f.next)
        /\ f.kind = "dev" => Relative(f.path) = <<"dev", Nodes[f.node].name>>

\* The records in a directory, and those that a listing has still before it.
InDirectory(a, dir) == {i \in 1..Len(a) : IsIn(dir, a[i].name)}
Ahead(a, dir, at) == {i \in InDirectory(a, dir) : at # Naddr /\ Header(a, i) >= at}

\* What a directory will still list: its entries from an address on.
Listing(a, dir, from) ==
    LET Step(l, i) == LET e == ReadEntry(a, dir, l.at)
                      IN  [at |-> e.at, names |-> IF e.ok THEN Append(l.names, e.name) ELSE l.names]
    IN  FoldLeft(Step, [at |-> from, names |-> <<>>], [i \in 1..Len(a) + 1 |-> i]).names

\* Where listing is known to go wrong: the path has a slash at one of its ends or two in a
\* row, there are entries of another directory whose path begins like this one's, or this
\* is the root and the archive does not end with a file.
Confused(a, dir) ==
    \/ dir # <<"">> /\ \E i \in 1..Len(dir) : dir[i] = ""
    \/ dir # <<"">> /\ \E i \in 1..Len(a) :
            LET n == Len(dir)
            IN  PrefixOf(dir, a[i].name) /\ SubSeq(a[i].name, 1, n) # dir /\ IsIn(SubSeq(a[i].name, 1, n), a[i].name)
    \/ dir = <<"">> /\ (a = <<>> \/ a[Len(a)].dir)

\* The name of an entry is what its path has behind the directory's.
OwnName(dir, name) == From(name, IF dir = <<"">> THEN 1 ELSE Len(dir) + 1)

\* A directory lists exactly what is in it, each entry once, in the order of the
\* archive and by its own name, however much has been listed before.
ListsChildren ==
    \A f \in OpenNow : f.kind = "initramfs" /\ ~Confused(Archived, f.rel) =>
        LET listed == Listing(Archived, f.rel, f.next)
            ahead  == Ahead(Archived, f.rel, f.next)
        IN  /\ Len(listed) = Cardinality(ahead)
            /\ \A i \in ahead : listed[Cardinality({j \in ahead : j <= i})] = OwnName(f.rel, Archived[i].name)

\* The screen shows the end of what was written to tty0, whatever was written to
\* the other terminal in between.
OnPaper(lines, w) == IF w[1] = 4 THEN Typed(lines, w[2]) ELSE lines
ScreenShows == screen = EndOf(FoldLeft(OnPaper, <<<<>>>>, serial))

-----------------------------------------------------------------------------
\* What is open, and how much of it has been read or listed.
Thing(a, f) ==
    CASE f.kind = "reg"   -> <<"file", Skip(f.path)>>
      [] f.kind = "dev"   -> <<"device", <<Nodes[f.node].name>>>>
      [] f.kind = "devfs" -> <<"nodes", <<>>>>
      [] OTHER -> IF InDirectory(a, f.rel) = {} THEN <<"empty", <<>>>> ELSE <<"directory", Trimmed(f.rel)>>

Progress(a, f) ==
    CASE f.kind = "reg"   -> SizeOf(a, Skip(f.path)) - f.left
      [] f.kind = "dev"   -> 0
      [] f.kind = "devfs" -> f.next - 1
      [] OTHER -> Cardinality({i \in InDirectory(a, f.rel) : f.next = Naddr \/ Header(a, i) < f.next})

Entry(a, f) == IF f = None THEN <<>> ELSE <<Thing(a, f), Progress(a, f)>>

\* What a machine has, and how long each thing is.
Things(a) ==
    {<<"file", name>> : name \in Names(a)} \cup {<<"directory", Parent(a[i].name)>> : i \in 1..Len(a)}
    \cup {<<"device", <<Nodes[i].name>>>> : i \in 1..Len(Nodes)} \cup {<<"nodes", <<>>>>, <<"empty", <<>>>>}

LengthOf(a, x) ==
    CASE x[1] = "file"      -> SizeOf(a, x[2])
      [] x[1] = "directory" -> Cardinality({i \in 1..Len(a) : Parent(a[i].name) = x[2]})
      [] x[1] = "nodes"     -> Len(Nodes)
      [] OTHER -> 0

Trees == [m \in Machine |-> [x \in Things(m.archive) |-> LengthOf(m.archive, x)]]

Abstract == INSTANCE OpenFiles WITH
    tree  <- Trees[machine], live <- alive,
    table <- [t \in Task |-> [fd \in Fd |-> Entry(Archived, files[t][fd])]]

\* Descriptors behave as OpenFiles promises, for every order of calls.
ImplementsOpenFiles == Abstract!OpenFilesSpec
=============================================================================
