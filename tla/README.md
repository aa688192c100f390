# A TLA+ development of the Yggdrasil kernel

`src/` is a small hobby operating system for 32-bit x86: one processor, preemptive user tasks, no
preemption of the kernel, terminals, a tar ramdisk, a heap, paging, one network card, and a shell. This
directory models it in TLA+, checks the models with TLC on small instances, and proves the
most important properties with TLAPS for all values of the constants.

Paths below are relative to `src/src/` unless they begin with `src/`.

## 1. The system

### Components, state and operations

| component | state | operations | modules |
|---|---|---|---|
| scheduler and system calls (`arch/x86/task/*.c`, `arch/x86/syscall.c`, `sys/task.c`, `arch/x86/hw/pfault.c`, `hw/hpet.c`) | the task list (`x86_task_first`, `next`, `x86_task_last`), `x86_task_current`, per task flags, wait, pid, pending signal, frames | timer interrupt, fork, execve, fexecve, exit, nanosleep, waitpid, kill, signal, sigreturn, page fault | `Sched`, `TaskLife`, `SchedProofs` |
| terminals (`dev/tty.c`, the read path of `sys/vfs.c`) | per terminal the file whose read is pending; per file `op_buf`, `op_len`, `op_res` | read, keyboard interrupt | `Terminal`, `TerminalProofs` |
| keyboard (`arch/x86/hw/ps2.c`, `sys/ctype.c`) | `ps2_flags` | a scan code | `Keyboard` |
| network card (`dev/pci/net/rtl8139.c`, `arch/x86/hw/periph_irq.c`) | four send buffers, `tx_reg_num`, the flag TXOP, `cbr_prev`; in the card: `isr`, `tsd`, `cbr` | send, interrupt handler, receive | `Rtl8139`, `TxQueue`, `Rtl8139Proofs` |
| network configuration (`dev/net.c`, `net/inet.c`) | the addresses of the card, `s_routes`, the locals of the parser | read a line | `NetConfig`, `NetConfigProofs` |
| address resolution (`dev/net.c`, `net/arp.c`) | which routes are resolved, the flag `NET_ARP_WAITING` | ask at boot, reply, resolve | `Arp`, `ArpProofs` |
| heap (`sys/heap.c`) | headers that lie in the memory they manage | add a region, remove the ramdisk, allocate, free | `Heap`, `HeapProofs` |
| physical pages and the pool (`arch/x86/mm/phys.c`, `space.c`) | a bitmap of pages and a hint; a bitmap of the pool and `index_last` | allocate a page or 4 MiB, take from the pool and give back | `PageMem`, `ProgramsProofs` |
| address spaces (`arch/x86/mm/space.c`, `map.c`, `user.c`) | directories, tables, table infos with their counts | create, map, unmap, clone, fork, destroy, copy from and to a program | `AddrSpace`, `ProgramsProofs` |
| memory of programs (`arch/x86/task/fork.c`, `task.c`, `sys/elf.c`, `syscall.c`) | a space per task | fork, execve, fexecve, exit, system calls that store, stores of programs | `Programs`, `PrivateMem`, `ProgramsProofs` |
| files (`sys/vfs.c`, `dev/devfs.c`, `dev/initrd.c`, `dev/pseudo.c`) | the mount table, nodes, the records of the archive, the descriptors of each task | mount, look up, open, close, read, list, write, fork, exit | `Paths`, `Archive`, `Files`, `OpenFiles` |
| screen (`arch/x86/hw/console.c`) | cells and cursor | put a character | `Console` |
| numbers and formats (`sys/debug.c`, `sys/atoi.c`, `src/usr/lib/posix/vsnprintf.c`) | the buffer of printf | debugf, printf, atoi, fmtsiz, the octal numbers of tar | `Formats` |
| shell (`src/usr/bin/init.c`) | its line, command, argument, open file, child | prompt, line editor, echo, pid, cat, hex, ls, exit, running a program | `Shell`, `ShellProofs` |
| boot and tables (ACPI, PCI, IDE probe, IDT, GDT, PIC), ARM port | | | not modelled (section 9) |

### How they interact

A user program enters the kernel by a system call or a fault; the hardware enters it by the timer,
the keyboard or the network interrupt. All of them pass interrupt gates, so a handler runs to its end
before the next one starts. What a handler leaves for later lies in shared state: a task that sleeps
or waits is woken by the walk that `x86_task_switch` makes over the list; a task that reads from a
terminal is marked busy, its file is left with the terminal, and the keyboard interrupt fills the
buffer, completes the file's operation and lets the task go. Kill writes the frame of another task.
Tasks, contexts, files and directories are heap blocks. Page directories, page tables and their counts
come from one pool of 4 MiB; what programs see comes from the physical pages. A copy between the kernel and a program goes through a
window that is opened in the kernel's own space and closed again. The network driver calls the ARP code from
its interrupt handler, which calls the driver again to reply; before the first interrupt
`net_load_config` and `net_post_config` fill the tables and send requests from the boot thread.

Composition in the modules: `Terminal` extends `Sched`; `Arp` extends `Rtl8139` and `NetConfig`; `Programs` extends
`AddrSpace` extends `PageMem`; `Shell` extends `Files` (with `Archive`, `Paths` and `Console`), `Formats` and `Keyboard`. Each of these is checked
or proved to implement an abstract module or the one it extends: `Sched` → `TaskLife`, `Terminal` → `Sched`,
`Rtl8139` → `TxQueue`, `Arp` → `Rtl8139` and → `NetConfig`, `Programs` → `PrivateMem`, `Shell` → `OpenFiles`.

### What is hard about it

- Whole handlers in any order: tasks that end while others sleep, wait for them, read, are killed or
  are in their signal handler, and slots and pids that are reused meanwhile.
- The switch walks the list, removes tasks from it and looks pids up in it, all in one pass.
- A read is spread over two handlers that may be far apart, and the interrupt in between runs in the
  address space of somebody else.
- The card works while the driver's handler runs: `isr` and `cbr` change between the handler's reads.
- The heap's headers lie between the allocations, linked both ways, and a stale link is followed long
  after it became stale.
- Page tables are counted in the low bits of their own addresses, are reused without being cleared, and their pool and
  the programs' pages share memory once all other pages are used.
- Parsers and walks carry state from one line, record or call to the next.

`PROJECT.json` lists each of these hazards with its line in the code and the properties that are
about it, or the reason why there is none.

## 2. Sched: tasks, waits and signals

**State.** One variable per field. `Task` is the set of heap slots a `struct x86_task` may live in, so
that a slot is reused; pids are numbers and are never reused. `next` and `last` are the list as the
code links it; a walk over it is `After(x)`, the smallest set closed under `next`, which is defined
also for a list that is broken. `flag` is the set of `TASK_FLG_` bits. `esp0` says whether a task's
saved frame is its main one or its signal frame; of the frames themselves the model keeps only
`eax`, and only whether it holds the error of an aborted wait.

**Actions.** One per handler, each with the switch it ends with: `Switch` removes the stopped tasks
(`Reap`), wakes those whose deadline has passed or whose pid is no longer found (`Woken`, `PidGone`:
at this point of the walk, only what the walk has already passed is unlinked), and takes the first
ready task behind the current one (`PickNext`). The first timer interrupt only leaves the boot thread. `ReadBlock` and
`ReadDone` are the interface to devices; `DevicePanic` is a device's handler that stops the machine.

**Specification of what it promises.** `TaskLife` has no list, flags or handlers: pids are born in
order, only the running task blocks or ends, pid 1 never ends, and turns are taken in the order of
pids with a turn of the idle task before each round. `ImplementsTaskLife` maps `Sched` to it.

**Properties.** `QueueOrder` (the list runs through the living tasks in pid order and ends at
`x86_task_last`), `CpuOwner` (who runs is alive, not waiting,
not stopped), `SignalFrame` (signals enter only frames and entry points of the running program), `SignalKept` (a handler has the signal it handles until it
returns, unless somebody sends the number 0),
`NoEarlyWake` (a wait ends by its deadline, by the end of the task it is for, or with -1), and, under fairness,
`WaitEnds` (sleeps end, and so do waits for tasks that are gone) and `NoStarvation`.

A point worth knowing: `task_create` clears `sizeof(pointer)` bytes of a new task
(`arch/x86/task/task.c:20`), so a forked child's `sigeip` holds what the heap block held before
(`Leftover`). `SignalFrame` shows why this is harmless: no signal is entered without a signal context,
and whoever makes that context also clears `sigeip`.

`sys_kill` does not look at the number it is given. A kill with 0 enters the handler with no signal pending, or takes the pending signal from a handler that
runs, and the assertion in `sys_sigreturn` (`syscall.c:312`) then stops the kernel. `Signal` may hold 0 (`NoSignal`), and the theorems hold for either; a kill with 0 is the one
exception of `SignalKept`.

## 3. Terminal: reads that an interrupt completes

`Terminal` extends `Sched`, adds the files and the terminals, and makes the reads of `Sched` concrete.
`Read` locks file and terminal and blocks, and panics where the code asserts; `Key` is the keyboard
interrupt; `KillReader` is a kill that restarts the handler a read was made in, so that the read
loses its count. `stored` is how much of a read really lies in the reader's memory.

**Properties.** `HolderReads` (a terminal serves only a pending read of a living, busy task, and each
pending read is served), `BusyReads` (no task is left busy without a pending read), `NoOverrun`, `ReadsFull` (a reader is let
go exactly at its last character), `ReadReturns` under fairness, and `TerminalSchedules`: the
composition implements `Spec` of `Sched`, so that all that is proved there holds here (proved for every instance, and in no run).

A file that a program opens by name does not know its task (`sys_open` does not set it), so the
read that completes wakes nobody and its reader stays busy; a second reader of the same terminal fails an
assertion, and no interrupt ever serves the serial terminal. The model has these files (`Opens`);
those on the serial terminal are in the runs. `HolderReads` and
`NoOverrun` are proved with all of them; `BusyReads` is stated for programs that open no keyboard file
by name, and `ReadReturns` for the keyboard files that tasks are created with.

## 4. Rtl8139, TxQueue, NetConfig, Arp: the network

`Rtl8139` breaks the interrupt handler where the card can come between: reading `isr`, acting on it
and writing it back, handling the packet, and reading `cbr` again. `CardSends` and `CardReceives` are
the card. The card never gets `capr` moved, so it stores packets for one round of its ring: `RingSize`
is that round.

`NetConfig` is `net_load_config`: a line is what its parser finds in it, and the locals of the parser (`curr_iface`, `mask`) live from
line to line. An assertion or a full table stops the kernel (`LineOk`). `Arp` extends both with the contents of packets: the
boot thread reads the file, asks for each gateway in the subnet of an address of the card, and the handler answers
requests and stores answers.

**Properties.** `NoGap` (the buffers in use follow each other), `CompletionExpected` (the handler's assertion), `AcceptedLeaves`
(every packet is sent, unless a completion was acknowledged unseen: that is the defect below), and
`ImplementsTxQueue`, the driver as a queue of at most four packets that leave in order. `ConfigUnderstood`: the tables hold, in order, exactly what
the file describes under the card's headings, each entry with its own mask or the last one written before it. `AnsweredOnce`,
`ResolvedByGateway`, and `ArpUsesDriver` (the composition keeps to the driver's specification).

Worth knowing: a line without a mask takes the mask of an earlier line of either kind; an empty line ends the file (`vfs_gets` returns 0 for it); a
default route `0.0.0.0` fails the assertion on its address (`dev/net.c:341`); a fifth gateway in reach at boot finds the four buffers
used, since interrupts are still off, and the assertion in `net/arp.c` stops the kernel; an answer from a gateway without a route panics; and when several routes lead
over one gateway only the first one gets its address.

## 5. Heap

`Heap` has the headers as a function from addresses: a header is there where one was written and
nothing has been written over it since, so that a header that is no longer in the list can still be
reached through a stale link, with the contents it had. `Alloc` is first fit with the cut, `Free`
joins with the block behind and the one in front. Every owner writes all of what it was given. Once
two allocations share memory (`Intact` fails) the model stops, since anything may follow.

**Properties.** `ChainSound` (the blocks of the chain follow each other from the base without overlapping and end in the region, the ramdisk is
among them, and no block that nobody holds stays used), `ModuleKept` (the ramdisk and its header are never handed out), and `GoodUnlessAstray`: in a heap that is whole (every
allocation in the chain), only a free of a block whose link back leads astray can lose an allocation, make two share memory, or
be refused; and while all links back are true, frees leave them true and join what can be joined.
The only thing that makes a link stale is the cut of a block that has another one behind it.

What goes wrong then is more than one call: a free through a stale link back reads an old header, extends it over an allocated block, and thereby drops that
block from the chain. From then on its owner still has it and nothing overlaps yet, but it can never be given back, and its memory can be given out again.

An allocation that leaves less than a header over calls the whole block as long as the allocation; the words behind it belong to nobody until a
join takes them back.

## 6. PageMem, AddrSpace, Programs, PrivateMem: memory

A handler does many of these steps in a row and nothing interrupts it, so the steps of `PageMem` and `AddrSpace` are operators
from a memory (a record: bitmaps, hints, the words of the pool's pages, the data of programs) to the next one; a step after a panic changes
nothing. The actions, one per system call, are in `Programs`. A word of a page table is an address with four low bits, which are flags in
a table and a count in a table info, so that a word that is taken for another kind means what it means to the code. Loops over a
table, a space or a program's sections go in the order of addresses, as in the code, and are recursive functions of how far they have come.

Two assumptions are the machine's: there are 4 MiB free for the pool at boot (`HugeAssumption`, the code does not look), and programs
are linked below the kernel (`Sections` are pages of the user's part).

`PrivateMem` is what programs expect: memory changes only by what its program does, a fork copies it, a new program finds nothing in it that
another one stored. A child may have more pages than its parent: where the parent's table has a leftover entry that names no page of its
own, fork gives the child a page there, in which nobody has stored anything. It takes a pool large enough for tables to be taken again
within a word of its bitmap to see it, which is why the instance has such words.

**Properties.** `PoolOwned` (no page of the pool is used twice or used and free), `WindowClosed` (between system calls the kernel's
space maps no user address, and all spaces agree on the kernel's part), `Isolated`, `StopExplained` (the reasons for which the kernel may stop; for the pool
also when it may, while an unknown address, a page already present and a page that is no program's are allowed without a cause), and
`ImplementsPrivateMem`.

What the runs show of the code, and the properties name as their exceptions: the search of the pool begins at `index_last`, which never
decreases, and behind the last word goes on into `index_last` itself, so a pool with free pages below can be exhausted
(`StopExplained`, "pool"; with words of 13 bits instead of 18 the run gets there); the 4 MiB of the pool are not marked used, so they are handed out to programs when all other pages are used
(`WrappedRound`); a table is not cleared when it is taken, so words of an old table info can look like pages that are
present (`Leftover`), and fork then copies them or fails an assertion. execve keeps the pages of the old program, and does not clear
sections without contents; exit gives back neither tables nor pages; a page that is mapped over a present one is lost.

## 7. Files, Shell and what they stand on

`Paths` is the mount table's search, `Archive` the walks over the tar records, `Console` the text screen, `Formats` the two printf and the numbers,
`Keyboard` the scan codes. They are operators with the reference definitions beside them. `Files` has the descriptors, one action per system call;
`Shell` runs the shell on them, one step per system call of the shell, with keys pressed and a child running in between. `machine` is what
was booted: an archive, and what its programs do or what somebody types.

`OpenFiles` is what programs expect of descriptors: each belongs to one task, opens in the lowest free place at the beginning of a thing that never
changes, and moves only forward and only by its own task's reads.

**Properties.** `PositionSound` (an open file reads its own record up to its last byte), `ListsChildren` (a directory lists exactly what
is in it), `ScreenShows` (the screen shows the end of what was written), `ShiftSound`, `EchoAgrees` (the terminal shows the prompt and what the shell has
kept of the line), `OutputRight` (cat, hex and ls print all of what they opened, once), `ShellCloses`, `FormatsRight` (formats print as they say, and
numbers are read back), `ImplementsOpenFiles`.

What they show of the code, and the exceptions the properties name: the null and zero devices and the ramdisk device have no handlers, and the files of the
ramdisk and directories none to write: reading or writing there stops the kernel; so do the path `dev` (a null pointer) and `cat` without an argument; an
empty path is looked up by what an earlier call left in the buffer; a directory lists the entries of another one whose name begins like its own, one whose path
ends with a slash lists what is in its subdirectories instead of what is in it, one with two slashes in a row nothing, and the listing of the root runs on into the zero blocks if the archive is empty or ends with a directory (`Confused`); a path that does not begin with a slash loses its
first character, so that `xbin/ls` opens `/bin/ls`, `xx` opens `/x` and `x` what the empty name stands for (`Skip`, `NamedBy`). To execute a file that is no program fails an assertion and stops the kernel
(`Fexecve`, `ChildExec`). `sys_write` copies every piece of a long text from its beginning, so that more than 512 bytes are the first 512 again (`Sent`); nothing writes that much at once, and the
properties compare what was sent.
Keys that are pressed while the shell is busy are lost; a command of 64 characters aborts the shell; both shift keys share one flag. In formats (`Known`, `Ends`):
a part that exactly fills the buffer of vsnprintf lets the next one be written behind it, zeros are put in front of the sign, `%0-` is not understood by
debugf, and the least int is printed wrong.

## 8. The runs

| run | question | bounds, and why they are enough |
|---|---|---|
| `sched_tasks` | do the list, the processor's owner and the turns survive every order of handlers? | three tasks and three pids: the least list with a middle, and with a waiter, one that ends and one that goes on; `MaxTime` 1 |
| `sched_live` | do signals enter only what the program owns, does a handler keep its signal, does no wait end early, and does every wait that can end do so? | two slots and three pids, so that a slot has a second life; heap blocks with and without an old entry point; kills with SIGSEGV and 0, faults; `MaxTime` 2 with ticks of 0 and 2, so that the clock jumps over a deadline; 101,548 states |
| `sched_sigreturn` | may every signal handler return, also one that forked? (violated) | two slots, three pids |
| `terminal_reads` | does every read get what it asked for, from whoever reads and whoever is killed? | two tasks, reads of 0 to 2 characters, the standard files and the serial terminal opened by name |
| `terminal_delivers` | does a key reach the reader's memory? (violated) | two tasks, reads of 0 to 2 characters, standard files, no clock |
| `net_driver` | does the driver keep order, lose nothing and meet its assertion? | six packets through four buffers, so that `tx_reg_num` wraps around; four received ones |
| `net_txop` | is TXOP set only while something is under way? (violated) | one packet each way |
| `arp` | do the tables hold what the file says, and do answers go where they belong? | all files of up to four lines of a few kinds, and files with 5 and 33 routes and with 5 addresses; three received packets; 5,987,365 states |
| `heap` | is the chain in order whatever the links back say, and do frees do what they should as long as these are true? | 20 words, headers of 3, blocks of 1 and 3 words, with and without a ramdisk in the middle: up to five blocks, cuts that leave less than a header, links back that lead to a header no longer in the chain, and allocations that are dropped from it; 37,616 states |
| `heap_free` | is every block that was given out accepted back? (violated) | the same |
| `programs` | are page structures and the memory of programs kept apart, and does each program find what it should? | a pool of two 18-bit words, each with room for three programs, 84 pages in all, three tasks, two programs, eight pages given out before the last handler begins: tables with leftovers occur and are forked, and the search for pages comes round to the pool; 15,049 states |
| `files` | are files, directories, the screen, the keyboard and the shell right? | eight machines: `Built`, `Odd`, `Slashes` and `Writer` with programs that do anything, `Looking`, `Typing` and `Running` with the shell and somebody at the keyboard, `Desk` with the formats; components of one or two characters are typed (`Spelling`) and every component can lose its first one (`Shorter`), so that `cat xx` opens `/x`; a screen of 3 by 3, a line of five, pieces of 20, ints of a byte; 178,603 states |

**Named bounds.** `MaxPid`, `MaxTime` and `Tick` (pids, clock and its steps), `MaxLen` (a read), `RingSize` and `MaxSend` (packets received and
sent), `AddrSlots` and `RouteSlots` (the tables of the network, as in the code), `Size`, `H` and `Count` (the heap in words), `NFrames`,
`PoolWords`, `MaxUsed` and `Pointer` (pages, words of the pool's bitmap, pages given out, where programs look), `Piece` (bytes that `sys_write` copies at once), and in a machine its `tasks`,
`fds`, `lengths` and `printed`. Symmetry is used for task slots and their names only, and in no run with a liveness property. Every run checks
deadlock: where the kernel stops, the model says so with a step of its own.

**Fairness.** `Sched`: the timer keeps interrupting and its counter keeps counting (weak fairness of the first interrupt, and of an
interrupt that advances the clock; ticks that do not advance it may come in between). Nothing is assumed of programs, which may run for ever
between two interrupts. `Terminal` assumes that somebody keeps typing, and nothing of the timer. `Rtl8139`: the handler gets on, a pending interrupt is delivered, and
the card sends or gives up what it was given; packets need not arrive. All but the typing follows from
the hardware: a periodic timer, an interrupt that stays pending until it is acknowledged, and handlers that end. That somebody types is what a read waits for.

**Types.** The type invariants of the heap, of programs' memory and of files and shell are conjuncts of `ChainSound`, `PoolOwned` and
`EchoAgrees`, that of the formats' inputs of `FormatsRight`. `AllListed`, `OneTransmission`, `TerminalTypeOK`,
`ArpTypeOK` and `ConfigTypeOK` are proved and have no run of their own.

## 9. What is not modelled

- Tasks: the layout of frames, `execve` from inside a signal handler, the exit status.
- Terminals: a read without a buffer, which `vfs_read` answers with an error before anything changes.
- Heap: `heap_realloc`, which nothing calls; more than one region, which nothing adds; a ramdisk at the very edge of the region, where
  the lengths in `heap_remove_region` wrap around.
- Pages: `mm_free_physical_page`, which only unmapping without `MM_FLG_NOPHYS` reaches, and nobody unmaps so; the huge pages of devices,
  which stay mapped; the translation buffer of the processor.
- Network: several cards, lines of the configuration that are longer than 127 characters or have two blanks in a row, the printing of the tables.
- Files: `vfs_stat`, the details of `closedir`, `dirent_dump`, the limit of 16 mounts (the boot makes two), mounts deeper than one
  component, GNU long names in the archive.
- Screen and keyboard: the drawing of characters on the frame buffer, colours, `debug_dump`, the raw mode of the keyboard.
- The boot code (ACPI, PCI, IDE probe, descriptor tables, interrupt controller): straight lines that run once, whose effect
  is in `Init` and in the actions (handlers are not interrupted; the kernel's part is in every space).
- User programs other than the shell: what any of them can do through system calls is what the actions allow.
- The ARM port, and files that are not in the build.

## 10. The proofs

They hold for any set of task slots, any number of pids and packets, any clock, read length, configuration file and machine.
Their assumptions are the named ASSUMEs of the modules: special values differ from each other, bounds are naturals, and the two of section 6. A machine's ramdisk is any
sequence of records with names and sizes (`MachineAssumption`); no name is empty, since such a record is the archive's end to the code. Its paths are any, relative ones included: of the component that
a path begins with, `Shorter` says what is left without its first character, and that may be a name of the archive.

**Sched** (`SchedProofs`). The inductive invariant is `SchedInv == TypeOK /\ QueueOrder /\ CpuOwner /\ SignalFrame`.
`AllListed` itself is of no use in an induction, since it speaks of a reachability that one step
changes everywhere at once. `QueueOrder` is local (each link leads to the next higher living pid, the last
one to nothing) and implies it: lemma `ListedIsAlive` shows that `Listed` is
`alive`, from the least living pid that a closed set would miss. The step is
split as the code is: enabling a task (`Enable`), and the switch, whose effect on
the list (`Reap`) needs from `CpuOwner` that at most one task, the current one, is stopped. So the conjuncts
depend on each other: without `CpuOwner` two neighbours could be removed at once, and
`Unlinked` would leave a link to a freed slot.

Theorems: `Invariant`, `TypeCorrect` (`TypeOK`), `ListOrdered` (`QueueOrder`), `NoTaskLost`
(`AllListed`), `ProcessorOwned` (`CpuOwner`), `HandlersOwned` (`SignalFrame`), `SignalStaysPending` (`SignalKept`), which follows from `Invariant` action by action:
only `sys_sigreturn` clears a pending signal, and it leaves the frame with it; a kill sets it, to 0 only if that is its number; a fault enters the handler with SIGSEGV.

**Lives of tasks** (the second part of `SchedProofs`). For lives only five things happen: a handler hands the processor over, bears a task, interrupts a wait, ends a read,
or keeps everything (`HandlersDo`). `SwitchEffect` says what the switch does to the flags of every task, and
`TurnIsNext` that the walk from the current task over the wrapped list finds the next pid that `TaskLife` gives the turn to.
`WaitsEndRightly` (`NoEarlyWake`) is about who loses the flag WAIT; `SchedImplementsTaskLife` (`ImplementsTaskLife`) is the refinement.

**Terminal** (`TerminalProofs`). Each step of the composition is a step of `Sched` or leaves its state alone
(`StepSchedules`), so `SchedInv` carries over. On top of it the invariant is
`TermInv == TerminalTypeOK /\ HolderReads /\ OneRead /\ NoOverrun /\ StoredCounted`. `OneRead` (a task has
one read pending, made in the frame it is in) is needed because a kill can put a reader back into
its handler, and `StoredCounted` (what is stored was counted) bounds what lies in the buffer.

Theorems: `TerminalInvariant`, `TerminalTypeCorrect` (`TerminalTypeOK`), `TerminalRefinesSched` (`TerminalSchedules`), `HoldersRead`
(`HolderReads`), `NoBufferOverrun` (`NoOverrun`), `ReadsComplete` (`ReadsFull`), and `BusyTasksRead` (`BusyReads`), which assumes that nobody opens
the keyboard's terminal by name: otherwise it is false, as section 3 says.

**Rtl8139** (`Rtl8139Proofs`). The invariant is `RtlInv`: the types, `PacketsNumbered`, `SendingUsed`, `OneTransmission`,
`SeenExpected`, `IsrExpected`, `Gapless`, and that the assertion has not halted the kernel.
`NoGap` describes the set of buffers in use as a whole; `Gapless` says the same of each
buffer (it is in use iff its distance from the first one is below the number in use), which
is what a step can be checked against, and `GaplessIsNoGap` leads back. `AllocIsNext` shows with it that the
search for a free buffer ends right behind the last one in use. `CompletionExpected`
speaks of the handler at its assertion; that follows only if it was already true while the completion stood in
`isr` (`IsrExpected`) and since the handler read it (`SeenExpected`). The queue is refined step by step: an accepted packet is
`Accept` (`TxAccepts`), what the card does with a buffer is `Leave` (`CardSendsLeaves`), and
the handler freeing the buffer is no step of the queue (`TransmitOkStutters`).

Theorems: `RtlInvariant`, `RtlTypeCorrect` (`RtlTypeOK`), `BuffersInOrder` (`NoGap`), `SendsOneAtATime`
(`OneTransmission`), `HandlerAssertionHolds` (`CompletionExpected`), `DriverQueues` (`ImplementsTxQueue`).

**Network configuration** (`NetConfigProofs`). `ConfigUnderstood` compares the tables with the lines read so far; to keep it, the proof needs
what the parser carries from line to line: that it is under a heading of the card exactly if the file is
(`HeadingFollowed`), and that its mask is the one last written (`MaskFollowed`). The lines described so far grow by one at most, and `Carry` is the set the last mask comes from.
Theorems: `ConfigTypeCorrect`, `ConfigRight` (`ConfigUnderstood`).

**Arp** (`ArpProofs`). Composition by refinement: each step of `Arp` is one of the driver or leaves it alone (`ArpRefinesDriver`: `ArpUsesDriver`), and
one of the configuration or leaves it alone (`ArpConfigures`), so `RtlInv` and `ConfigInv` hold in it, and `TablesRight` follows from `ConfigRight`.
`ArpInv` adds the order of the boot and that a route is resolved only by an answer that was received
(`ResolvedRight`: `ResolvedByGateway`). For `AnswersOnce` (`AnsweredOnce`) the invariant is a balance, `Paid`: what the driver has accepted is at most
what the boot asked and the requests among the packets handled so far. `ArpTypeCorrect` is the type invariant.

**Shell** (`ShellProofs`). `KeysInv` makes `ShiftSound` inductive (`ShiftNeverSticks`): the flags are two bits and no key but a shift key is held. `ShellInv`
says for each place the shell can be at what it has open: nothing but its standard files and no child (`Tidy`), one file more, lying in
`fd` (`OneMore`), or a child it waits for (`Waits`). It gives `ShellLeavesNothing` (`ShellCloses`).

`FilesStayPlaced` (`PositionSound`) is about every step of the shell and of any programs. Its invariant, `Placed`, says of every descriptor what `Sound`
says of a file: it lies between the beginning and the end of one record, with `left` bytes to that end, a listing stands at a record or behind the last
one (`Resumes`), a device is the one the path names. It rests on what the code's walks compute, for an archive and a path of any length: where records lie
(`Headers`: each address is the last one and its blocks), that the walk over them stands at a header or behind the end after each step (`NextStop`), so that what it finds is a
record of the name it looked for (`FoundIsFile`) and a listing resumes at a record (`ReadEntryResumes`); which of the two mounts a path goes to and
what is left of it there (`LookupIs`), which is what makes the name of the record or the node the one that the path spelled, or, if it has no slash in
front, spelled but for its first character (`NamedBy`, `SkipNames`, `RecordSound`, `NodeSound`). The walks are folds; what holds at first and is kept by a step of one holds at its end (`FoldExists`, `StepsKeep`, with well-founded minima
in place of an induction). That the paths the shell opens are paths at all (`MeantIsPath`) needs that its line and its argument are characters (`TextOK`).

`DescriptorsImplementOpenFiles` (`ImplementsOpenFiles`) is the refinement: under the mapping `Table`, which gives each descriptor the thing it names and how
much of it is behind it, every system call is a step of `OpenFiles` or none (`Follows`, one lemma for each call). Beyond `Placed` it needs `Kept`: what an open file names is one of the
things of this machine and its progress is a number up to the length of that thing (`Firm`; `ThingIs`, `LengthIs`). For a file the progress is the size less
what is left, for a directory the number of its records that the listing is past. So a read must be shown to move on by what was read and no further
(`ReadFirm`), and a listing never to go back: the address that `ReadEntry` returns is not below the one it started from (`ReadEntryOnward`), so the set of
records behind it only grows, inside the set the directory has (`ListedIs`, `ListedGrows`, `DirectoryIs`). An open takes the lowest free
descriptor at progress nothing (`OpenedFirm`), and a fork gives the terminals and no more (`StartFirm`).

`DirectoriesListAll` (`ListsChildren`) is about a whole listing. `MatchIsIn` says that `initramfs_check_path_match`, which compares the beginnings of paths and their
depths, takes exactly what is in the directory where no other directory begins like it, and that the name is then what is behind the slash. From any place a
listing can stand that ends in time (`Stations`, which `Kept` carries with the descriptor), one call gives the least entry ahead and goes behind it (`ReadEntryIs`),
so after each call the names listed are those of the entries that are not ahead any more, in order (`ListedSo`, kept by `ListGoesOn`), and
one call more than there are records lists them all (`ListingIs`). The root needs that the archive ends with a file (`Steady`), since the code looks for the two zero blocks
only behind one. That a component that continues another is not empty is `LongerAssumption`. What is in a directory (`IsIn`) is said without the walk: the components of the record's name but for the last one are
those of the path without the slashes at its end (`ParentIs`, `TrimmedIs`). So `/bin/` has the files of `/bin`, the code does not list them, and a path with such a slash is in `Confused`, as is the root of an empty
archive.

`ScreenShowsTheEnd` (`ScreenShows`) is about the console under all these writes. A text is a page of lines, none of them full (`Sheets`: at least one line, each shorter than
`Width`), and `EndOf` of a page is what should be seen. `EndIs` gives the cell of every position by the line above which the screen begins (`Above`) and the place in it
(`Spot`). One character is one lemma per case of `x86_con_putc`: a new line with or without scrolling (`LineAgrees`), a character in the last line (`CharAgrees`), one
that wraps (`FullLine`, `LastAgain`), a backspace (`RubAgrees`); `TypedShows` is their sum. `ScreenFollows` carries it over a whole write, as a fold, and
`PaperGoesOn` says that one write after another is one text, so `Pictured` (the screen is the end of the page made of all that was sent) is inductive.

`EchoIsRight` (`EchoAgrees`) joins the parts. `LastLine` is a fold over all that was sent, by anybody; `LineGoesOn` is the one fact about it that is needed: a character
more is one more step (`OnLine`). `Echoed` says that the prompt and the line stand at the end of that last line (`Closes`, which `ClosesIsSuffix` ties to `IsSuffix`)
not only while the shell waits but also when it has a key and has not handled it yet, which is what makes it inductive. A step keeps it because the shell is then alone (`Tidy` of
`ShellInv`: its terminal is the one it started with and no child lives, so nobody else writes), because `printf("# ")` writes exactly these two
characters (`PromptIs`, through the whole of `vsnprintf`), because a backspace is sent only if the line has a character to take back
(`ClosesLess`), and because a printable character is never a new line or a backspace (`PrintableAssumption`). Types come along: `Within` bounds what was written, and
`ShellTyped` needs for `Len(line) < LineSize` that a line which is read on has room for one more, also once the key is there. Together they give `ShellTypeOK` (`ShellTypes`). The
sizes are those of the code or any other: a line buffer of at least two bytes, and a buffer of `printf` that the prompt fits into (`ShellAssumption`).

**Heap** (`HeapProofs`). For any size of the region, of a header and of requests, and any ramdisk. That the chain is in order is not inductive, since a free goes through
a link back, and where that is stale the code reads a header which is no longer in the chain and extends it. The invariant `HeapInv` says of all headers, also of those
that were forgotten, what such a walk may rely on: links lead forwards and links back backwards (`Headers`); from wherever the link back of
a block of the chain leads, the links forwards meet that block and do not jump over it (`Met`: there is a set of headers that holds the
chain and the header linked back to, that the links do not leave, and in which no link passes the block); and no link in either direction crosses the
ramdisk (`Sided`), which is why a join can never reach over it. `Held` ties the chain to what is allocated. `Met` is what makes the join with
a stale header harmless for the order of the chain: the block that it extends ends where the old link led, before or at a block that is still in
the chain. The lemmas follow the code: a header that is read, cut (`CutMemory`), freed, joined with the next one and the previous one; each says what happens to
the chain as a set (`NextChain`) and that `Memory` is kept.

Theorems: `HeapInvariant`, `HeapChainSound` (`ChainSound`), `HeapModuleKept` (`ModuleKept`), `HeapGoodUnlessAstray` (`GoodUnlessAstray`).

**Memory of programs** (`ProgramsProofs`). For any number of tasks, pages and pages of the pool, any memory map and programs of any sections. A handler is a long
sequence of steps, and each leaves the memory in a state in which the next one may find anything that the code allows; so the invariant is not
about the variables but about a memory and a set of spaces, `Safe(m, D)`: either the kernel has stopped and the reason is one that `StopExplained`
knows, or `Good(m, D)`. `ProgramsInv` says `Safe(mem, Spaces)` and that no two tasks have the same space; within fork and execve the same
lemmas hold for `Spaces` and the space that is being built (`NewSpace`). The parts of `Good`:

- `Owned`: directories, table infos and tables are taken from the pool and all different, and each row of a directory (`Row`) is empty, the kernel's huge
  page, or a table whose count is between 1 and 15 and, for a program, not above the number of entries that are present. That is an inequality because a table is not cleared
  when it is taken. Six entries (`IndexFinite`) never reach the count's limit, which is why the kernel never stops for a count.
- `Closed` and `Agrees`: the kernel's space maps no user page, and every space maps what the kernel's does. Between the two steps of a window `Closed`
  is false, so `InWindowSafe` takes opening and closing together: the table comes from the pool, and goes back as it was but for one word.
- `Apart`: no page of a program is named by two words of the pool, *whether or not their pages are in use* (`Distinct`), since a page given back is taken again with its words;
  none is named by what is copied into every space (`KernelPlain`); and as long as the search for pages has not come round, all between the pool and the
  hint are used (`Searched`), so that the next page is one that nothing names (`AllocFrameFresh`).
- `Counted`: until the search has come round, a table counts no entries but pages of its program. So an entry that is none is one more than was counted, which is what `Leftover` says.

Each of them is needed for the others: without `Owned` a store into one table could be one into another, without `Distinct` for pages that are
nobody's a leftover could name a page of somebody. The lemmas about words
(`Kept`, `Same`, `Shape`) say what a change of a few words leaves alone. The loops of fork, of the ELF loader and of the clone are shown to keep `Safe` by
`LoopKeeps`, which takes a least counterexample where an induction would need an operator, after `LoopExists` has shown that the recursive function is one.

Theorems: `ProgramsInvariant`, `PoolNeverShared` (`PoolOwned`), `NoWindowOpen` (`WindowClosed`), `StopsExplained` (`StopExplained`), `ProgramsIsolated` (`Isolated`).

On top of it, `ProgramsArePrivate`: `Programs` implements `PrivateMem` (`ImplementsPrivateMem`). `ProgramsTidy` adds to `ProgramsInv` what is known of the contents, `Neat`:
a word anywhere in the pool that names a page of a program is a present user entry of a table in a living space (`Placed`), so a program
that is loaded or forked cannot come upon an old page; and a page that is not in use holds what memory held at first (`Blanked`), since none
is ever given back. Each handler is then described by what it does to what one space finds: `Stores` for a store, `Fills` for a map or the
loader, `Copies` for a page of a fork, `Destroyed` for exit. All of them leave every other space as it was (`Stays`). `ContentsStay` and
`ViewsNext` carry this over to the views of `PrivateMem`, and the lemmas `ForkPromised`, `FexecvePromised`, `ExecvePromised`, `StoresPromised` and `ExitPromised`
name the abstract step of each handler. A handler that stops the kernel is the step `Halt`, in which every program ends; until then
exhausted pages, assertions and a search that comes round are all part of the theorem. What a program finds is what lies in its own pages (`View`): a page
of the pool that it reaches through a leftover or after the search came round is not promised to it, which is the exception that `Isolated` names.

Theorems: `ProgramsStayTidy`, `ProgramsArePrivate` (`ImplementsPrivateMem`).

**Only model-checked.** All liveness, which is out of the prover's reach: `WaitEnds`, `NoStarvation`, `ReadReturns`, `AcceptedLeaves`. Of
files and shell `OutputRight` and `FormatsRight`, which compare what a whole command or a whole format sends with a definition that is written
in another way.

## 11. Where the code and what it says of itself disagree

- `sched_sigreturn`: a program that forks inside its signal handler has a child without a signal
  context; when the child's copy of the handler ends, the assertion in `sys_sigreturn` stops the kernel.
- `terminal_delivers`: a key that arrives while another task than the reader runs is stored through the
  page directory of the running task, while the read counts it (`arch/x86/mm/user.c:64`).
- `net_txop`: when a packet has arrived before a completion is handled, the handler acknowledges
  both and handles one; TXOP stays set and nothing is ever sent again.
- `heap_free`: a cut leaves the link back of the block behind it stale; a later free joins through it, and
  either makes an allocated block invalid or part of a free one, or drops it from the list.

## 12. Plan

Done: the scheduler with its abstract specification, terminals, driver, network configuration and ARP, heap, pages, spaces and programs'
memory, files, shell, formats, and the proofs of section 10. What is left, in this order:

1. `OutputRight`: for `ls` the proof can start from `ListingIs`; for `cat` and `hex` it needs that the pieces read are the file, in order.
2. `vfs_stat`, the limit of mounts, long names in the archive.
3. Drawing on the frame buffer: each cell is drawn inside the screen.
