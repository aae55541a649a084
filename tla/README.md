# A verification of glitched-os

glitched-os is a small Unix-like kernel for one x86-64 processor: paging with
copy-on-write, a round-robin scheduler, processes with signals, groups and
sessions, pipes, a terminal, a virtual file system over FAT and a RAM file
system, and a network stack up to UDP; programs use a C library above it. This
directory holds TLA+ models of
those parts, the TLC configurations that check them on small instances, and
proofs that TLAPS checks for every value of the constants.

Paths below are relative to `src/kernel/`, those that begin with `libc/` to
`src/`. `PROJECT.json` maps every definition
that models code to the lines it stands for.

## How the kernel runs, and what that means for the models

There is one processor. System calls run with interrupts enabled but are not
preempted: the timer interrupt switches tasks only when it interrupted user
mode (`io/8259pic.c`, `irq0_handler`), and inside the kernel a task gives up the
processor only in `yield_current`. So an action of a model is the run of a call
from its start, or from the return of `yield_current`, to its end or to the next
`yield_current`. Where an interrupt handler touches the same state (the terminal
and the keyboard, ARP and ping and the network card, the process table and the
timer) the call is cut into the steps between which the handler can run.

## The modules

| Part of the code | Module | State and actions |
| --- | --- | --- |
| `memory/paging.c` | `Paging` | `memory_bitmap`, `first_usable`, the page tables, their flags, the TLB and what frames hold; mapping, unmapping, fork, page faults, stores, exit |
| what paging promises | `AddressSpaces` | a private memory for every process, copied by fork; `Paging` refines it |
| `memory/mman.c` | `KernelHeap` | the table of regions; `kmalloc`, `kfree` |
| `usermode/break.c` | `Break` | `set_brk`, `sbrk` with the wrap-around of their sums |
| `usermode/scheduler.c` | `Process` | the ring of tasks, the tree of parents and children, `rr_task`, `current_task`; fork, spawn, execve, exit, waitpid, sleep, kill, `check_blocked_tasks`, `gc_tasks`, preemption |
| the same, signals | `Signals` | masks, handlers, the saved context, the trampoline; delivery, `sigreturn`, `sigprocmask` |
| the same, sessions | `Sessions` | `pgid` and `sid`; `setpgid`, `setsid`, spawn attributes, fork, exit |
| `usermode/pipe.c` | `Pipe` | the ring with its two heads, the holders of the ends, calls that wait |
| what a pipe promises | `ByteStream` | a bounded queue of bytes; `Pipe` refines it |
| `usermode/fd.c` | `FileDescriptors` | tables of descriptors, descriptions with counts, what they point to; open, close, dup, dup2, pipe, socket, fork, spawn, execve, exit |
| `drivers/tty.c` | `Tty` | `line_buffer`, `read_buffer` and its heads, end of file; the interrupt and the reader |
| `vfs.c`, mounts | `Mounts` | the tree of mountpoints, their counts; mount, unmount, open, clone, close |
| `vfs.c`, paths | `Paths` | `make_absolute`, `resolve_path`, `chdir` against a reference definition |
| `fs/fat.c` | `Fat` | the allocation table, the hint, directory entries; create, write, truncate, rename, delete |
| `fs/ramfs.c` | `Ramfs` | entries with their four pointers; create, open, close, delete, rename |
| `net/arp.c` | `Arp` | the cache, the one flag, callers in `arp_request`; replies |
| `net/icmp.c` | `Ping` | `pinging`, callers of `ping`; replies and unreachable messages |
| `net/udp.c`, `net/socket.c` | `Udp` | sockets, ports, the packet buffer |
| `net/ip.c`, receiving | `IpReassembly` | the slots for fragments; fragments that are lost, repeated and reordered |
| `net/ip.c`, routes | `Routes` | the table of routes and the choice among them |
| `libc/functions/stdio` | `Stdio` | the buffer, indices and flags of a `FILE`, the file and its offset in the kernel; fopen, fread, fgets, fputs, fwrite, ungetc, fflush, fseek, fsetpos, fclose and the rest |
| what a stream promises | `PlainFile` | a sequence of bytes and a position, with no buffer; `Stdio` refines it |

The proofs are in modules of their own: `PagingProofs` (`Paging`),
`ProcessSteps` and `ProcessProofs` (`Process`), `ResourceProofs`
(`FileDescriptors`, `KernelHeap`), `KernelProofs` (`Sessions`, `Break`,
`Signals`), `RingProofs` (`Pipe`, `Tty`) and `NetworkProofs` (the network);
`Induction` holds the lemmas about loops and lists that they share.

`MCPaging`, `MCPipe`, `MCFileDescriptors` and `MCProcess` instantiate one
component each. `MCKernel`, `MCFiles` and `MCProgress` hold several components
that share no state: the variable `part` is chosen in the initial state, the
variables of the other parts stay as they are, so the state space is the sum of
those of the parts.

Data is abstracted to what the properties tell apart: a byte is one of one or
two values, a register context is where the process was, a datagram is valid or
not, a size is counted in pages, clusters or pieces. Control is kept: early
returns and error paths that change state are there, but for those named under
"Bounds" and "Limits of the code" below. Where the code leaves the states a
property speaks of, a history variable says so (`overrun`, `trampled`, `misused`,
`overlapped`, `fat_failed`, `fat_torn`), and the property shows that nothing else
does. Two models choose a
*world* in their initial state (`Process`, `FileDescriptors`): which processes
exist, which signals are sent, and which operations may fail; this keeps
combinations that multiply the states apart without leaving any of them out.

## The runs

Nine runs pass.

* `paging_fork`, `paging_tables`: two processes, one page and nine frames, so
  that memory runs out; then one process and pages under two tables, with the
  kernel's half. Reference counts are exact, a page that is writable is
  exclusive, no stale translation survives a change of its entry, the zero page
  stays zero, the search hint passes no free frame, a table lives exactly as long
  as its pages, and each process sees a private memory (`PrivateMemory`, the
  refinement of `AddressSpaces`).
* `pipe_stream`: two processes and a ring of three slots, which fills up and
  wraps inside a call: the pipe is a bounded queue (`IsByteStream`, the
  refinement of `ByteStream`).
* `fd_sharing`: three processes, two descriptors each, two descriptions; and two
  processes for which closing, truncating and loading a binary fail at will.
* `process_tree`, `process_turns`: up to four task structures, which is what a
  child, a grandchild and an `execve` need, with timer interrupts inside calls;
  then liveness.
* `kernel`: signals, sessions, heap, break, terminal, ARP, ping, UDP, reassembly
  and routes.
* `files`: FAT with four clusters on a table that is larger than the disk, where
  cluster 4 stands for those whose low half is 0, RAM
  file system with three entries and two levels, up to three mounts on two
  directories, paths of up to five tokens, and a stream with a buffer of three
  bytes on a file of up to four, whose reads and writes fail or are cut short,
  which is sought to before its start and loses its buffer to `setvbuf`:
  through all of it the program sees a plain file (`StreamIsFile`, the refinement
  of `PlainFile`).
* `progress`: liveness of signals, terminal, pipes and ARP.

Three runs end in a counterexample; each contradicts a line of the repository
that the finding in `PROJECT.json` quotes.

* `pipe_blocking_write`: `write` hands `O_NONBLOCK` to a parameter called
  `blocking`, so a plain write to a full pipe gives up and a non-blocking one
  waits.
* `process_waitpid_race`: a timer tick between the assignments of `waitpid` makes
  it report another child than the one asked for; the shell asserts otherwise.
* `fat_delete`: the first deletion of an empty file frees entry 0 of the
  allocation table, the second one never ends.

Every property of a passing run has a mutant in `PROJECT.json`: a plausible bug
in the code (a guard dropped, an off-by-one, a missing reset) under which TLC
finds the property violated.

### Bounds

Bounds are constants, named and commented where they are declared (`MaxPid`,
`MaxDepth`, `MaxBytes`, `MaxOpen`, `Sizes`, ...). They are chosen so that every
limit of the code is reached: frames, descriptors, descriptions, slots of the
ring, entries of the heap's table, buffers, slots for fragments, routes and
clusters all run out, rings wrap, and pids are used up. Some bounds keep the
models inside what the code gets right, and are named for it:

* `MoveDirs = FALSE` in `Ramfs`: with directories renamed, `TreeIsWhole` fails,
  because `ramfs_rename` takes the entry out of its list before
  `ramfs_add_dirent` can refuse, and clears its children;
* the behaviours of `Fat` end when a chain is torn (`fat_torn`), those of `Tty` when
  a newline is stored behind `line_buffer` (`trampled`), since what they do from
  there on is not defined by the state of the model;
* worlds in which tasks are stopped (`"STOP"` in `world.sigs`) have no guarantee
  on what `waitpid` answers, on what a waiting task points at and on the lists of
  children (`Unstopped`): stop and continue signals overwrite the state of a task
  that waits, and a zombie that is continued runs again with a list of children
  that `exit` has already given to init;
* in `Stdio`, `fwrite` on a line-buffered stream is left out where the kernel may
  take a part of a write, and `clearerr` while the buffer is full: see below. A
  program that sought to before the start seeks again before it writes. A flush
  there fails, as it does on FAT, which runs out of clusters; the RAM file system
  would allocate without end;
* in `Paths`, paths are shorter than `MAX_PATH`; `make_absolute` and `resolve_path`
  cut off longer ones (`vfs.c:92-114`, `134`, `172`);
* in `Mounts`, an `open` or `close` of a filesystem that fails changes nothing, which
  is what `vfs.c:439` and `vfs.c:462` do; only GlitchFS can fail there.

The terminal of the run `kernel` has a ring of two slots and lines of four: both
the overrun and the newline behind the line are reached. Its UDP has two sockets
and three ports, one of them not ephemeral, so that ephemeral ports run out and
ports are bound twice, without a type, and given up.

`files` merges states that differ only in what the last call of a stream told or
in bytes of the buffer that are never read again, and names that only swap roles.

`CHECK_DEADLOCK FALSE` is set where the system may really stop: a fault or a
panic, a machine on which every process has exited, bounds of history variables.

### Fairness

The scheduler is round-robin and the timer does not stop, so a process that
waits in a loop over `yield_current` runs again and again: weak fairness of its
step. In `Signals` interrupts recur while the process is in user mode (weak
fairness of `interrupt`); nothing is assumed of the program, and that its handlers
return is a premise of `KillEnds` itself. Strong fairness is assumed for steps that
others can disable in between: the turn of a task that shares the processor
(`Process`), and a caller of `arp_request`, which waits while others are inside the
kernel. In `Process` a call that is in the
kernel goes on (`WF(InKernel)`), and ticks and ends of time slices recur
(`SF(irq_tick)`, `SF(slice_ends)`). Nothing is assumed of what
arrives from outside: no reply, no key and no signal ever has to come.


## What is proved

TLAPS checks the proofs below for every value of the constants that satisfies
the named assumptions of the modules; TLC evaluates these on every run. They say
no more than the code does: sizes are positive, special values (`Kernel`, the
zero page, `NULL`, results of calls) are told apart from ordinary ones, the frame
of the zero page is reserved, a slot of a page belongs to one table, there are
finitely many task structures.

Loops and walks along lists are recursive functions over their turns. That such a
function has the value its definition says, and that what one turn preserves all
of them do, is proved in `Induction` from the least element of a set of numbers
(`LeastNat`, `Iterate`, `BoundedInduction`).

* **Paging.** `PagingInvariant` establishes `PagingInv`; `RefcountsAreExact`,
  `NoSharedWritablePage`, `ZeroPageStaysZero`, `TranslationsAreCurrent`,
  `HintMissesNothing` and `TablesGoWithTheirPages` follow from it. Exact counts are
  not inductive alone: a frame that is freed must not be reachable through a
  table that is itself freed, so the invariant also says which slots have tables,
  that tables are not shared, and what a cached translation may say. The argument
  goes from counting lemmas (how the number of entries that point to a frame
  changes when one or many entries change) to one lemma per action to the
  invariant. `PagingImplementsPrivateMemory` uses it to map every step to a step of
  `AddressSpaces` or to none.
* **Scheduler.** `SchedulerInvariant` establishes `IInv`, that is `ProcInv` unless a
  signal stops a task, with interrupts inside calls and any number of tasks.
  `RingStaysWhole`, `TreesMatchParents`, `PidsNameOneTask`, `WaitersHaveTheirChild`
  and `WaitpidAnswers` follow. What a walk along a list finds depends on the order
  of the list, so `ProcInv` gives the ring and every list of children a rank: each
  node links to the next higher one. Taking tasks out (`gc_tasks`) keeps the ranks
  of the others, putting one in behind its parent (`fork`, `execve`) or handing a
  list over in reverse (`exit`) changes them in a known way. The rest of the
  invariant says in which states the current task can be at each point of the
  kernel (`Runs`), that pids are old and distinct, and follows the child a caller
  of `waitpid` asked for from the first half of the call through the timer's
  `check_blocked_tasks` to the result (`Waits`, `Answers`).
* **File descriptors.** `FdInvariant`, then `RefcountsAreExact`, `OpensAreExact` and
  `NothingIsUsedAfterClose`: the number of entries that point to a description is
  followed through loops over whole tables (fork, spawn, exit) entry by entry. The
  invariant counts in the tables of tasks that exist; where a close fails it keeps
  only the inequality.
* **Kernel heap.** `HeapInvariant`: the entries in use tile the heap without gaps,
  and the taken ones are what callers hold. `AllocationsAreDisjoint` and
  `NoPageIsMappedTwice` follow. The tiling is needed because disjointness of what
  is held does not say that the rest, from which the next piece is cut, is free.
* **Program break.** `BreakInvariant`: the heap is the pages from `initial_brk` to
  the rounded break and no unmapped page holds anything; `HeapsEndAtBreak` and the
  action property `HeapsGrowByZeroes` follow, for words of any size that wrap.
* **Signals.** `SignalInvariant`: where the one caught signal is on its way through
  handler, trampoline and `sigreturn`, the saved context is the one it interrupted;
  `HandlersReturn` follows.
* **Sessions.** `SessionsInvariant`: who leads a group or a session is a member of
  it; with it `GroupsLieInOneSession` survives `setpgid`, `setsid` and the reuse
  of ids.
* **Pipes.** `PipeInvariant`: the heads are inside the ring, an end is counted
  exactly while somebody holds it, and a call that waits holds its end and has
  bytes left. Lemmas about the modulus show that a read takes the oldest bytes of
  `Contents` and a write appends to them; hence `PipeImplementsByteStream`, and
  `CallsHoldTheirEnds` (no pipe is freed under a call that waits).
* **Terminal.** `TtyInvariant`: the ring holds what is waiting, also when the
  reader's head is one past the end between its two statements. That the test of
  the code for a full ring is enough, everywhere but in that place, is
  `TestIsEnough`: it is false exactly while a slot is free, by arithmetic on slots
  modulo the length of the ring. `LineInvariant`: characters stop two short of the
  end of `line_buffer`, so the last two places hold newlines when it is full.
  `TerminalsAreFifo` follows from both.
* **Network.** `RequestsResolveRight` (the flag is up only while a call searches,
  and a cache entry belongs to its address), `PingsTellTheTruth` (a caller that is
  alone inside sees `pinging` at zero only once it was answered),
  `OpenPortsHaveOneSocket` (inductive together with the types: every call moves one
  socket from one port to another, and a port that is found closed has no socket), `DatagramsStayIntact` (every stored piece lies where it
  lay in its packet; an accepted datagram therefore is one that was sent) and
  `RoutesAreBest` (by induction over the turns of the search).

## What is only model-checked

Liveness (`process_turns`, `progress`) and everything that depends on `ENABLED`,
which the prover does not treat. `Process` where tasks are stopped: there
`RingIsWhole` is checked for up to four task structures and not proved, because
the tree, on which it depends, is not kept. `Paths` and `Stdio`, whose loops over
tokens and bytes are recursive operators that the prover cannot reason about, and
with them `WdIsMeant` and `StreamIsFile`. And the file systems: `Fat`, `Ramfs` and
`Mounts`.

## Limits of the code seen while modelling

The models contain these, or their bounds stop short of them; no passing run
claims otherwise.

* A write that waits on a pipe and is interrupted reports `EINTR` although a part
  of it is in the ring (`usermode/pipe.c`).
* A spawn that fails late leaves the counts of the descriptions it shared raised
  (`usermode/scheduler.c:415`). `RefcountExact` and `OpensExact` count the table that
  is abandoned with the others and do not show this leak.
* Two caught signals that are pending together share one saved context
  (`usermode/scheduler.c:171`); `ReturnsToInterrupted` is about one caught signal.
  SIGKILL waits for a handler to return, for ever if it does not
  (`usermode/scheduler.c:157`).
* `kmalloc` and `kfree` are single steps; the frames the network interrupt allocates
  (`net/ethernet.c:57`) can come in between their statements.
* Between `read_head++` and `read_head %= 4096` (`drivers/tty.c:103-104`) the test
  for a full buffer cannot be true at its end: a character that arrives there
  overruns a full buffer. And with a full buffer each newline is stored behind the
  line that could not be delivered, the 1025th place being behind `line_buffer`
  (`drivers/tty.c:53`).
* Overlapping pings may report success without a reply; a full ARP cache makes
  `arp_request` fail after a reply. What keeps a packet put together from several
  senders' fragments from a program is its checksum, which the model takes to be
  ideal.
* `bind` ignores that the port is busy, so two sockets share it and the first close
  ends it for both; an address without a type opens a port nobody closes; the
  system call `unbind` leaves the address in the socket, whose next close ends the
  port for whoever has it by then.
* `fat_rename` of a file to its own name frees its chain, and loses the entry or
  leaves it with the freed chain (`fs/fat.c:873`). `fat_truncate` marks a new cluster
  one turn too late and takes it again; a growth by three clusters or more that
  then runs out leaves a chain that points to itself (`fs/fat.c:964`).
  `fat_write_to_file` tests the low half of the first cluster only
  (`fs/fat.c:767`): a file that starts at a multiple of 65536 gets a new chain and
  the old one is lost. On a full disk the first write to an empty file goes to
  "cluster 0", the end of the last copy of the table; with fewer than two copies
  that is in use.
* `unmount_filesystem` forgets a mountpoint whose filesystem then refuses
  (`vfs.c:423`); no property excludes it.
* `ramfs_rename` loses a directory renamed into itself; `rename_file` wants the
  new path to exist.
* `_PDCLIB_open` knows `FAPPEND` alone, `_PDCLIB_filemode` sets `FAPPEND` and
  `FWRITE`: `fopen` with `"a"` always fails (`Stdio`, `OpenFlags`).
* When the flush at the end of a line-buffered `fwrite` is cut short, the old
  index is restored over a buffer that has moved (`libc/functions/stdio/fwrite.c:91`):
  bytes go out twice. `Stdio` without the bound mentioned above shows it. After a
  failed flush of a full buffer and `clearerr`, the next character is stored
  behind the buffer.
* The offset of a description is a `size_t` (`usermode/fd.h:30`), so the test for a
  negative one (`usermode/fd.c:117`) is never true: a seek to before the start fails
  and leaves the offset behind every end, until the next seek.
* `setvbuf` with `NULL` and a size that the present buffer fits sets the buffer to
  `NULL` (`libc/functions/stdio/setvbuf.c:84`), where `stdio.h` promises "a buffer of
  given size allocated internally": reads fail, and a write ends the program.
* `fsetpos` does not clear the end-of-file indicator
  (`libc/functions/stdio/fsetpos.c`), where `stdio.h` says that it "is cleared".
* `fgets` stores up to `n` characters and a terminator
  (`libc/functions/stdio/fgets.c:47`), where `stdio.h` says "at most n-1"; the model
  reads `n`, and none for `n = 1`.

## Not modelled

* `fs/glfs.c` forwards to a library that is not in the repository; `fs/devfs.c` is a
  view of static tables.
* The network card, frames and the sending half of IP: register programming and
  layout. What they do to the layers above (loss, repetition, delay, reordering)
  is in the models of those layers. The answer to an echo request, sent inside
  the interrupt, is left out.
* Block devices, console, framebuffer, keyboard, mouse, serial line, clock:
  programmed I/O and tables.
* Start-up, descriptor tables, panic, power, the dispatch of system calls and the
  loading of programs, which is a step that may fail in `Process` and
  `FileDescriptors`.
* The bytes of files and subdirectories of FAT, names and time stamps; the blocks
  of the RAM file system.
* User programs; of the C library, everything but the streams: `printf` and
  `scanf`, strings, mathematics, time zones, big numbers; the shell and the boot
  loader. They are third-party code kept in the repository and make up about four
  fifths of its lines, mostly sequential computation on strings and numbers with
  no state a model checker could add to its tests. This is why the map covers a
  small share of all lines, though it covers most of the kernel code that keeps
  state.
