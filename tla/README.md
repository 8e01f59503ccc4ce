# Verification of seed-forth

seed-forth builds a Linux system from a hand-written hexadecimal seed: a Forth,
a C compiler written in it, a small kernel (K0) that runs the compiler, and a
Unix-like kernel (K1) that runs musl, tcc, GCC, make, bash and coreutils until
they can build Linux.  This directory holds TLA+ modules that model parts of
that program, TLC runs that check them on small instances, and theorems that
TLAPS proves for every instance.

K1 comes first.  It is the one part where several actors interleave
(processes, signals, the clock, the timer tick), where a mistake is a lost
wakeup or a stale pointer rather than a wrong byte, and where the tests (builds
that either finish or hang) say least about why.

## The system

| Component | State it keeps | Operations | What is hard | Correct when |
|---|---|---|---|---|
| K1 scheduler (`k1/proc.c`) | `procs`, `cur`, each process's `state` and `chan` | `proc_new`, `schedule`, `sleep_on`, `wakeup`, `yield` | one CPU, cooperative in the kernel, preempted in user code; panics when no one can run | every runnable process runs; no sleeper whose condition holds is left asleep |
| K1 processes (`k1/proc.c`) | `pid`, `ppid`, `pgid`, `status`, `vfork_parent` | fork, vfork, exec, exit, wait4, `reap` | a vfork parent reads its child's struct; orphans; exit while others sleep | every process keeps a live parent; each status is taken once, by that parent |
| K1 signals (`k1/proc.c`, `k1/sys.c`, `k1/main.c`) | `sigpend`, `sigmask`, `sa`, `suspend_mask`, frames on user stacks, `async_full`, alarms | kill, sigaction, sigprocmask, sigsuspend, sigreturn, `deliver_signals` and its four callers, `check_timers` | masks saved in one step and restored many steps later; calls interrupted and executed again | the program's mask always comes back; a signal is not slept through; restarts match SA_RESTART |
| K1 pipes, descriptors, poll (`k1/fs.c`, `k1/sys.c`) | `struct file`, `struct pipe`, `fd[]`, `cloexec[]`, the FIFO inode's pipe | pipe, read, write, close, dup, dup3, open of a FIFO, poll, ppoll, select, pselect6 | reference counts through fork, dup, exec and exit; partial writes; sleepers of two kinds | counts are exact; no sleeper misses its event; no pipe is freed under a user |
| K1 files and directories (`k1/fs.c`) | inodes, radix of pages, directory list and hash, open files, working directories | namei, create, link, rename, unlink, getdents64, read, write, truncate | list and hash kept equal; an inode freed exactly once; a directory read while it changes | lookup agrees with the list; the tree has no cycle; an inode lasts as long as its names and users |
| K1 memory (`k1/mm.c`) | free pages, size classes, VMAs, page tables | `palloc`, `kmalloc`, mmap, munmap, mprotect, mremap, brk, faults, fork's copy | splitting and merging of ranges, wrap-around | VMAs disjoint; page tables allow what the VMAs do; no page or block owned twice |
| K1 disk (`k1/ata.c`) | two drives | sector reads and writes, `ata_dev_rw`, `disk_import` | partial sectors, failure in the middle | other bytes of a sector are preserved; what is reported was done |
| K1 hand-off (`k1/linux.c`) | memory regions | take memory for kernel, initrd and tables, fill it, jump | no room half way | nothing Linux gets is anyone else's |
| Seed and Forth library (`000-seed.hex0`, `010-lib.fth`) | stacks, dictionary | Forth words | none concurrent | |
| C compiler (`020-*.fth` to `120-*.fth`) | token stream, macro table, scoped symbols, types, code buffer, fixups | preprocess, lex, parse, emit ELF | nesting of conditionals, macro recursion, layout arithmetic, label patching | each pass computes what C says |
| Assembler (`130-asm.fth`) | symbols, fixups | assemble | forward references | each reference is patched once |
| K0 (`k0/`) | RAM files, page tables | load and run the compiler | straight line | |
| Tools, ladder, GCC build, patches, tests, book | none | build recipes, data | none | |

A system call runs in the kernel from `syscall_c` to its return unless it calls
`sleep_on` or `yield`; then `schedule` gives the CPU to the next runnable
process.  Processes meet in three ways: through the fields of each other's
`struct proc` (signals, `vfork_parent`, `ppid`), through `wakeup` on a shared
channel (a process, a pipe, `pollq`), and through shared open files.

## Modules

| Module | Models | Composed of |
|---|---|---|
| `K1Sched` | the process list, `schedule`, `sleep_on`, `wakeup`, `yield` | |
| `K1Proc` | processes, signals, alarms, ticks and faults | `K1Sched` |
| `ProcLife` | abstract: what fork, exit and wait promise | |
| `K1Pipe` | descriptors, pipes, FIFOs, poll and select | `K1Proc` |
| `K1Vm` | address spaces: VMAs, page tables, frames, the TLB | |
| `UserMemory` | abstract: the memory a Unix program has | |
| `K1Fs` | names: inodes and counts, directories, path walks, open files | |
| `FileTree` | abstract: a Unix tree of names | |
| `K1Alloc` | physical memory: `phys_init`, pages, `kmalloc` | |
| `K1Disk` | `/dev/hda` and `/dev/hdb` as files of bytes | |
| `K1Data` | a file's bytes in its radix of pages; the kernel's blocks, the import of K0's files and the hand-off to Linux in the same memory | `K1Alloc`, `K1Disk` |
| `ByteFile` | abstract: a file of bytes and its open files | |
| `MCProcTree`, `MCProcSignal`, `MCProcLive`, `MCPipe`, `MCVm`, `MCFs`, `MCStore` | instances for TLC | the above |
| `K1ProcProofs` | types and the process tree: `TypeCorrect`, `TreeInvariant`, `ParentAlwaysLive`, `LivesImplemented` | `K1Proc` |
| `K1WakeProofs` | wakeups and the ends of waits: `WakeInvariant`, `VforkAlwaysHeld`, `VforkAlwaysReleases`, `NoChildEverMissed`, `NoSignalSleptThrough`, `WaitMasksEnd` | `K1ProcProofs` |
| `K1MaskProofs` | masks and restarts: `RestartsMatchHandlers`, `MasksRestored` | `K1WakeProofs`, `MCProcSignal` |
| `K1PipeProofs` | descriptors, pipes and poll: `PipeTypesHold`, `CountsAlwaysExact`, `BlockedPipesOpen`, `NoPipeWakeupLost`, `PollersMissOnlyFull`, `PollersWaitForWriters`, `PollMasksEnd`, `PipeSignalsHeard` | `K1WakeProofs`, `K1Pipe` |
| `K1VmProofs` | address spaces: `VmTypesHold`, `VmasStayDisjoint`, `FramesAreOnce`, `TlbStaysFresh`, `EntriesStayMatched`, `MemoryImplemented` | `K1Vm` |
| `K1AllocProofs` | what each operation of the allocator keeps: lemmas only | `K1Alloc` |
| `K1DataProofs` | drives, files and physical memory: `DiskAlwaysExact`, `DataAlwaysTyped`, `AlwaysApart`, `AlwaysCounted`, `PagesAlwaysHeld`, `PagesImplementFile` | `K1Data`, `K1AllocProofs` |
| `K1FsProofs` | names: `AlwaysInv`, `FsAlwaysTyped`, `TableIsList`, `AlwaysRooted`, `NeverTwice`, `MissesFew`, `FsIsTree` | `K1Fs` |

### How state corresponds to code

`mode` is where the CPU is on the path from user code through a call or trap
and back; `pc[p]` is what `p` goes on with: user code, the blocking call it is
inside, the call an `ERESTART` makes it execute again (`tf->rip -= 2`), or
`do_exit`.  One action is one uninterrupted stretch of kernel code: a call up
to its return or its `schedule()`, one turn of a blocking loop after it, the
tail of `syscall_c`, one `deliver_signals`.  Nothing else can run in between in
the code either, since the kernel is not preemptible and interrupts are on only
in user mode (`main.c`, `timer_init`).

- The list `procs` is not a variable: `proc_new` pushes at the head and pids
  grow, so the list is the pids in use in descending order, and `IsNext` is
  `schedule`'s walk over it.
- `sleep_on` sets `chan` and `state` and calls `schedule`; `SwitchTo` clears
  `chan` when the process gets the CPU back, which is where `sleep_on` does.
- `check_timers` runs first in each call and tick (`CheckTimers` in mode user,
  leading to mode entry) and in each pass of `schedule` (mode sched).  Which
  armed timers are due is free: time itself is not modelled.
- `deliver_signals` has four callers with different tails: mode ret
  (`syscall_c`), sigret (its `rt_sigreturn` branch), tick (`user_tick`), fault
  (`user_fault`).  The three outcomes (nothing or an ignored signal, death, a
  handler's frame) are one action each.
- `suspend[p]` is `{}` or `{suspend_mask}`, `frames[p]` the signal frames on
  the user stack with the mask, the interrupted point and `full`.
- `do_exit` is two steps: `GoExit` where it is called, `DoExit` for its body.
  The body ends in `schedule`, so nothing comes between.
- A process that is reaped has its entries put back to their initial values:
  the struct is freed and the model reuses no pid.
- In `K1Pipe` a descriptor is 0 or an open file with a pipe; files that never
  block are as good as closed here.  Of the ring, only the number of bytes
  (`w - r`) is kept.  `ExecWith` and `ExitWith` take the process states that
  closing the descriptors left, because the closes come first in the code.
  A poll or select is of one descriptor: its number, and what is asked of it (0 when
  it is in no set).  `Asked` is what `do_select` leaves in the program's own sets
  when it returns ERESTART, and so what the call asks for when it is made again.

In the modules of processes programs are arbitrary: in user mode the current process may make any call of
the menu `Calls` with any argument of the menus (`Masks`, `Acts`, `WaitPids`,
...).  Menus are constants, so a theorem holds for all of them.

`K1Vm`, `K1Fs` and `K1Data` have one action per system call, fault or command:
none of these sleeps in its middle, so in the code nothing comes between
either.  Each has a constant `Machines`, and a behaviour starts by choosing one:
a menu of calls and arguments.  One run then covers several instances, each
small, whose product would not be.

- `K1Vm`: an address is a page number.  `mms[i]` is a `struct mm`: `refs`, the
  VMAs, the last level of its page table with the W and U bits, `brk`,
  `mmap_top`.  The code keeps the VMAs in a list and takes the first that fits;
  the model keeps a set, which says the same because no two of them share a page
  (`VmasStayDisjoint`): at most one contains an address, and at most one ends
  where a new one begins.  `frames` is what physical pages hold: a value, or
  the link that `pfree` writes into a free page.  `stale` are the pages for
  which the TLB may still hold an entry that allows more than the page table;
  `invlpg` and a load of CR3 empty it.  A store is possible wherever the page
  table lets the hardware do it; a fault is `mm_fault`.
- `K1Fs`: `inodes[i]` has the kind, `nlink`, `refs`, the parent, the entries in
  list order and the hash chains; `fds[p]`, `cwd[p]` and `files[f].dir` (the
  directory `record_name` keeps) are what holds an inode.  A chain is a set: no
  name is in a directory twice (`TableMatchesList`), so which of several a search
  would meet first does not matter.  The walk along a path is a function of how
  many components are behind, `Leads` one of how many links may still nest.
  `read`, `stayed`, `gone` and `lost` are history, for the properties: how often
  one reading of a directory has returned the entry each name has now, which names
  were there all along, how many were removed meanwhile, and the names an inode
  lost with their directory.
- `K1Alloc`: the allocator is one record, `A` in the operators, `ram` in
  `K1Data`: `new` is what is left of the regions `phys_init` cut, the current
  one from the bump pointer on; then the free pages, kmalloc's lists by class and
  by pages, `mem_used`.  `owned` is history: who was given what.
- `K1Data`: `file.slots` is the tree of tables and pages that `radix_slot`
  builds, `mem` the contents of its pages, `pos` the open files' positions.  The
  recursion of `free_radix` is a set, the keys it clears (`Freed`): what is left
  is checked, not its two limits per level one by one.
- `K1Disk`: `io` is the call of `ata_dev_rw` being made and how far it is,
  `bounce` its static buffer.  One step per command to the drive; each may fail,
  after any number of its sectors.

## Runs

| Run | Instance | Properties |
|---|---|---|
| `tree` | 3 processes; fork, vfork, exec, exit, wait4 (by group, WNOHANG, a bad status pointer), SIGKILL, setpgid, yield, page faults | `ParentLive`, `VforkHeld`, `VforkHolder`, `NoMissedChild`, `ImplementsLife` |
| `signals` | 2 processes, up to 2 nested frames, two signals, handlers with and without SA_RESTART; a parent in wait4, one in sigsuspend, or a program that changes masks and execs | `TypeOK`, `MaskRestored`, `RestartMatchesHandler` |
| `live` | fair; 3 processes that fork, exec, wait and kill, or 2 that set alarms and pause, with a handler or none | `EveryoneRuns`, `VforkReturns`, `KillKills`, `WaitReturns`, `PauseEnds` |
| `pipe` | a ring of 2 bytes; 3 processes on one pipe, transfers of 1 and 3, and poll; or 2 processes on two pipes with dup, dup3, a FIFO, exec, close-on-exec, 2 descriptors, 3 files | `PipeTypeOK`, `CountsExact`, `PipeSleepersWait`, `BlockedOnOpenPipe`, `PollSleepersWait` |
| `pipe_signal` | 2 processes; a fatal signal or a handler with SA_RESTART against read, write of 3 bytes, select, and pselect6 and timed ppoll with a mask | `PipeSleepersWait`, `WaitMaskEnds`, `NoSleepThroughSignal`, `OnlyFullRingMissed` |
| `vm` | 2 processes, 7 pages, 4 frames; four machines: map and unmap, guard pages, grow and move, share and copy | `VmTypeOK`, `VmasDisjoint`, `EntriesMatch`, `FramesOnce`, `TlbFresh`, `ImplementsMemory` |
| `fs` | 2 processes, 4 inodes, 2 open files, 5 names; six machines: a hashed directory, reading one while it changes, moving directories, links, open files over fork and exit, working directories | `FsTypeOK`, `TableMatchesList`, `TreeRooted`, `NoEntryTwice`, `SkipsForRemovals`, `ImplementsTree` |
| `store` | kmalloc and pages under three memory maps, the hand-off to Linux, a file's pages, its open files, a drive of 3 sectors | `DataTypeOK`, `MemoryApart`, `MemoryCounted`, `PagesHeld`, `DiskExact`, `ImplementsFile` |
| `pipe_deadlock` | 2 processes | violated: `DeadlockIsReal` |
| `select_restart` | 2 processes; select, and a handler with SA_RESTART | violated: `SelectKeepsAsking` |
| `vm_readonly` | 1 process that maps files | violated: `EntriesMatch` |
| `vm_wrap` | 1 process that maps, and unmaps a length of -1 pages | violated: `VmasDisjoint` |

### Bounds

`MaxPid` counts the processes ever created.  Three allow a
grandparent, a parent and a child, two children of one parent, a process that
kills a vfork parent or its child, a reader, a writer and a closer on one pipe,
or two runnable processes beside one that waits.
`MaxFrames` is the frames that fit on a stack: two give a handler inside a
handler; overflowing it is the code's `do_exit(11)`.  A ring of two bytes with
transfers of one and three has the empty, partly full and full ring and a write
that must sleep in its middle.
`MaxFd`, `MaxFiles` and `MaxPipes` bound tables; a full descriptor table is the
code's EMFILE, while `MaxFiles` and `MaxPipes` only cut the exploration off.

`signals` adds a history variable, `masks`: the mask each program believes it
runs under, one entry for its main code and one for each handler it is in; and
`menu`, which of three programs this one is.

`live` and `pipe` each look at two small instances in one run.  Their product would
be too large, so an action constraint (`Fits`, in `MCProcLive` and `MCPipe`) leaves
out what is in neither: it cuts only calls that a program chooses to make, never a
step of the kernel, so what is found of the kernel's steps, and of what must
eventually happen, is found of programs that do not make those calls.  In `live`
these are `Family` and `Clock` (where a program sets its handler, if it sets one,
before it forks or sets an alarm), in `pipe` `Talking` and `Sharing`.

In `vm`, page 0 is below 4 MiB: a hint may name it and `pte_get` cannot serve it.
Page 1 is the bss, page 6 the stack, and the four between are enough to cut a
mapping in its middle, join two, leave a hole, and move one to a place that
`pte_get` serves (`Moving`: `top_alloc` starts at page 6, so a mapping of two pages
goes to pages 4 and 5, or 2 and 3).  There are fewer frames than pages that would be
touched, so that frames are given back and taken by others.  Two struct mms are one
that is shared or copied.  Addresses are modulo `MaxAddr` (2^64 in the code, 16
here), of which the program's are the first `MaxPage`; `RangesFit` says that no
length of the menu takes a range out of these, and holds in `vm`, not in `vm_wrap`.
`FileProts` is `{3}` there, since files mapped without PROT_WRITE break
`EntriesMatch` (see below).  `Vals` is `{0, 1}`, the zeroes of a new page and one
other value, which a store writes and a file holds: a page that showed a file's
bytes where it should show what was stored would not be told from one that is
right; one that shows zeroes, a free list's link or another space's page is.

In `fs` a directory becomes a table at two entries (`ListMax = 1`) and tables
start from one bucket (`HashMin = 1`), so that five names whose hashes collide
(0, 4, 1, 5, 8) make it grow, rehash and shrink.  Four inodes make a directory
in a directory in the root.  A reading asks for one or two entries at a time.

In `store`, a page is two units of kmalloc's least chunk, so there are two
classes (`Classes`; any set of divisors of a page that has the page in it does for
the proofs); blocks up to three pages (`BigMax`) are reused and larger ones split.
The three maps are one area, an unsorted one in pieces with a reserved entry,
and one whose entries end inside K0's image.  A table has two slots, so a file has
three levels of tables with 8 pages; a drive has three sectors of two bytes and
a command moves two.  All bytes of one write have the same value: that each comes
from its own place in the source is not checked.  `MaxOwned` (blocks in use at once) and `room` (a file's size)
are bounds of the model alone.

Deadlock is checked in every run but `store`: the machine may stop only by
`qemu_exit` or `panic` (`Halted`), and memory, names and files always have a next
call.  In `store` the machine that has handed itself to Linux has stopped.

### Fairness

- `WF(KernelStep)`: the CPU does not stop inside the kernel.
- `SF(CheckTimers /\ AlarmFires(p))`: the clock passes an armed alarm, and
  `schedule`, each call and each tick look at it again and again.
- `SF(Tick)`: the PIT interrupt stays pending while interrupts are off and is
  taken when user code runs, even if a program leaves user mode at once each
  time.  Strong fairness is needed because each such visit disables the step.

User programs get no fairness: a program may loop for ever, which is what makes
`EveryoneRuns` worth checking.

### What the violations show

- `pipe_deadlock`: a writer that fills the ring wakes the pipe's sleepers but
  not the pollers (`fs.c:518`).  With no one else runnable K1 panics.
  `PollSleepersWait` therefore leaves out a poller of a pipe in which a writer
  sleeps in the middle of its write.  That writer may also be killed or
  interrupted there, and then no one is left who would wake the poller: so
  `PollSleepersWait` is checked where signals do not end a write (`pipe`),
  and `PollersWaitForWriters` proves it for every instance under that hypothesis
  (`WritesUninterrupted`), and `OnlyFullRingMissed` is what holds always (`pipe_signal`, and for every
  instance `PollersMissOnlyFull`): a sleeping poller can miss the bytes of a ring
  that is full, and nothing else.
- `select_restart`: `do_select` copies the program's sets to look at, but clears
  the bits of the program's own sets on each pass that finds nothing
  (`sys.c:724,730,733-735`), and returns ERESTART from such a pass when a signal is
  pending (`sys.c:741`).  The call made again has empty sets: without a timeout it
  sleeps until another signal, whatever its descriptors do.  `PollSleepersWait`
  and `OnlyFullRingMissed`, and their theorems, are therefore about what the call was
  last made with, and say nothing of a select that watches nothing.  With a mask the
  call ends in EINTR and is not made again (`mask_after_wait`).
- `vm_wrap`: `munmap` checks no length.  Where `addr + len` wraps, the end is below
  the start, and `mm_unmap` takes its branch for a hole in a mapping
  (`mm.c:391-400`): `[A, B)` becomes `[A, addr)` and `[end, B)`, which overlap.  The run
  `vm` and the theorems of `K1VmProofs` are about programs whose ranges do not wrap.
- `vm_readonly`: `copy_to_mm` makes an absent page with `palloc() | 7`
  (`mm.c:369`), and `sys_mmap` copies a file with it (`mm.c:506`).  The pages of
  a file mapped without PROT_WRITE are writable, until a fault or mprotect sets
  their bits.

## Known divergences

Met while modelling.  The model does what the code does, and the properties are
stated so that they say what remains true.

- `proc.c:470`: `wakeup(procs)` wakes the newest process and not init; init,
  asleep in wait4, is not woken for a zombie it has just inherited
  (`proc.c:481` says that it reaps orphans).  `NoMissedChild` leaves init out.
- `main.c:385`: with a lower-numbered signal pending, a fault's address goes to
  that signal's handler.
- `fs.c:187`: a removed directory that is still a working directory can be given
  names; when it goes, its entries go without their `nlink`, and the inodes
  behind them stay for ever (`lost`).
- `k1.h:124`: a directory removed under a process that works in it keeps its
  `parent`, which may be freed before it.  `TreeRooted` is about
  directories that have a name.
- `sys.c:384`: getdents64 keeps an index.  A removal between two calls makes it
  skip an entry; `SkipsForRemovals` allows one for each.  A name that was returned,
  then unlinked or renamed over, and made again stands at the end: the same reading
  returns that name once more.  `NoEntryTwice` is about entries, so it does not
  forbid this; POSIX leaves it open.
- `sys.c:741`: a restarted select has lost its sets (`select_restart`).
- `proc.c:630`: `async_full` survives a `deliver_signals` that ends in `do_exit`
  and marks another process's next frame.  That frame is pushed on return from a
  system call, whose caller has lost `rcx` and `r11` anyway.
- `fs.c:713`: `mem_total` lacks the pages of K0's image, which `mem_used` counts
  once they are given out: `mem_used` can exceed `mem_total`.
- `mm.c:93`: a `palloc_contig` that fails leaves `curreg` past the last region,
  and no page can be bumped any more; `linux.c:72-101` uses the last four pages
  it asks for without a check.  `BootLinux` takes a step only where they fit.
- `linux.c:52`: the size of a kernel file shorter than its setup sectors wraps round.
  `BootLinux` has no such file.
- `mm.c:518,528,491,557,560`: no length is checked (`vm_wrap`).  `mm.c:482`: an mmap of
  more than 2^64 - 4096 bytes rounds up to none and leaves a VMA without pages, which
  the model leaves out.
- `mm.c:576`: an mremap whose new place is below 4 MiB stores through the NULL that
  `pte_get` returns; `MremapMove` takes a step only where `pte_get` serves the pages.
- `mm.c:462`: `top_alloc` subtracts without a check, and `mmap_top` never rises
  again after munmap.  `mm.c:449`: a hint below 4 MiB is accepted, and every
  access there is SIGSEGV.
- `fs.c:43`: `radix_slot` takes the index modulo 2^27 pages.  `fs.c:131`: a write
  of no bytes past the end makes the file longer (so it does in `K1Data`).

## Proofs

Each theorem holds for every value of the constants that its assumptions allow.
Those about processes hold for every `MaxPid`, every set of signals that
contains SIGKILL, SIGSEGV, SIGALRM and SIGCHLD, and every menu of arguments
(`MaxPidAssumption`, `SigsAssumption`, `MenusAssumption`); those about pipes for
every number of descriptors, files and pipes, every ring above zero bytes and
every transfer above zero (`PipeAssumption`), with SIGPIPE a signal
(`SigpipeAssumption`); those about memory for every number of pages, frames,
processes and struct mms, every machine whose menus are pages and lengths
(`VmAssumption`), and every program whose areas are apart (`ImagesAssumption`), in
the behaviours whose machine names ranges that do not wrap (`RangesFit`, a
hypothesis of each theorem, since the code does not check it);
the one about the drive for every sector size, chunk and number of sectors above
zero (`DiskAssumption`); those about physical memory and files for every page
size, every set of chunk sizes that divide a page, every place of K0's image and
areas in the order the code has them (`AllocAssumption`), every firmware map that
names no RAM twice, every size of the tables, and every menu of writes, seeks,
truncations and images (`DataAssumption`).

- `TypeCorrect` (`K1ProcProofs`): `Spec => []TypeOK`.  `TypeOK` is inductive as
  it stands: a frame saves only a well-typed point to go back to, and every
  mask is cut by `Unmaskable` where it is installed.
- `TreeInvariant` (`K1ProcProofs`): `TypeOK`, the CPU's owner is runnable
  (`CurRuns`), init lives (`InitLive`), pids to come are unused (`Fresh`), and
  `ParentLive`.  `ParentLive` alone is not inductive: fork needs that the
  forking process is live, exit that init is.  The steps are sorted into quiet
  ones, births, ends and reaps (`StepKinds`), and the invariant is shown for
  each kind.
- `ParentAlwaysLive`: `Spec => []ParentLive`.
- `LivesImplemented`: `Spec => ImplementsLife`.  The mapping sends a process's
  state to none, alive or dead, and `who` to `cur`: only the process on the CPU
  forks, dies or reaps.  The same four kinds of steps map to `Born`, `Dies`,
  `Waited` or to nothing.
- `WakeInvariant` (`K1WakeProofs`): what the four theorems below rest on, in
  two layers on top of `TreeInvariant`.
  `CallInv` says where a process can be in a call: vfork is only ever blocked
  in and never executed again, no signal frame saves a point inside a blocked
  call, and user code is never in one.  `WakeInv` says what the sleepers hold:
  `VforkChild` (a vfork parent is blocked on a child of its own), `VforkSleep`
  (it sleeps on that child, which still holds it), `VforkHolder`, `WaitSleep`
  (a sleeper in wait4 sleeps on itself), and `NoMissedChild`.  A missed wakeup
  would break `NoMissedChild` at the exit, the reaping or the orphaning of a
  child, or at the sleep itself, so the steps are sorted into ordinary ones
  (`Kept`, `Moves` and `Looks`: others only wake up, and who goes to sleep has
  looked first), exec's release of its vfork parent, `Forks`, `Leaves` and
  reaps.
- `VforkAlwaysHeld`, `VforkAlwaysReleases`, `NoChildEverMissed`: `Spec => []`
  of `VforkHeld`, `VforkHolder` and `NoMissedChild`.
- `NoSignalSleptThrough`: `Spec => []NoSleepThroughSignal`.  A step is either
  `Silent` (it adds no pending signal and opens no mask under a sleeper) or
  sends a signal and wakes who must hear it (`Heard`); the calls that sleep
  look at the pending signals in the same step.

- `WaitMasksEnd` (`K1WakeProofs`): `Spec => []WaitMaskEnds`.  That `suspend` is
  empty in user code is not inductive: a mask may be set aside in a call, in its
  tail, or while the process sleeps or waits for the CPU.  `WaitMasks` says
  where: only in a call that waits, on the way from it to `deliver_signals`, or
  in `do_exit`.
  For its proof `Dying` (who is in `do_exit` has not ended yet, or is a zombie),
  `FramesLive` (no frame leads back into `do_exit`), `FreeClean` and
  `RestartAllowed` go with it (`SuspendInv`).
- `RestartsMatchHandlers` (`K1MaskProofs`): `restart_ok` looks at the lowest
  pending signal that the mask lets through, `deliver_signals` delivers it some
  steps later.  `RestartAllowed` is that nothing comes between that changes the
  answer.
- `MasksRestored` (`K1MaskProofs`): `[]MaskRestored` for the program of
  `MCProcSignal`, whose history `masks` says what mask each level of a program
  believes it has.  `MaskInv` relates all of the stack to it: each frame holds
  the mask its level had (`MaskStack`), and the innermost is `sigmask`, or a wait
  has put it in `suspend`.  It takes `SuspendInv` to know that the handler entered
  in a wait saves `suspend` and not the wait's own mask.

The theorems about pipes (`K1PipeProofs`) rest on one invariant, `PipeInv`, of
`PipeSpec`:

- `PipeProc`: what the proofs above keep of the processes.  The calls on
  descriptors are steps of a kind of their own for it (`Turn`: the running
  process leaves the CPU, the others at most wake, and it sleeps only with no
  signal to hear); fork, exec and exit are those of `K1Proc` with the states the
  closes leave.  `PollMasksEnd` and `PipeSignalsHeard` follow.
- `FileInv`: the types, `HeldCounts` (a file's references are the descriptors
  that hold it), `EndCounts` (a pipe's counts are its ends) and `FilesOpen` (a
  file has references exactly while it has a pipe).  Each step changes the row of
  one process, so a count changes by what that row held before and holds now
  (`RowChange`, `RefsFollow`); `HeldOutside` is that a file someone else holds is
  not put.  `PipeTypesHold` and `CountsAlwaysExact` follow: no count is ever
  decremented below zero.
- `Sides`: a process that has ended holds nothing (`Closed`), one in a call on a
  pipe holds an end of it (`HoldsEnd`; so `BlockedPipesOpen`, since the counts
  are exact), one asleep there sleeps on that pipe and has nothing to do
  (`SleepsOnPipe`; so `NoPipeWakeupLost`).  The argument for the others is
  `Announced`: a step leaves alone what a process that goes on sleeping waits
  for, or it wakes it.
- `KernelBlocked`: who gets the CPU back inside a call was blocked in it.

`PollersMissOnlyFull` adds `PollsWait`: a sleeping poller was not ready when it
looked, and since then nothing has happened to its files but rings that filled
(`PollStill`).  Ready is what the call in question counts as ready (`Answers`:
poll's events, or select's two masks), for what it was last made with.  `PollersWaitForWriters` adds who filled them: a step wakes the
pollers of a pipe, or fills its ring and leaves its writer asleep there
(`FillsRing`), or changes nothing they look at (`Calm`); and nothing but a
signal (`OnlySignals`) ends the writer's sleep without waking them.

The theorems about memory (`K1VmProofs`) rest on `VmInv`: `RangesFit` (the machine
of a behaviour never changes, so it holds in all of it when it holds at the start:
with it the end of a range is above its start, `EndIs`), the types with
`refs` the number of users, each struct mm in order (`MmOK`: its VMAs are apart
and none is empty, an entry is present only inside a VMA), no mm without users
that holds anything, `Owned` (a frame is free or in one entry of one page table)
and `TlbFresh`.  None is inductive alone: `munmap` may free an entry's frame only
because it is in no other entry, and `TlbFresh` outlives a fault only because
the page was not there before.  The VMA operators have their lemmas first (what
cutting, joining and splitting leave), then page tables, then each call.
Each theorem has the hypothesis `RangesFit`, without which `VmasStayDisjoint` is
false (`vm_wrap`).  `EntriesStayMatched` has the hypothesis `FilesWritable` too, that
files are mapped with PROT_WRITE: without it it is false (`vm_readonly`).

- `MemoryImplemented` (`K1VmProofs`): `VmSpec => ImplementsMemory`, for the
  mapping that reads a space's memory through its VMAs, its page table and the
  frames, under `FilesWritable` too: without it a program stores where its
  mapping says it may not.  A call changes one memory: a lemma for each action
  shows which pages, and that it is one of `UserMemory`'s five changes
  (`CallStored`, `CallMapped`, `CallRemoved`, `CallProtected`, `CallMoved`) or
  none, as a fault, which gives a page the zeroes it has read since it was
  mapped.  That no other program's memory changes is `Owned`: the frames written
  were free or the process's own (`OthersKept`).  fork, exec and exit leave in
  each space with users what they should, and nothing in the others
  (`SettleIs`): so the pages of a shared space outlive all its users but the
  last.  `KnownProts` goes with `VmInv`: protections come from a call or a
  segment.  `UserMemory` grants what the code does with a file mapped below
  4 MiB, where `pte_get` serves nothing: those pages stay zeroes (`Reach`).

- `DiskAlwaysExact` (`K1DataProofs`): `DiskSpec => []DiskExact`.  `DiskInv`
  adds to it that the bounce buffer holds what is on the drive after the read
  that comes before a partial write (`ChunkLoaded`): without that the write would
  put old bytes of the buffer beside the new ones.  `ChunkInside` is the
  arithmetic: the chunk's sectors cover what is moved, fit in the buffer and end
  inside the drive, and a write that needs no read covers whole sectors.
  `StoredBytes` says what a command that writes any number of them leaves.

The theorems about physical memory and the bytes of files (`K1DataProofs`) rest
on `DataInv`.

- `RamOK` is the allocator's part: all of memory is seen as pieces, owned, on a
  list or not reached yet (`Blocks`); any two of them are clear of one another
  (`AllClear`), none is where K1, K0's image or its areas are (`Bounded`), each
  lies on its alignment (`Placed`), and `mem_used` is the number of units in the
  pieces that count as taken.  `MemoryApart` alone is not inductive: that a page
  cut into chunks leaves pieces apart takes its alignment, that the import's
  pages are apart takes that nothing reached them before.  Each operation of the
  allocator takes one piece, gives one back or cuts one up, and
  `K1AllocProofs` has a lemma for each way.
- `TreeOK` is the file's part: the pages the file owns are those in its slots
  (`Held`), each in one slot (`OneSlot`), a slot in use is in a table in use
  (`Rooted`), a page of bytes has contents (`Leafed`).  `PagesHeld` follows.
- `FileOK` adds that what lies past the size reads as zeroes: truncation clears
  the rest of the last page, and a file that grows again shows zeroes there.
- `PagesImplementFile`: `Spec => ImplementsFile`, where the bytes of the abstract
  file are those the tree leads to.  The loop of `inode_write` over pages is an
  induction over the pages written so far (`AllNat`): each turn adds a page of
  bytes or stops where no page is left, and the bytes before it stay.

The theorems about names (`K1FsProofs`) rest on `FsInv`, which is inductive
(`AlwaysInv`); its parts are relations of one table of inodes to another, so that
a call made of several operations is followed one operation at a time:

- `Shape`: an inode that is free is blank, one that is no directory has no
  entries, a list names nothing twice and the chains hold it (`Distinct`,
  `Chains`; so `TableMatchesList`), a directory has at most one name, in its
  parent, and no set of named directories has all its parents inside (`NoLoop`;
  so `TreeRooted`).  rename keeps `NoLoop` because the directories `is_ancestor`
  has gone through are a set with the parents of its named directories and
  without the one that moves (`NotBelow`).
- `Sound`: `refs` is the number of users, `nlink` the number of names and of
  names lost, and an inode is there exactly while one of them is not zero
  (`Counted`, `Lasts`).  Between two operations of a call one inode may still have
  to go (`Loose`).  `TreeRooted` needs this too: a directory's memory is not used
  again while a name leads to it.
- `ProcsOK`, `OpenOK`, `DirsOK`: who uses an inode, so that what has users is
  what `FsTypeOK` says.
- `Readers`: an open directory has returned each entry once at most, no name that
  stands behind its position, and no more places before its position stand for
  no returned name than names were removed (`Missed`, `ReadOK`; so `NoEntryTwice`
  and `SkipsForRemovals`).  An entry is appended behind every position; a removal
  moves one entry at most across it.
- `FsIsTree`: `FsSpec => ImplementsTree`.  Each call is one of four steps between
  two tables (`Step`: names unchanged but where a directory goes, one name more,
  one less, one moved), and each of these is one of `FileTree`'s on the maps that
  the lists describe (`AddMaps`, `UnlinkMaps`, `MoveMaps`).  `Kept`, that a node
  goes when it must and not before, is `Sound` before and after.

Induction over naturals is used in a first-order form, as a lemma about a set
that holds 0 and every successor (`AllNat`), proved from the library's
`WFMin`; that a function defined by recursion over the naturals exists and
keeps its range is proved the same way.

Only model-checked: everything under fairness (`EveryoneRuns`, `VforkReturns`,
`KillKills`, `WaitReturns`, `PauseEnds`; liveness is beyond this prover).

`PollersWaitForWriters` and the theorems of `K1VmProofs` are not of the
specification alone.  Their hypotheses say what programs do, not what K1 does.
Without `WritesUninterrupted` `PollSleepersWait` is false; it holds in every state
of `pipe`, where programs catch and send no signals.  `RangesFit` holds in every
state of `vm`.

## Not modelled

- Processes: register contents other than the call being
  made, the contents of pipes, formatting and console output, time
  as a number, the FPU, `sigaltstack` (where a frame goes, not whether),
  processes sharing memory without vfork, errors that change no state, a bad
  user pointer in calls other than wait4 (each ends in `do_exit(11)` like that
  one).
- `splice`, which would need the contents of pipes.
- Memory: page-table pages are not counted as frames, and the order of the free
  list is abstracted from (free pages are all alike).  Where `palloc` finds
  nothing the kernel panics: no step.  The kernel's own stores into user
  memory ignore W, as CR0.WP is clear.  Two ELF segments in one
  page (`ImagesAssumption`) and an mremap of more than its mapping
  (`Remappable`) are left out.
- Files: modes, owners and times, O_PATH, `path_of` and readlink, character
  devices but the drives.  A call that fails changes nothing and is no step.
  Names and bytes are apart: `K1Fs` has no contents, `K1Data` one file.
- Disk: `ata_init`'s probing, the port protocol (a command is one step), and
  `disk_import`, which unpacks one archive at boot.
- The hand-off: the contents of `boot_params` and the jump.
- The seed is a listing of instruction bytes, the Forth library words on a
  stack without state of their own; the compiler, the assembler and K0 are
  planned below.  The rest are build scripts, data or third-party programs.

## Plan

Done:

1. `K1Sched`, `K1Proc`, `ProcLife`, `K1Pipe` with their runs.
2. Proofs of the process tree and of the wakeup invariants.
3. `K1Vm` against `UserMemory`.
4. `K1Fs` against `FileTree`.
5. `K1Alloc`, `K1Data` against `ByteFile`, `K1Disk`; `DiskExact` proved.
6. Proofs of the masks and restarts, of `K1Pipe` and of `K1Vm`, which implements
   `UserMemory`.

7. Proofs of physical memory and files: `K1Data` implements `ByteFile`.
8. Proofs of names: `K1Fs` implements `FileTree`.

Left:

9. `splice` with the contents of pipes.
10. The compiler: conditional stack and macro expansion of the preprocessor,
    scoped symbols, struct layout, label patching, each as operators against a
    reference definition over bounded inputs.
11. The assembler's label resolution and K0's loading.
