# A TLA+ verification of the xv6 kernel of this repository

The repository is xv6 for x86 with four system calls added (`getnextprime`,
`getcallcount`, `getmostcaller`, `waitforprocess`). This directory models its
components in TLA+, checks the models with TLC on small instances and proves
with TLAPS, for every value of the constants, the invariants of the process
table, the log, the pipe, the buffer cache, console input and (as long as
system call numbers stay inside the array of counters) the call counters, that a
pipe implements a queue, and that the console delivers edited lines. That the log
implements atomic transactions is proved up to the point where a commit writes
past the end of the log, which a race in `log_write` makes possible, and without
that reservation under a condition that excludes the race.

## The system and its parts

- **Processes** (`proc.c`, `trap.c`, `sysproc.c`, `init.c`): a table of NPROC
  slots under one spin lock `ptable.lock`; `fork`, `exit`, `wait`, `kill`, the
  added `waitForProcess`; `sleep`/`wakeup` on channels; one `scheduler()` per
  CPU; `trap()` tests `killed` on the way into and out of the kernel.
- **Locks** (`spinlock.c`, `sleeplock.c`): spin locks with interrupts off,
  sleep locks built on `sleep`/`wakeup`.
- **Disk** (`ide.c`, `bio.c`, `log.c`): a request queue served by interrupts, a
  buffer cache with reference counts, a redo log that makes the calls between
  `begin_op` and `end_op` atomic across crashes.
- **Files** (`fs.c`, `file.c`, `sysfile.c`, `pipe.c`): inodes, directories,
  path names, the table of open files, pipes.
- **Memory** (`kalloc.c`, `vm.c`, `exec.c`): a free list of pages, two-level page
  tables, loading programs.
- **Console** (`console.c`, `kbd.c`, `uart.c`): interrupt-driven line editing over a
  ring that `consoleread` consumes.
- **User side** (`umalloc.c`, `sh.c`, `ulib.c`, `mkfs.c`, test programs).

They meet in few places: everything blocks through `sleep`/`wakeup`; `exit`
closes files and runs a log transaction; every change of the file system goes
through `log_write`; `fork` and `wait` allocate and free memory.

## Modules

| module | models | lines of the code |
|---|---|---|
| `Proc` | the process table, scheduling, sleep and wakeup in `wait` and `sys_sleep` | `proc.c`, `trap.c`, `sysproc.c` |
| `MCProc` | instances of `Proc` for TLC | |
| `ProcProofs` | the inductive invariant of `Proc` and its proof | |
| `Log` | transactions, group commit, crash and recovery | `log.c`, `bget` of `bio.c` |
| `AtomicDisk` | what the log promises | |
| `LogHist` | `Log` with a history variable for the overrun, and the property `Atomic` | `write_log` of `log.c` |
| `MCLog` | an instance of `LogHist` for TLC | |
| `LogCommit`, `LogProofs` | the inductive invariant of `Log` and its proof, in two parts, and that `Log` implements `AtomicDisk` | |
| `Pipe` | a pipe and the processes at its ends | `pipe.c`, `fileclose`, `sleep`, `kill` |
| `ByteQueue` | what a pipe promises | |
| `MCPipe` | instances of `Pipe` for TLC | |
| `PipeProofs` | the inductive invariant of `Pipe`, and that it implements `ByteQueue` | |
| `BufCache` | buffers, their sleep locks, the disk's request queue | `bio.c`, `sleeplock.c`, `ide.c` |
| `MCBufCache` | instances of `BufCache` for TLC | |
| `BufProofs` | the inductive invariant of `BufCache` and its proof | |
| `Lemmas` | facts about remainders and sequences that the proofs share | |
| `SpinLock` | spin locks, interrupts and thread switches, instruction by instruction | `spinlock.c`, `proc.c`, `trap.c`, `trapasm.S`, `sysproc.c` |
| `Vm` | physical pages, page tables, `sbrk`, `fork`, `exec`, argument checks | `kalloc.c`, `vm.c`, `exec.c`, `syscall.c` |
| `Names` | inode cache, directories, path names, file table, the calls on names | `fs.c`, `file.c`, `sysfile.c` |
| `FileData` | blocks, block maps, reading and writing files, the image of `mkfs` | `fs.c`, `file.c`, `mkfs.c` |
| `ByteFile` | what files promise | |
| `Console` | keyboard input, editing, echo on the screen, readers and writers | `console.c` |
| `LineInput` | what console input promises | |
| `ConsoleProofs` | the inductive invariant of the ring and its readers, and that `Console` implements `LineInput` | |
| `MCSpinLock`, `MCVm`, `MCNames`, `MCFileData`, `MCConsole` | their instances for TLC | |
| `Parser` | the shell's parser and a grammar to compare it with | `sh.c` |
| `Shell` | the processes, descriptors and pipes of a command, and init | `sh.c`, `init.c` |
| `Heap` | `malloc` and `free` | `umalloc.c` |
| `Calls` | system call dispatch, call counters, `getMostCaller` | `syscall.c`, `proc.c` |
| `CallsProofs` | the inductive invariant of `Calls` and its proof | |
| `Filters` | `grep` and `wc` over input in pieces | `grep.c`, `wc.c` |
| `Keyboard` | modifier keys and escaped scan codes | `kbd.c`, `kbd.h` |
| `Text` | functions of text and numbers with reference definitions | `fs.c`, `string.c`, `ulib.c`, `printf.c`, `syscall.c`, `proc.c` |
| `MCParts` | an instance of the seven models from `Parser` to `Text` | |

### Proc

A variable per field of `struct proc` that matters (`state`, `pid`, `parent`,
`chan`, `killed`; `kstack`, `pgdir` and `open` only say whether the slot holds
the resource), `nextpid`, the process of each CPU, the two spin locks where they
outlive a step, and a program counter per kernel thread. A step is one section
under `ptable.lock` or one stretch of code without it, so `fork` takes four
steps (`AllocProc`, `AllocStack`, `CopyProc`, `ForkRun`) between which other CPUs
run, and the two allocations may fail. `wait` and `waitForProcess` share
`Scan`; a thread that sleeps with `ptable.lock` owns it again when it is
scheduled (`ptlock`). `killed` is tested where `trap`, `wait`,
`waitForProcess` and `sys_sleep` test it. `panic` stops every CPU, so deadlock is
not checked in the runs of this module.

The user programs are arbitrary: `Syscall` makes any call with any pid of
`CallPids`; only init is restricted to what `init.c` calls, `fork` and `wait`.

Fairness (`FairSpec`): a kernel thread that can run again and again does
(`SF` on `Kernel`), because spin locks are held for bounded stretches;
`scheduler()` goes round the table and visits every RUNNABLE slot, and the timer
takes the CPU away, so every process gets on and off a CPU again and again (`SF`
on `Yield` or `Schedule`, per process); the timer keeps firing (`WF` on `Tick`).
Strong fairness is needed because the lock and the CPU come and go. A user
program owes nothing: `Syscall` and `Fault` are not fair, so a process may
compute forever. Liveness is checked with one CPU: with two, a process may be
preempted each time just before it gets `tickslock`.

### Log

`disk`, `logarea` and `head` survive a crash; `cache`, `dirty`, `lh`,
`outstanding`, `committing` and the program counters do not. Every `bwrite` is a
step, and `Crash` may come before any of them, in `commit` and in
`recover_from_log`. `log_write` is two steps because its size test is made before
it takes `log.lock`. `Recycle` lets `bget` drop any buffer that is neither dirty nor
locked. A log position past the last block of the log is the block that follows
it on disk, the first inode block, as in `write_log`'s address arithmetic.

`AtomicDisk` has two images of the blocks, `mem` and `stable`; only `Commit`
copies one to the other, and only while no transaction is open. The refinement
mapping takes for `stable` what recovery would install (`Recovered`), so
`write_head` is the step that implements `Commit` and everything else in
`commit` and recovery is a stutter. `LogHist` records (`overran`) that `write_log`
has come to an entry of the header for which the log has no block: `Atomic` says
that every step up to there is one of `AtomicDisk` or a stutter, and says nothing
of what follows, since the block overwritten need not be one of the model.

### Pipe

The fields of `struct pipe`, the holder of its spin lock, and for each process its
place in `pipewrite` or `piperead` and the bytes its call has left. Each process
holds one descriptor of one end, and the last `FileClose` of an end goes on to
`PipeClose`. A loop turn is a step; the lock is held across steps as in the code.
`killed` is tested in one step and `sleep` is the next, because `kill` needs only
`ptable.lock` and can run between them. `nread` and `nwrite` wrap at `UintMax1`, a
multiple of `PIPESIZE` as 2^32 is. The refinement mapping to `ByteQueue` reads the
queue off the ring from `nread` to `nwrite`.

`ReaderAwake` has an exception that is the code's: a killed writer that finds the
pipe full returns without waking readers, so a reader may sleep beside bytes
until another writer or the last close wakes it.

Fairness: kernel code runs on and a process that keeps trying for the spin lock
gets it (`SF` on `Kernel`); a killed process exits and so closes its files. No
process owes a call.

### BufCache

The fields of `struct buf`, the MRU list as a sequence with every buffer once, the request queue of
`ide.c`, the disk, and `latest`, a history variable with what was last stored in
each block. A step is one section under `bcache.lock`, a sleep lock's spin lock or
`idelock`. `Bwrite` and `Pin` are the two ways a holder changes a block: written at
once, or left dirty for the log (`log_write`). `KillWakes` wakes any sleeper early.
`IdeIntr` completes the head of the queue; a read may fail, which leaves the data
alone and sets `valid` all the same, as `ideintr` does: `bread` then returns the
buffer with its old data, the one exception in `Coherent` (`bad`). An exhausted cache is the
state `panicked`.

Fairness: the disk answers (`WF` on `IdeIntr`) and kernel code runs on (`WF` on
`Step`). Who holds a buffer is not obliged to release it, so nothing is claimed
about processes waiting for a sleep lock beyond there being a holder.

### SpinLock

A kernel thread is the sequence of instructions it still has to execute
(`code`); `acquire`, `release`, `yield`, `sleep`, `wakeup`, `sys_sleep`, `kill`,
`exit`, `forkret`, `scheduler` and the timer's handler are such sequences, and
`acquire` alone is four instructions. `Interrupt` puts the handler in front of
whatever runs when the CPU's interrupt flag is on. `EnterSched` and `Scan` switch
stacks (`cpu[c].cur`), so that `ptable.lock` is taken by one thread and released by
another as in the code, and `ncli`, `intena` and the interrupt flag belong to the
CPU. Every CPU goes on executing (`WF` on `Run`); nothing is assumed of who
gets a lock, so only the outermost one, `ptable.lock`, is claimed to be released
again and again.

### Vm

Pages are numbers with contents ("junk" from `kfree`, "zero", "text"); an address
space is a page directory with its page tables and entries. A call is one step,
because an address space belongs to one process and all that other processes
change for it is which pages are free. Loops over pages are folds that carry
the error paths, so running out of memory after any number of pages is a case of
each call, as are refused programs in `exec`. Sizes are in half pages and wrap at
`Word`. `zeroed` records who has called `sbrk` down to size 0 (see Known
deviations). `uva2ka` would read through a null pointer where a page table is
missing; its one caller, `copyout` in `exec`, asks only for pages just allocated.

### Names

A process is at a place of its call (`pc`), with the code's local pointers (`cur`,
`ip`, `old`), the inodes it still has to put (`puts`) and the rest of its path. A
step runs from one acquisition of an inode's sleep lock, or of `icache.lock` in
`iput`, to the next, so every order of two processes' locking, looking up,
unlinking and freeing occurs, and a step waits while the lock it needs is held.
`iput` is three steps: the test, the freeing and the dropping of the reference.
A directory is a function from names to inode numbers. The calls: open with and
without O_CREATE, mkdir, mknod, link, unlink, chdir, dup, close, fstat, pipe,
fork, exit, and exec as the look-up it makes.

A file that `filealloc` has returned and that has no descriptor yet is a local
reference (`files`). `open` allocates it with the inode locked (`UseInode`) and asks
for the descriptor in the next step (`OpenFd`), `pipe` takes its two files one after
the other (`PipeCall`, `PipeEnds`); where a file, the page of the pipe or a
descriptor is not to be had, what there is goes back by `fileclose`, one file at
a time (`FileClose`), while other processes allocate and close.

Some process that can go on does (`WF` on `Run`): that is enough, because calls
are bounded and each has finitely many steps.

### FileData

The bitmap, the blocks, the inodes on disk (`dino`) and in the cache (`ino`), open
files with their offsets. What happens under an inode's lock is one step;
`filewrite` is a step per transaction, between which other processes write and
close. `Evict` drops an unused inode from the cache and reads it again from disk.
`Init` is the image that `mkfs` makes, by `iappend` as `mkfs.c` has it. A full disk is
the panic of `balloc`. `fileread` is no transaction: where reading allocates, `log_write`
panics or not, depending on whether another call is open (`ReadOutcomes`). `IsByteFile` maps each inode, the root included, to the cells
its block map reaches.

### Console

The ring with its three wrapping indices, the screen with its cursor register
and `back_counter`, and the readers. `consoleintr`, `consolewrite` and each stretch
of `consoleread` between sleeps hold `cons.lock` and are one step; a reader that is
about to sleep (`dozing`) can still be killed. `IsLineInput` maps the ring to
completed input and the line being edited. Readers are scheduled (`WF` on
`Reader`).

### Parser, Shell, Heap, Calls, Filters, Keyboard, Text

`MCParts` runs them side by side: a behaviour is one job of one module. The
parser is the code's recursive descent over a sequence of characters;
`Trees` is the grammar it is compared with, as sets of trees. In `Shell` a process is
the sequence of system calls it still makes, with its descriptors; a fork, open,
pipe or exec may fail, init's exec of the shell once at most; programs read or write what they are plugged to. `Heap`
keeps the ring of free blocks by address. `Calls` interleaves the scan of
`getMostCaller` slot by slot with forks, exits and waits. It takes no lock, so the
one section under `ptable.lock` that it can see in two halves is two steps:
`allocproc` gives the slot its pid, `Clear` clears the counters. `Fill` is the rest of
`fork`, with its failures; the action `wait` stands for `wait` and `waitForProcess`, which
free a slot in the same way. Six calls are needed to see the two halves apart: two
forks, the exit of one child, the wait that reaps it, a third fork into its slot
and the scan of the other child. `WildCall` counts a number outside `counter[]`: it
raises a word that is something else, and no behaviour is followed beyond it. Counters and pids are natural numbers; the code's
`int`s wrap after 2^31 calls or forks. `Filters` cuts the input of `grep` and `wc` in
all ways. `Keyboard` sends make and break codes with the keys that are down as
history. `Text` has functions only.

## Runs

| run | question | bounds |
|---|---|---|
| `proc` | is the table sound, has every resource one owner, is no wakeup missed | 3 slots, 2 CPUs, pids up to 4, every call |
| `proc_live` | does `wait` reap and a killed process exit, under fairness | 3 slots, 1 CPU, pids up to 3 |
| `log` | atomicity across crashes, log space, sleeping | 2 processes, 4 blocks, 2 per call, `LOGSIZE` 4, so 3 blocks in the log |
| `pipe` | a bounded queue, freed in time, nobody asleep without cause; reads return, under fairness | 2 writers, 1 reader, 2 bytes of room, counters modulo 4, calls of up to 3 bytes |
| `bufcache` | one buffer per block, nothing stale or lost, sleepers served; waits for the disk end, under fairness | 2 processes, 2 buffers, 3 blocks, 2 values |
| `spinlock` | do locks exclude CPUs and interrupts, are interrupts restored, is `ptable.lock` released | 2 CPUs, a process that sleeps and one that kills it, timer interrupts anywhere |
| `vm` | does every page have one owner, is memory what `p->sz` says, do failed calls change nothing | 2 processes, 14 pages, 6 user pages, 3 pages to a page table, 8 programs |
| `names` | are references and link counts exact, inodes freed only when unused, lock cycles confined, calls finished | 2 processes and a free slot, 5 inodes, 2 names, 4 cache entries, 3 files, 2 descriptors each, 18 calls, 2 calls made, 3 initial trees |
| `names_leak` | violated: the last reference to an unlinked inode frees it | the same |
| `filedata` | are blocks used once and none lost; do files behave as bytes | 13 blocks of 2 cells, 2 direct and 2 indirect blocks, 2 open files, 2 processes, 3 calls |
| `console` | do readers get the edited lines, does the screen show them, is input read | ring of 3, indices modulo 6, screen of 2 lines of 3 cells, 2 readers, 5 events |
| `parts` | the shell, its parser, the heap, counters, filters, keyboard and functions | lines of up to 4 characters and longer examples, 5 processes, 2 typed lines, 3 slots and 6 counted calls; see `MCParts` |

A property that a run checks is often the conjunction of several that are
defined and explained above it (`TableSound`, `InodesKept`, `BlocksSound`...).

Three slots are the least with an init, a parent and a child, and the proofs
cover the deeper trees. `MaxPid` lets one slot be used again after a process was
reaped; `kill` and `waitForProcess` are called with 0, the pid of free slots, and
with two pids that come and go. In the log, two calls of two blocks over four
blocks overlap, absorb each other's blocks, fill the log and commit together; four
blocks are one more than the log has room for, so the race in `log_write` happens
and its commit overruns the log. The size relation `Nlog = LOGSIZE` is the one
`mkfs` makes.

A call of three bytes does not fit in the pipe, so a writer sleeps in the middle
of a call; the counters go round the ring twice before they wrap. With fewer
buffers than blocks, buffers are recycled and, once pinned, run out; two
processes wait for each other's locks and requests.

Fourteen pages are fewer than two processes can use, so every allocation of
every call fails somewhere; page tables cover three pages, so growing by one
page may need a table as well. Two processes with one call each in
any combination are enough for every race of two calls; the initial trees add
what would take more calls (a removed current directory, an open file). There are
fewer cache entries than inodes, three files and two descriptors, so `iget`,
`filealloc` and `fdalloc` each fail, the latter two at every place of `open` and
`pipe`. Files of
four blocks pass from the direct to the indirect blocks and to the greatest
size, and the disk has too few blocks for both to reach it. The console's ring
and screen are small enough that five events fill, wrap and scroll them. `Word`
is a multiple of the ring size as 2^32 is.

Runs whose systems may stop do not check for deadlock: a panic stops every
CPU (`Proc`, `BufCache`), descriptors end up closed (`Pipe`), calls or events run
out (`Names`, `FileData`, `Console`, `MCParts`).

## What the violated run shows

`names_leak`: `iput` reads `ip->ref` under `icache.lock`, gives the lock up and only
later decrements it. Two processes that drop the last two references to an
unlinked inode both read 2; neither frees it, and the inode and its blocks are
lost until the file system is made anew. The comment above `iput` says the last
reference frees it.

## Known deviations

Behaviours of the code that the models have, and that the properties name as
exceptions or do not cover:

- `waitForProcess` reaps the zombie of another process's child, against the comment
  above `exit`; and as `exit` wakes the parent only, a waiter that is not the parent
  sleeps on (`proc.c:586`, `proc.c:611`).
- `kill` matches the pid of a free slot (0, or one left behind by a failed fork), and
  `allocproc` does not clear `killed`: the next process there starts killed
  (`proc.c:488`).
- `log_write` tests the size before it takes `log.lock`: two calls may log one block
  too many (`log.c:218`), which `write_log` then copies to the block behind the log;
  `Atomic` covers what happens before that. `begin_op` reserves up to `LOGSIZE` blocks, the log made by
  `mkfs` has `LOGSIZE - 1` data blocks, so admitted calls may panic.
- A `kill` between the test of `killed` and `sleep` in `piperead` or `consoleread` is not
  noticed until something arrives (`pipe.c:107`, `console.c:451`).
- A killed writer leaves a full pipe without waking its readers (`pipe.c:88`).
- `unlink` and `create` hold an inode's lock when they put its directory, for which
  `iput` takes the directory's lock; with another process locking downwards both
  may wait for ever, and `link` to `.` or `..` can wait for itself (`LocksOrdered`).
- `..` of a directory whose parent is removed too leads to a free inode, and `ilock`
  panics. An entry made in a removed directory is lost with it.
- `ialloc` and `balloc` panic when the disk is full, and `iget` when every entry of
  the inode cache is referenced (`fs.c:261`): there are 50 for 100 open files, 64
  current directories and 200 inodes.
- `mkfs` gives a root directory whose entries fill its last block one block too many in
  its size (`mkfs.c:161`). That block is allocated when it is read, and the inode is
  not saved; and as `fileread` begins no transaction (`file.c:107`), `log_write` panics
  with "log_write outside of trans" if no other call is open.
- `sbrk` down to size 0 frees the pages and reports failure without changing
  `p->sz`; a `fork` of that process then panics (`proc.c:171`).
- The left arrow adds to `back_counter` also where the cursor does not move, and the
  arrows do not change the place in the input buffer: after them screen and
  buffer differ, and the cursor may leave the screen (`console.c:378`).
- `getMostCaller` compares with the call's number in place of the best count so far
  (`proc.c:563`), so the pid it returns is not that of the process "having most fork
  call", as `getmostcaller.c:8` prints, but of some caller. It also sees the counters of freed slots, and without
  `ptable.lock` it can see a slot between its new pid and the clearing of its
  counters (`proc.c:90`): it then names a process that has made no call. `syscall` counts before it
  tests the number (`syscall.c:148`): one outside `counter[]` raises another word, 132
  for example `counter[1]` of the next slot. `CallsSound` covers what happens before
  that. `find_next_prime_number(0)` is 1.
- In the shell, `>>` opens as `>` does, the first of several redirections wins, and
  when the second fork of a pipeline fails its shell exits without waiting. When
  init's own fork fails it exits and the kernel panics.
- `grep` forgets what it has read when a read brings no newline (`grep.c:29`).
  Releasing one of two shift keys ends the shift (`kbd.c:26`).

## Proofs

| module | theorem | states |
|---|---|---|
| `ProcProofs` | `TableSoundAlways`, `SlotsOwnedAlways`, `NoMissedWakeupAlways` and the invariants they combine | `Spec => []TableSound`, ... |
| `LogProofs` | `LogAlwaysSound`, `SpaceAlwaysKept` | `Spec => []LogSound`, `Spec => []SpaceKept` |
| `LogProofs` | `LogIsAtomic` | `HistSpec => Atomic` |
| `LogProofs` | `LoneTestsAreAtomic` | `Spec /\ []OneTests => Abs!Spec` |
| `PipeProofs` | `PipeAlwaysSound`, `EndsAlwaysAwake` | `Spec => []PipeSound`, `Spec => []EndsAwake` |
| `PipeProofs` | `PipeIsQueue` | `Spec => IsQueue` |
| `BufProofs` | `BuffersAlwaysSound`, `SleepersAlwaysServed` | `Spec => []BuffersSound`, `Spec => []SleepersServed` |
| `ConsoleProofs` | `InputAlwaysReachable`, `ConsoleReadsLines` | `Spec => []InputReachable`, `Spec => ReadsLines` |
| `CallsProofs` | `CallsAlwaysSound` | `CallsSpec => []CallsSound` |

The definitions on the right are the ones the runs `proc`, `log`, `pipe`,
`bufcache`, `console` and `parts` check on their instances. In each module the inductive invariant is a
conjunction of layers; every layer has a lemma that a step of `Next` preserves
it, with one proof step per action, which cites the layers it needs. The last
lemma puts the layers together and the theorems follow.

The assumptions are the named `ASSUME`s of the models. They ask for no more than
the sizes the code is compiled with: finitely many processes and buffers,
`LOGSIZE >= MAXOPBLOCKS`, a log of `LOGSIZE` blocks, and a `uint`
whose range is a multiple of `PIPESIZE` and of `INPUT_BUF`. TLC evaluates them on
every run.

### The process table

`ProcProofs` covers every `NPROC`, every set of CPUs and every `MaxPid`. None of
the seven invariants is inductive alone. `IInv` adds

- `ForkInv`: a thread in the middle of `fork` owns an EMBRYO slot that no other
  fork names;
- `PidInv`: every pid in the table is below `nextpid`, also those left behind;
- `MemInv`: which resources an EMBRYO slot holds at each point of `fork`;
- `ParentInv`: parents of processes and of half-made children are alive, free
  slots have none;
- `ChanInv`: how `chan`, the program counter and `ptable.lock` agree for
  sleeping and for just woken threads.

The missed wakeup theorems need all of the others: that a sleeping parent has no
zombie child rests on who owns the channel when `exit` calls `wakeup1`.

### The log

`LogInv` covers any finite number of processes, any blocks and contents, any
`LOGSIZE` and `MAXOPBLOCKS`, and crashes at any step, also in recovery.
`LogCommit` has the layers about who may do what:

- `CallInv`: a call writes between `begin_op` and `end_op` only, at most
  `MAXOPBLOCKS` blocks, and has locked what it is about to pass to `log_write`;
- `CommitInv`: one process commits, with `committing` set and no call open;
- `HeaderInv`: a header names a block once, in memory and on disk, is empty when
  it must be, and the loops of `write_log` and `install_trans` stay inside it;
- `InstallInv`: what `install_trans` has passed is at home on the disk.

It goes on to `ChangesPinned`, which is inductive given these layers, and to
the arithmetic of the reservation. `ReservationHolds` counts
what the open calls may still log; it is inductive because `log_write` adds at
most one entry, for a block its call has not logged before, and `commit` empties
the header when nobody is open. From it follow, in `LogProofs`, the bounds of
`TypeOK` (`BoundInv`, `TypesHold`), and `SleepersNeedRoom`.

For the refinement `LogProofs` adds `CopyInv`: the copies in the log are what the buffers hold from
`write_log` until the header is erased, and recovery has brought home the ones
it has passed. With it each step is a step of `AtomicDisk` or a stutter, and
`write_head` is `Commit`. Between the header's write and its erasure the disk is
in pieces, and what makes `Recovered` independent of how many blocks
`install_trans` has copied is that installing a copy again changes nothing.

What these steps need is that `write_log` finds a block in the log for its entry
(`Inside`). `mkfs` makes a log of `LOGSIZE` blocks, the header included, and
`log_write` is meant to see to it by panicking at `log.size - 1`; but it tests
before it takes `log.lock`, so two calls may both pass the test for the last place.
`Inside` can therefore not be proved, and the run `log` reaches a state without it.
`LogIsAtomic` states what is true of the code: with the history variable of
`LogHist`, each step is one of `AtomicDisk` or a stutter unless `overran` is then
set (`HistInv`: the invariants hold as long as it is not). `LoneTestsAreAtomic`
shows that the test is all that is missing: if at most one process at a time is
between the test and the lock (`OneTests`), which is so when the lock is taken
first, the header never outgrows the log (`RoomInv`) and the refinement holds
without exception.

### The pipe

`Inv` covers any numbers of writers and readers and any ring size: `LockInv` (the
holder of `p->lock` is the one process inside), `SideInv` (a process in a call
has its descriptor), `SleepInv` (what was seen before `sleep` still holds when
it sleeps), `CloseInv` (an end is closed once, by the process that gave up the
last descriptor, and the page is freed with the second end) and `QueueInv` (the
counters are at most `PIPESIZE` apart). `PipeIsQueue` rests on the types and
`QueueInv` alone: that the counters may wrap is the arithmetic of remainders in
`Lemmas`, with `UintMax1` a multiple of `PIPESIZE`.

### The buffer cache

`Inv` covers any finite numbers of processes and buffers, and any blocks:
`LockInv` (a sleep lock is held by the process past `acquiresleep`, and nobody
sleeps for a free one), `UseInv` (`refcnt` is the number of users, and a block has
one buffer), `QueueInv` (a request is queued once, for a process in `iderw`, and
one that has left the queue is served) and `DataInv` (a valid buffer holds what
was stored last, a dirty one is valid, and what is not on the disk is in a dirty
buffer). `Bget` is split by lemma into finding, recycling and panicking.

### The console

The proof looks at the ring from `input.r`: `Stored` characters, of which reads may
take the first `Completed`. The invariant covers any number of processes, any size
of the ring and any width of the indices that is a multiple of it: `Kinds`,
`RingInv` (the ring never overflows, a full ring is completed, and the line being
edited contains no newline or end of file) and `ReadInv` (a reader in
`consoleread` still wants something, and sleeps only when `input.r` was equal to
`input.w` and still is). That nothing is completed between a reader's test and its
sleep is `cons.lock`, held until `sleep` has the reader on its channel.

`ConsoleReadsLines` has the refinement of `LineInput` and `EofReturnsNothing`. What
`^U` takes off is the whole line because of `RingInv`; that a read stops at the
first end of a line needs the least element of a set of numbers, which follows
from well-founded induction for sets (`NatMin`). The screen plays no part in it:
nothing the ring does depends on the cursor.

### The call counters

`CallsInv` covers a table of any size and any number of calls: `ForkInv` (an EMBRYO
slot has one `fork` that fills it in, and one process at a time is between the
halves of `allocproc`), `PidInv` (a pid in use is in one slot, and the one in a
slot being cleared is the last given out), `CountInv` (counters are exact in slots
with a process, clear in a slot that `fork` is filling or gave back, and a slot
`wait` freed has no pid) and `ScanInv` (the pid found so far, and the one about to
be read, may be named). `CountsOwnCalls` alone is not inductive: a slot becomes
RUNNING with the right counters only because they were clear while it was EMBRYO.
The scan reads a counter and later a pid, and the slot may change hands in between;
what saves `NamesACaller` is that it then finds no pid, or a new one (`Growth`,
`TestFindsCaller`). The invariant holds until a number outside `counter[]` is counted
(`wild`), which `syscall` does not prevent. The only assumption is `NSlots \in Nat`.

### Only model-checked

- Liveness (`proc_live` and the temporal properties of the other runs): the prover
  does not do fairness.
- `Vm` and `FileData`: their loops over pages and blocks are folds, and what a fold
  returns needs induction over data.
- `Parser`, `Shell`, `Filters` and `Text`: recursive definitions; `SpinLock` selects
  from sequences of instructions, a recursive operator as well.
- The screen of `Console` (`ScreenSound`): what `cgaputc` does to a string is a
  recursive function of it.
- `Names`, `Heap` and `Keyboard`: no proof has been written yet.

## Not modelled

- Device registers and boot (`mp.c`, `lapic.c`, `ioapic.c`, `picirq.c`, `uart.c`,
  `bootmain.c`, `memide.c`): register sequences that follow hardware manuals.
- `cprintf`, `procdump`, `getcallerpcs`: output for people.
- Byte order and host files in `mkfs`; the place of directory entries in blocks
  (`Names` has functions, `FileData` cells).
- Simple loops of the user library no property depends on (`strcpy`, `strlen`,
  `memset`, `gets`, the format loop of `printf`).
- How many buffers the calls of the file system hold at a time, on which the
  absence of `panic("bget: no buffers")` depends.
- The other user programs and the tests, which are callers; `tempfile.c`, a former
  version of `console.c`.

To prove next: the references of `Names`.
`PROJECT.json` lists every component with its status, and the hazards no property
covers.
