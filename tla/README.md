# Verification of xv6-CS179 in TLA+

xv6-CS179 is the teaching kernel xv6 with kernel threads (`KT_Create`,
`KT_Join`), counting semaphores (`sem_*`) and a user-level thread library
(`UT_*`).  This project models the parts of it whose correctness depends on
interleavings, on tables that fill up, or on crashes; checks them with TLC; and
proves part of the results for every size of the tables with TLAPS.

## The system and its parts

| part | modules | what makes it hard |
|---|---|---|
| processes and kernel threads, `proc.c` | `Proc` | wakeups between `exit` and `wait`/`KT_Join`, dangling parents, stacks and stack lists shared by threads, partial failures |
| semaphores, `proc.c`, `sysproc.c` | `Semaphore` | two locks and the interrupt depth across a context switch, a ring that overflows |
| user threads, `uthread.c` | `Uthread` | the current thread is inferred, never stored |
| log, `log.c` | `Log`, `AtomicDisk` | crashes between any two disk writes, reservations, group commit |
| buffer cache and disk, `bio.c`, `ide.c`, `sleeplock.c` | `Bcache` | one buffer per block, sleep locks, interrupts |
| pipes and files, `pipe.c`, `file.c` | `File`, `Channel` | lost wakeups, close while the other end sleeps |
| inodes, directories and path names, `fs.c`, `sysfile.c` | `Inode`, `Namespace` | references versus links, the order of inode locks |
| file contents, `fs.c`, `file.c`, `mkfs.c` | `FileData`, `Contents`, `Mkfs` | blocks that change their owner and their use, the size of a transaction |
| memory, `vm.c`, `exec.c`, `kalloc.c` | `Vm` | memory that runs out half-way, page tables shared by threads |
| spin locks, console and clock, `spinlock.c`, `console.c`, `trap.c` | `Spinlock`, `Console`, `Tty` | interrupt handlers that take the locks of the code they interrupt |
| user programs, `umalloc.c`, `grep.c`, `sh.c` | `Malloc`, `Grep`, `Sh` | algorithms with many small cases |

The parts meet as follows.  Every system call enters through `trap`, which also
makes killed processes exit.  Sleeping and waking go through `ptable.lock`,
which the scheduler hands over from process to process.  File system calls are
bracketed by `begin_op`/`end_op`, write through the buffer cache and reach the
disk in `commit`.  Kernel threads share their process's page table and draw
their stacks from its stack list in `sltable`.  A module takes from its
neighbours what their modules show: `Namespace` and `FileData` that operations
are atomic and fit in the log, `Log` that `bread` returns the last contents, and
all but `Console` that a spin lock excludes other processors and handlers.

## Modules

### Proc: processes and kernel threads

State: the fields of `struct proc` as functions on the slots of `ptable`, those
of `struct psl` on the slots of `sltable` (`stackz` as the set of used stacks),
and, for calls in progress, where the process is (`pc`), the slot it has
allocated (`np`) and the stack it has reserved (`newslot`).  Page tables are
names that are used again, and `pgtabs` is the set of those that exist.  `torn`
records that a table was freed under a process that runs on it: by `exec` while
other threads share it, or by the error path of `KT_Create`.

An action is one critical section of `ptable.lock` or `sltable.lock` with the
unlocked code that follows it, which only touches a slot nobody else looks at.
So `fork` is two steps (`allocproc`, `fork`) and `KT_Create` three
(`KT_Create_*`, `tallocproc`, `clone`), with an action for each way to fail.  A
process that wakes up in `wait` or `KT_Join` holds `ptable.lock`, so its next
scan belongs to the step that schedules it.  Of `exec` this module has the commit
(a new table, the old one freed); how it builds the table, and gives it up on
failure, is in `Vm`.  Not modelled: open files, the
working directory, `sz`, metrics, and the contents of stacks.

Runs:

* `proc` (4 slots, 1 stack list of 3 stacks, 3 pids of which one is killed,
  memory may run out, no `exec`): nobody sleeps in `wait` with an exited child
  (`NoMissedChild`) or in `KT_Join` with an exited thread (`NoMissedThread`), no
  two threads share a stack and no list is recycled under a thread
  (`StacksExclusive`).
* `proc_live` (3 slots, 1 stack list of 2 stacks, 4 pids of which one is killed and
  one calls `exec`, memory does not run out): until a table is torn, no process
  runs on a freed or a foreign one (`PageTablesSafe`), init reaps
  every exited orphan (`OrphansReaped`) and a killed process exits
  (`KilledExits`).  Fairness: the scheduler's scan reaches every slot again and
  again (strong, as a CPU is free only now and then), the timer keeps
  interrupting, a call in progress goes on, init keeps calling `wait`.

One CPU is enough for the interleavings: the timer may preempt at every step.
Four slots are init, a parent, and two children, threads or grandchildren; three
are enough for the page tables and for liveness, where init adopts an orphan.
`ExecPids` bounds the processes that call `exec`: one is enough for an `exec` beside
a thread, before or after others have exited, and in a slot used before.

### Semaphore: sem_wait and sem_signal

State: the semaphore and its ring as in `struct semaphore` and `struct queue`,
the holder of its lock and of `ptable.lock`, and `ncli`, the depth of `pushcli`
on the CPU of each thread.  `sem_sleep` is cut at every change of a lock, because
it releases the semaphore before the thread is `SEM_SLEEPING`.  Threads signal a
semaphore only after waiting for it, as the comment on `sem_wait` demands, and
free it when nobody uses it.  They may wait for a semaphore inside of others, in
the order of the indices, as the programs in `kernelthreadtests.c` do; `Wants` bounds
which semaphores each thread waits for.  Two things that the system calls let
through are left out: an index between `KT_TABLESIZE` and `NPROC`
(`sysproc.c:133`, `150` and `167` test against the wrong constant) and a negative
count (the test in `sysproc.c:119` rejects nothing).

* `sem` (module `MCSemaphore`: 3 threads, 2 semaphores, rings of 2, initial count 1,
  3 calls of `sem_initialize`, one thread that takes the second semaphore inside the
  first and may be killed, two that take the second): at most the initial count of threads is inside (`CapacityRespected`),
  a sleeping thread is in the ring exactly once (`SleepersQueued`), it is woken
  only after it has left the CPU, which it does with the lock depth that `sched`
  demands (`WokenAfterSleep`), and unless somebody is killed every `sem_wait` returns
  with its thread inside (`WaiterEnters`).  Fairness: strong for the steps of a call
  (spin locks are held for a few instructions) and for leaving each critical section
  (whoever is inside finishes, with the semaphores it takes there).  Without an order
  on nested semaphores two threads could wait for each other, which is up to the
  programs.
* `sem_overflow` (one slot in the ring less than waiters): see Findings.

### Uthread: the user-level thread library

`running` is the thread that is really on the CPU; the program has no such
variable and infers it from `sched_index`.  A context is garbage, a fresh entry
point, a suspension or a stale left-over.

* `uthread` (5 slots, 9 threads created): every thread the scheduler may choose
  can be resumed (`ReadyToSwitch`), only the last thread frees the table
  (`FreedByLastThread`), and round robin starves nobody (`NoStarvation`, if
  threads keep giving up the CPU).  That the inferred thread is the running one
  (`CurrIsRunning`) and that the count is exact (`CountIsUsed`) is proved.

### Log and AtomicDisk: crash-safe operations

`AtomicDisk` is the promise: memory becomes durable all at once, between
operations, and a crash falls back to the last such point.  `Log` is `log.c`:
every `bwrite` is a step of its own and `crash` may come before or after any of
them, during recovery too.  `cache` is what `bread` returns; an unpinned buffer
may be recycled at any time.  The refinement maps `durable` to what recovery
would make of the disk as it is, and memory to the cache.

* `log` (3 processes, 3 blocks, 2 contents, symmetric): the refinement
  (`AtomicSpec`), admitted operations have room (`SpaceReserved`), nobody sleeps
  in `begin_op` without a wakeup coming (`SleepersWoken`).

### Bcache: buffer cache, sleep locks and disk driver

State: the fields of `struct buf` as functions on the buffers, the LRU list, the
pid in each sleep lock, `idequeue`, and, external, the command the disk is
working on and its blocks.  `latest` is a history variable: the last contents
anybody gave a block.  One action is one critical section of `bcache.lock`, of a
sleep lock's spin lock or of `idelock`, with the unlocked code that follows it
on a buffer the process has locked.

A process may hold several buffers, as `bmap`, `bfree` or `install_trans` do, so the
actors are *uses* of a buffer: `Owner` says whose a use is, and a process takes a
step in one of its uses only while the others are idle or hold their buffer
(`Running`).

* `bcache` (module `MCBcache`: a thread with two uses, another thread of its process
  with the same pid, and another process; 2 buffers, 3 blocks of which one is written,
  one failing read): `bread` returns the last contents and exclusive use
  (`ReadsLatest`), no sleeper is forgotten (`SleepersWoken`), `bget` panics only when
  the open uses really take all buffers and nothing else panics (`NoPanic`), every
  request completes (`IoCompletes`).  Fairness: the disk answers and processes in the
  kernel keep running; nobody is obliged to release a buffer.  Three blocks on two
  buffers force recycling, and `MCWants` bounds which block a use is for: one thread
  takes the written block and another one besides it, its sibling only the written
  one, the other process any.

### File and Channel: descriptors, the file table and pipes

State: `struct file` and `struct pipe` as functions on their tables, each
process's descriptors, and for calls in progress the file, the bytes left and
the files still to be closed.  `sleep` keeps the pipe's lock until it has
`ptable.lock`, which is a step of its own because `kill` may come in between.
`fileclose` frees the table entry in one step and closes the pipe in the next;
`exit`, and a call that fails with files in hand, close one file per step.
`Channel` is a bounded queue with two ends; the mapping reads the queue off
`nread`, `nwrite` and the ring.

* `file` (2 processes, 2 files, 2 descriptors each, a pipe of 2 bytes whose
  counters wrap at 4, transfers of 1 and 3 bytes, one kill): a reference count is
  the number of descriptors and of calls in progress that refer to the entry
  (`RefsExact`), a pipe and its ends live as long as something refers to
  them (`PipesInUse`), nobody sleeps for something that has happened or cannot
  happen any more (`SleepersHaveReason`), and a pipe is a `Channel`
  (`PipeIsChannel`).  Transfers of 3 bytes do not fit a pipe of 2, so writers
  sleep half-way; the counters wrap twice as late as the ring.  With two files
  the table is full as soon as a pipe exists, which makes every allocation fail
  at some point; `sys_pipe` with a pipe but no two free descriptors needs three
  files, which multiplies the states by seven.

### Inode and Namespace: inodes, directories and path names

`Inode` has the disk's inodes (type, link count, directory entries as a function
from names to inode numbers) and `icache`.  `Namespace` has the system calls
`open`, `mkdir`, `mknod`, `link`, `unlink` and `chdir`, with the `close` and `exit`
that drop references.  A step takes one inode lock, or makes one access to
`icache` under its spin lock or to a free inode on disk, with everything that
follows under the locks it holds.  So a call is cut wherever another process can
come in: between the components of a path, before the lock of the new inode in
`create`, between the two halves of `link`, and twice inside `iput`.  The iputs
that a step causes are a queue, `puts`, that the call works off before it goes on.

* `names` (2 processes, 3 inodes, 3 cache entries, names `a` and `b`; one process
  makes `/a`, `/b` and things in `/a`, the other removes, enters and walks up from
  them): a link count is never below the number of names (`LinksCover`); a cache
  entry's `ref` is exact and an inode stays while it is open or somebody's
  directory (`InUseKept`); until somebody walks up from a removed directory the
  kernel panics only when it is out of inodes (`PanicsOnlyAboveRemoved`); processes
  that wait for each other's inode locks do so in `iput` (`CyclesOnlyThroughIput`).  Three inodes are the root and two
  that are made, removed and made again as something else.  Behaviours end where
  a process walks up from a removed directory: `..` of such a directory is not
  counted any more and may lead to any inode.  Deadlock is not checked, because
  the cycles through `iput` are real: `mkdir("/a")` holds the new inode while it
  puts the root, and `unlink("/a")` holds the root and waits for that inode.

### FileData, Contents and Mkfs: what is in a file

`Mkfs` builds the disk that `mkfs.c` writes, and `FileData` starts from it.  A
block is a few words, a word a piece of data or a block number.  Because the inode
is locked, a transaction (one round of `filewrite`'s loop) is one step; what it
logs is recorded.  `Contents` is the promise: a file is a sequence, overwritten and
extended at the offset of the open file.  See the run `sequential`.

### Vm: pages, page tables, exec and sbrk

State: the length of the free list; for each page directory its pages of page
table and its mapped pages; the fields of `struct proc` and `struct psl` that
decide what is mapped and freed.  A table nobody else sees yet is built in one step
of the system, but page by page (`setupkvm`, `AddPage`, `allocuvm`, `copyuvm`): where
memory runs out, the pages taken so far go back as the code gives them back, and
`fork_fails` and `exec_fails` have what is left.  `exec_fails` also covers files and
arguments that are no good, at each point where there is a table to give up;
`allocuvm` on a table in use takes a step for the test and one for the store of
every page, because other threads share it.  The kernel's mappings count as one
page.  A panic, a mapping overwritten or a table freed under its users is recorded
in `broken`, and the behaviour ends there.

* `vm` (3 processes or threads, 1 stack list of 2 stacks, 25 pages, pages of two
  units so that sizes need not be multiples of a page): every page is on the free
  list, in one table, a kernel stack or about to be mapped, whatever failed
  half-way (`PagesAccounted`); a process without threads has exactly the pages
  below its size (`ImageIntact`); the table breaks only for processes that have
  called `KT_Create`, successfully or not (`BreaksOnlyWithThreads`).  25 pages are enough for three
  small processes and not for three that have grown, so that `fork`, `exec`, `sbrk`
  and `KT_Create` all run out of memory in some behaviours and not in others.

### Spinlock, Console and Tty: locks, interrupts, console and clock

`Spinlock` is `spinlock.c`: `ncli`, `intena` and the interrupt flag of each
processor, the holder of each lock, and the panics.  `Console` uses it for
`cons.lock` and `tickslock`, between `consoleread`, `consolewrite`, `sys_sleep` and
`kill` on two processors and the keyboard and timer interrupts, which arrive on
one of them whenever its flag is set.  `Tty` is the promise of the console: an edited
line, and a queue of finished lines.

* `console` (2 processors, a ring of 3 characters whose indices wrap at 6, reads of
  2, one of the two processes may be killed): locks are held by the code between `acquire` and `release`, handlers never
  run on top of a process that holds or waits for a lock, and interrupts come
  back with the last lock (`LocksSafe`); nobody sleeps when the line or the tick
  it waits for has come (`SleepsForReason`); the ring is a `Tty`
  (`ReadsWhatWasTyped`).  Deadlock is checked: there is always a next step.

### Malloc, Grep and Sh: user programs

`Malloc` has the headers of `umalloc.c` and its circular list; `Grep` the matcher
and the buffer of `grep.c`; `Sh` the recursive-descent parser of `sh.c` on tokens.

* `sequential` checks these and the contents of files, each on its own, as nothing
  but the order of calls matters to them.  Files: a disk of 7 blocks, 2 direct
  blocks and an indirect one, two processes that write 7 words through one open
  file, so that files grow into the indirect block, hit their maximal size and
  give blocks to each other: the bitmap, the inodes and the blocks agree
  (`DiskConsistent`), a transaction logs at most `MAXOPBLOCKS` blocks
  (`FitsTransaction`), and files are `Contents` (`FilesAreSequences`).  `malloc`: a
  heap of 9 units, requests of 2 and 5 units, growth of at least 4: blocks tile the
  heap and free neighbours are joined (`HeapTiled`).  `grep`: all patterns and
  texts of up to 3 characters against a definition of what a pattern means, and
  inputs of two lines read in pieces of any size (`GrepCorrect`; inputs of which a
  read leaves no newline in the buffer are exempt, see Findings).  `sh`: all
  commands of up to 5 tokens, without `>`, against the grammar (`ParsesGrammar`;
  `nulterminate` is left out).  A program may
  stop at any time, so deadlock is not checked.

## Findings

The code and its comments disagree in this place, and TLC shows it:

* `sem_overflow`: the waiter after `MAXQ` waiters is dropped from the queue and
  sleeps for ever.

Also met while modelling.  The models contain all of this; the properties are
stated so that they hold beside it, that is, they exempt these cases and do not
catch them:

* `PageTablesSafe` and `BreaksOnlyWithThreads` say that a table in use is freed only
  by `exec` beside other threads and by the error path of `KT_Create`, and that stale
  sizes, panics and overwritten mappings need threads; not that these do not happen.
* `PagesAccounted` counts a table that is kept for good, because its process had
  threads, as accounted for, and says nothing once a table is broken.
* `PanicsOnlyAboveRemoved` says nothing once somebody has walked up from a removed
  directory, and `CyclesOnlyThroughIput` allows the cycles through `iput`.
* `GrepCorrect` leaves out inputs of which `grep` drops a part, and
  `SleepersHaveReason` leaves out readers once there has been a kill.
* `KilledExits` and `NoLostWakeup` are about sleepers in `wait` and `KT_Join`; a killed
  thread in `sem_wait` sleeps on.

In the order of the parts:

* Threads: the page table of a process that ever called `KT_Create` is never freed,
  because `wait` tests `p->psl` that `clear_psl` has not reset (`proc.c:582-586`) and
  `KT_Join` tests the count before `clear_psl` has lowered it (`proc.c:1077`).  `exit`
  leaves `pthread` pointers to its slot behind, and a new process in that slot
  joins threads that are not its own (`proc.c:1069`).  A failing `KT_Create` frees
  the page table its caller runs on, and `exec` the one that other threads run on
  (`proc.c:416`, `exec.c:115`).
  `sz` is kept per thread though the table is shared.  With no free stack list
  `clone` leaves an `EMBRYO` slot behind for good.
* `kill` marks only the first thread of a process, and `kill(0)` marks a free slot; it
  does not wake a thread in `sem_wait`, nor one between the check of `killed` and
  `sleep` in a pipe, in `consoleread` or in `sys_sleep`.
* Files: a write to a pipe that a kill cuts short does not wake the readers of what
  it has written; a failing disk read is marked valid; mkfs makes the on-disk log
  one data block shorter than `begin_op` assumes (`log.c:218`); two processes that
  put the last references to an unlinked inode at the same time may both find
  another one left, and nobody frees it; mkfs rounds the size of the root directory up
  by a block it has not allocated when the entries fill whole blocks.
* Memory: `copyuvm` loses a page when it cannot map the stack (`vm.c:351`); an `sbrk`
  to size 0 unmaps everything and then fails.
* Programs: `grep` discards what it has of a line when a read ends before the first
  newline in its buffer; `>>` in the shell is `>`.

## Proofs

`SemaphoreInvariant` (the invariant, and the steps that leave the ring alone) and
`ThreadProofs` (`push_back`, `pop_front` and the theorems) prove the three
invariants of `Semaphore` for any number of threads, semaphores and ring slots.
The inductive invariant `SemInv` is the type invariant and

* `CallInv` and `LockInv`: who holds which lock and the depth of `pushcli` at each
  place of a call; they make the thread that `sem_wakeup` pops one that has left the
  CPU;
* `InsideInv`: the only call that a thread is in on a semaphore it is inside of is
  `sem_signal`, whatever other semaphores it is inside of;
* `RingInv`: `front`, `back` and `qcount` agree, and the slots in between hold
  different threads that wait for this semaphore;
* `CountInv`: `count` is the initial count minus the threads that have been let in,
  those popped but not yet running among them, and minus the waiters.

`SemaphoreCapacity` and `WokenAfterTheySleep` follow without any assumption on the
size of the ring.  `SleepersAreQueued` assumes that no more threads exist than the
ring's slots and the initial count together, which is when `push_back` never
drops a waiter; it needs `QueuedInv`, that a waiter past `push_back` is in the ring.
The argument is a counting one: while somebody waits the semaphore is full, so the
threads that wait are at most those beyond the count (`FindsSlot`).

`ThreadProofs` also proves the safety of `Uthread` for every `UT_COUNT >= 2`.  The
inductive invariant `IInv` is the type invariant, `CurrIsRunning`,
`CountIsUsed`, `ReadyToSwitch` and the fact that the table's first slot is the
root's; none of the three is inductive alone, because which thread `UT_exit`
removes is computed from `sched_index`, and whether the scheduler finds a thread
depends on the count.  The lemma `SchedulerStep` says what one call of
`UT_Scheduler` does, and every action's step uses it.  Type correctness is part
of `IInv`, so the run does not check it again.

`ProcInvariant` (the invariant, boot, `fork`, `KT_Create`, `exit`, `kill` and the
scheduler) and `ProcProofs` (a `KT_Create` that fails, `wait`, `KT_Join` and the
theorems) prove the safety of `Proc` for any number of process slots, stack lists
and stacks, from `Proc`'s assumption on its constants alone.  The inductive
invariant `IInv` adds to the type invariant

* `CallInv`: what a call in progress owns (an `EMBRYO` slot in `fork`, a reserved
  stack in `KT_Create`), that no two calls own the same slot, and that a free slot
  carries no pointers; without it `fork` could publish a slot that is already in
  use;
* `ParentInv`: `ParentAlive`, and nobody is its own parent, so that `exit` finds
  the right one to wake;
* `SleepInv`: who is asleep in `wait` or `KT_Join` has no zombie to collect and is
  not killed, and sleeps on the channel that `exit` wakes; it needs `ParentInv`
  because `exit` wakes the parent it finds, and hands zombies to init;
* `SlotInv` and `PendingInv`: a stack belongs to one thread or one pending
  `KT_Create`, and the count of a list covers them all; the lemmas `AddSlot`
  and `RemoveSlot` do the counting.

`InitInv` is the base case, each action has a lemma that it preserves `IInv`, and
`Invariance` combines them; the theorems about the checked properties follow.
The last part of `ProcProofs` adds `PageInv` (until a table is torn, a process that
is not done with its page table has one that exists, and those that share one hold
stacks of the same list) and proves `PageTablesSafe` (`PageTables`) without further
assumptions: the steps that set `torn`, `exec` beside running threads and the error
path of `KT_Create`, are the only ones that free a table in use.  `wait` frees only
the table of a process without a stack list, which nobody shares, and `KT_Join` none
at all.

`LogProofs` proves, for any number of processes and blocks and any sizes of the
log and of a reservation that meet `LogAssumption`, that `begin_op` reserves enough
(`SpaceIsReserved`) and that who sleeps in it is woken (`BeginOpIsWoken`).  The
inductive invariant `OpInv` adds to these two properties

* `OpsCounted`: `outstanding` is the number of operations, and a commit or a
  recovery runs without any;
* `OpsBounded`: an operation has written at most `OpBlocks` blocks, all of them in
  the list of the log;
* `LogBound`: the list stays short of `LOGSIZE` by what one operation leaves
  unused.

`SpaceReserved` is not inductive without them: `log_write` must use up a reservation
of its own operation when it makes the list longer, and `end_op` gives back only what
was not used.  The set `StillToCome` makes this a matter of adding and removing
elements (`Reservation`).  `LogNeverPanics` needs `Slack`: operations stay below
`MAXOPBLOCKS` and leave the block that the header takes from the log on disk.  With
the numbers of `param.h` and `mkfs.c` (10, 30 and 30) this says that an operation logs
at most 8 blocks: `log_write` looks for room before it looks whether the block is in
the list already, and panics with 29 blocks in it.

The last part of `LogProofs` shows that `Log` implements `AtomicDisk`, which MCLog
checks on a small instance.  `DiskInv` has `CommitInv` (what each stage of a commit or recovery has
already copied; the header names a block once, so the order of copying does not
matter) and `CacheInv` (contents that are only in memory are in the list of the log or
held by the process that changes them, and dirty, so they are not recycled).  It
holds under `RoomOnDisk`, the part of `Slack` that keeps the list within the log's
blocks.  The mapping is `Log`'s: on the disk what recovery would make of it, in memory
the cache.  `write_head` is the commit, a crash is a crash, the steps of the
operations are those of `AtomicDisk`, and all others are stutters.

`BcacheProofs` proves `ReadsLatest`, `SleepersWoken` and `NoPanic` of `Bcache` for any number of processes, uses per process, pids that threads share, blocks,
buffers and failed reads.  The inductive invariant `IInv` is the type invariant, `NoPanic` and

* `RefInv`: `refcnt` counts the uses of a buffer, a buffer in use keeps
  its block, and a block is in one buffer;
* `LockInv`: a sleep lock that is taken has one use inside, whose pid it holds,
  and who sleeps on a lock sleeps on one that is taken;
* `QueueInv`: the driver's queue has the buffers of those who wait, each once, and
  the disk works on the first;
* `FlagInv` and `DataInv`: the flags fit what the process is doing, and what was last
  written to a block is in its dirty buffer or else on the disk.

`bget` recycles a buffer only when `refcnt` is 0, which by `RefInv` means that nobody is
on the way to its lock; without the count `LockInv` and `DataInv` would not survive.
That `bget`'s panic is justified is a counting argument: the buffers in use are the
image of the open uses (`bgetPanicInv`).

`FileInvariant` (the invariant, the calls on descriptors and the file table, closing)
and `FileProofs` (the steps on pipes, the theorems) prove `RefsExact`, `PipesInUse` and
`SleepersHaveReason` of `File` for any number of processes, files, descriptors, pipes
and kills, any size of a pipe and any modulus of its counters that `FileAssumption`
admits.  The inductive invariant `IInv` is the type invariant, `RefsExact` and

* `CallInv`: what a call in progress has: a file that `pipealloc` sets up is its own,
  a file that is read or written is open in a descriptor of the caller, so nobody
  can free it meanwhile, and a failed call closes each of its files once;
* `EndInv`: an end of a pipe is open as long as one table entry or one `pipeclose`
  still to come stands for it, and never two; `PipesInUse` alone is not inductive,
  because with two entries for an end the first `fileclose` would shut it;
* `PipeInv`: who is about to sleep holds the pipe's lock, so nothing happens between
  its test and its sleep, and a pipe never holds more than `PIPESIZE` bytes, modulo
  the wrap-around of `nread` and `nwrite` (`Unsigned`).

`RefsExact` is what makes `fileclose` safe: an entry that somebody else uses has a count
of at least two (`UsedFile`).  The lemma `filecloseInv` is shared by `close`, `exit`
and the failed calls, which differ in what they give up (`GivesUp`).  The lemmas up to
`StepInv` take what they need of cardinalities as a hypothesis, `Counting`, which
`ProcsCount` proves from `FileAssumption` (a finite set `Procs`, `NOFILE` descriptors).

Model-checked only are liveness (the provers have no fairness: `IoCompletes`,
`WaiterEnters` and the others), the refinements of `Channel`, `Tty` and `Contents`, and
the invariants of `Namespace`, `Vm`, `Console` and `FileData`.  What
the recursive operators of `Malloc`, `Grep` and `Sh` compute is out of the prover's
reach, which has no induction over data for them.

## Not modelled

* Boot, device and multiprocessor set-up: runs once, in a fixed order.
* Output to the screen and the serial line, the decoding of scan codes, formatting
  and string helpers: pure input and output, or sequential code without state.
* The entry of system calls and the checks of user pointers: no state.
* Tick counts and process statistics: nothing depends on them.
* `runcmd` of the shell, the smaller programs and the tests: clients of the calls.
* The contents of memory pages and of thread stacks, and permission bits.
* Weak memory: the lock's `xchg` and barriers are taken to make the kernel
  sequentially consistent.
* In the runs, more than two processes in `Namespace` and several open files with
  their own offsets in `FileData`.  The modules have them, but the states multiply.
