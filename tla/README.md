# Verification of the xv6 kernel extensions and of the file server

The repository holds two programs. `G16_Project1_xv6CustomizeSystemCalls` is an
xv6-riscv kernel with additional system calls: forkn, thread_create, waitpid,
freeze and thaw, signal_send, kernel mutexes, message queues and shared memory.
`G16_Project_3` is a multithreaded file server that speaks the Redis protocol
(RESP). This directory models both in TLA+, checks the models with TLC on small
instances, and proves properties of some of them with TLAPS for all instances.

Paths below are relative to the xv6 kernel directory (`kernel/`), to the
directory `user/` beside it, or to `G16_Project_3/src/`.

## The system

| part | modules | what makes it hard |
|---|---|---|
| process table (`proc.c`, `trap.c`, `user/init.c`) | Proc, ProcProofs | several cores; locks dropped and retaken in the middle of fork and wait; kill racing sleep |
| kernel mutexes (`sysproc.c`) | KMutex, ProcProofs | sleeping under `wait_lock`, the lock of exit and wait; owners that die |
| message queues (`msg.c`, `sysproc.c`) | MsgQueue implements Mailbox; MsgQueueProofs | copies to and from user memory that fail |
| memory (`kalloc.c`, `vm.c`, `exec.c`, `shm.c`) | Shm | pages shared by processes that end in any order |
| log (`log.c`) | Log implements AtomicDisk; LogProofs | crashes at any step; group commit; space in the log |
| block cache, sleep locks, disk driver (`bio.c`, `sleeplock.c`, `virtio_disk.c`) | Bcache on VirtioDisk implements BlockStore; BcacheProofs | one buffer per block; requests completed out of order; interrupts |
| pipes and descriptors (`pipe.c`, `file.c`, `sysfile.c`) | Pipe implements ByteStream; PipeProofs | two kinds of sleepers; ends that are closed, shared and killed |
| inodes and directories (`fs.c`, `sysfile.c`) | Inode | reference counts against link counts; locks on two inodes; crashes |
| console and serial port (`console.c`, `uart.c`) | Console implements TtyLines; ConsoleProofs | interrupts interleaved with system calls and with printf; indices that wrap |
| user library and shell (`user/umalloc.c`, `user/sh.c`) | Umalloc, Shell | a free list under long sequences of calls; plumbing of pipes |
| copies between kernel and user (`vm.c`) | UserCopy | page boundaries, pages not yet allocated |
| file server: commands and locks (`file_ops.c`, `locks.c`) | FileServer implements AtomicFiles; FileServerProofs, AtomicFilesProofs | one thread per client; two locks at a time; writes that fail halfway |
| file server: formats (`resp.c`, `file_ops.c`) and path elements (`fs.c`) | Resp, Rle, TextParts; FileServerProofs (Rle) | partial and malformed input |

The parts rest on each other. The mutexes use the process table and are composed
with it (KMutex extends Proc). The block cache is composed with the driver
(Bcache extends VirtioDisk), and together they implement BlockStore, which states
what the log relies on: Log has the cache as the contents of each home block,
with pinning and eviction. The log in turn implements AtomicDisk, which Inode
relies on: it keeps the disk as the last commit left it beside the disk with the
changes under way.

## The modules

**Proc** models the process table. A slot of `proc[]` is a number, and a kernel
address is a number too, so that a sleep channel is the address slept on. A
critical section of one `p->lock` is one step. `wait_lock` is a variable,
because wait holds it from its scan of the table until sleep has the process
lock. `pc` is where each process stands between two steps; a process that is
not running has its kernel stack, here its `pc`, saved. Any process may make
any call with any argument; only init is bound to its program (`user/init.c`),
because the kernel panics when it exits. `killed` and `frozen` are the sets of
slots whose flag is set. `kill` on pid 0 finds unused slots, as it does in the
code.

**KMutex** extends Proc with the mutex table. A mutex is locked under
`wait_lock`, so the two parts interact; a waiter sleeps on the address of the
entry. `mutex_lock` looks at the kill flag only after it has slept.

**Mailbox** says what the message queues promise: a key names one mailbox, a
message is delivered whole and at most once to a receiver that asks for its
type. It promises no order. **MsgQueue** models the table of `msg.c`: valid
flags, counts, the first free slot, the first match, copies that fail. Every
call runs under `msgqlock` from beginning to end, so it is one step. The bytes of
a message are the number of the call that sent it.

**Shm** models memory in pages: the free list, each process's page table, its
heap `[0, sz)`, and the segments, which are mapped at fixed addresses below the
trapframe. It has the calls that change memory and the two panics they can
reach (`mappages: remap`, `freewalk: leaf`). Page-table pages and trapframes
are not counted.

**AtomicDisk** says what the log promises the file system: the writes of an
operation reach the disk together or not at all, and a crash takes memory back
to the last commit. **Log** models `log.c` with one step per disk write:
admission in begin_op, absorption and pinning in log_write, the group commit by
the last end_op, a crash between any two steps and recovery, which may crash
too.

**BlockStore** says what the block cache promises the log: whoever holds a block
is alone with it and sees what was last put into it; only a block that is
neither held nor pinned may fall back to what is on disk. **VirtioDisk** is the
driver and the device: three descriptors per request taken from a free list,
the two rings, completions in any order, and an interrupt handler that
acknowledges first and reads the used ring afterwards, between which the device
may complete another request. **Bcache** puts `bget`, `bread`, `bwrite`, `bpin`,
`bunpin`, `brelse` and the sleep locks on top, with the list in the order of
use, reference counts, and the panic when no buffer is free. A process stands for
one holder of one buffer; a system call that holds two buffers is two of them.
In the refinement a block is cached when a valid buffer has it and held from
the moment `bread` returns until `releasesleep`.

**ByteStream** says what a pipe is: bytes arrive once and in order, a reader
sees the end when no writer is left. **Pipe** models the ring buffer with its two
wrapping indices, both sleep channels, the open file table and the descriptors
under pipe, dup, close, fork, exit and kill. `pi->lock` is a variable, because
the calls look at the kill flag while they hold it. There is one page for a
pipe, so that a page freed too early is used again at once.

**Inode** models the inode table, the disk's inodes, directories and the block
bitmap under open, create, mkdir, link, unlink, chdir, close and write, and boot
with `ireclaim`. What happens between `ilock` and `iunlock` is one step where
one inode is locked, two where a directory is held while the call waits for the
inode in it; `iput` is split where it drops `itable.lock`. A crash may happen
at any step and leaves the last commit.

**TtyLines** says what the console is to a reader: the lines that were typed,
edited until they were finished, each byte delivered once. **Console** models
`consoleread`, `consolewrite`, `consoleintr` and the serial driver: the
transmitter with `tx_busy`, the acknowledged interrupt, printf and the echo,
which write to the port without the lock, and the device's queue.

**Umalloc** is the allocator over arbitrary sequences of malloc, free and sbrk.
**Shell** is the recursive-descent parser of `sh.c` with its pointers into the line, and
the descriptors `runcmd` leaves to each program and to each shell that waits for
others. **UserCopy** is `copyin`, `copyout`
and `copyinstr` page by page. **TextParts** has the path elements of `namex` and
the tail of the log that LOGS returns, from three looks at a file that may change
between them. **Resp** reads requests from a stream that
ends anywhere. **Rle** is the run-length code of COMPRESS and DECOMPRESS.

**AtomicFiles** says what the file server promises: a command takes effect at one
moment between request and reply; one that fails while writing leaves a prefix of
its output. It states what the code does where no document says anything:
COPYFILE of a file to itself empties it. **FileServer** models the commands
system call by system call: the read/write locks of `locks.c` by path, inodes
and descriptors, short reads and writes, failures of every call. In the
refinement a file that is being rewritten still has its old contents, which
`saved` keeps; the command takes effect when its last descriptor is closed,
while its locks are still held.

The definitions whose name begins with `Bug_` are not part of the models. Each
one is the definition that follows it with a mistake a programmer could make;
the property it belongs to is violated when it takes that definition's place.

## The runs

| run | module, instance | shows |
|---|---|---|
| `proc_live` | MC_Proc: 3 slots, 3 cores, pids up to 4, fairness | `OrphansAreReaped`; `KilledExits`: killed processes end unless they are frozen after the kill or the kill falls between the check and the sleep of wait |
| `calls`, processes | KMutex on Proc: 3 slots, 2 cores, pids up to 3, forkn up to 2, 1 mutex | `ParentIsAlive`: no child is lost to an exiting parent; `NoMissedExit`, `NoMissedUnlock`: nobody sleeps over a zombie child or a free mutex; `OnlyOwnerUnlocks`: a mutex changes hands through its owner's unlock only |
| `calls`, messages | MsgQueue: 2 queues of 2 messages, 3 keys, 3 sends | `ImplementsMailbox`; `TableIsConsistent`: counts match the valid flags, a key has one queue |
| `calls`, memory | Shm: 2 processes, 2 segments of up to 2 pages, 4 pages of memory | `AttachmentsHold`, `PagesHold`: reference counts, mappings and the free list agree, no leak and no use after free, until a heap that covers a segment is given back; `LastDetachFrees` |
| `shm_exec` | Shm: 3 processes, 4 pages | **violated**: exec while attached to a segment panics |
| `shm_heap` | Shm: 2 processes, 5 pages | **violated** (`PagesAreAccounted`): a heap that grew over a segment and shrinks frees the segment's pages |
| `log` | Log: 3 processes, 2 blocks, 2 values, log of 6, operations of 2 blocks with 3 reserved | `ImplementsAtomicDisk` with crashes at every step; `NeverPanics`: the reservation suffices; `NoMissedSpace`; `IdleIsDurable` |
| `bcache` | Bcache on VirtioDisk: 3 processes, 2 buffers, 3 blocks, 4 descriptors, 1 pinned buffer | `OneBufferPerBlock`; `RefcntIsUsers`; `NoMissedCompletion`; `ImplementsBlockStore` |
| `pipe` | Pipe: 2 processes, 2 descriptors each, a buffer of 2 bytes, indices modulo 4 | `EndsAreHeld`: an end is open exactly while somebody has it; `NoMissedPipeWakeup`; `ImplementsByteStream` |
| `inode` | Inode: 2 processes, 3 inodes, 1 block, 4 calls, crashes | `RefIsUsers`, `NlinkIsLinks`, `CopyIsDisk`, `AllocatedIsOwned`: counts, copies and allocations are right now and after a crash; `NeverStuck`: no panic and no circle of locks |
| `console` | Console: 2 processes, a buffer of 2, indices modulo 4, a device queue of 3 | `NoMissedWakeup`; `NoOverrun`; `ImplementsTtyLines` |
| `fileserver` | FileServer: 2 clients, 2 files, one of them with two paths, every command | `ImplementsAtomicFiles`; `LocksWork`: locks exclude, are released on every path and never wait in a circle |
| `file_spellings` | FileServer: the same, with both paths of a file in use at once | **violated** (`WriterIsAlone`): a file is written while another client has it open under another spelling |
| `sequential` | MC_Sequential: each algorithm on all inputs up to a bound | `RoundTrip` (Rle), `ReadsWholeRequests` (Resp), `PathElements`, `LogTailIsLastLines` (TextParts), `HeapIsTiled` (Umalloc), `CopiesExact` (UserCopy), `ShellParses`, `ShellWiring` (Shell) |

The three violated runs each state what a comment or a README of the repository
says, and the behaviour TLC finds is what the code does. `calls` is one run for
three modules that share no state: it chooses one of them and leaves the others at
rest.

### Bounds

Three slots are enough for init, a process and its child, hence for orphans,
zombies of a parent that is gone, and two processes competing for a mutex while
a third kills. Pids are not reused, so `MaxPid` bounds the number of forks. With
four pids, as in `proc_live`, init forks a new shell after it has reaped the
first, so an orphan outlives its parent and exits while init sleeps in wait. A message queue of two slots is full,
has holes and reuses slots within three sends.

In the memory part of `calls` the four pages run out in every call that allocates.
A heap may grow over the address of an attached segment, and the run goes on from
there. Only when such a heap is given back, and pages of the segment with it
(`Overrun`), does it stop, because this is the deviation that `shm_heap` shows.
The history variable `overrun` remembers it.

In `log` three processes compete for a log that admits two, two blocks suffice
for absorption and for a commit that a crash cuts in half, and two values tell
old from new. Operations write one block fewer than begin_op reserves, as the
operations of this kernel do (see the known deviations).

In `bcache` three blocks compete for two buffers, so buffers are recycled with
and without a waiter, and the panic is reached. Four descriptors hold one
request, so that the second process sleeps for descriptors; two requests at once,
and so a completion between the acknowledgement of an interrupt and the reading of
the used ring, never happen there. An instance with six descriptors (2,020,902
states) was checked once, too long to be run each time; the proofs cover any
number of everything.

In `pipe` and `console` the buffers hold two bytes and the indices wrap at four,
so that full, empty and wrapped buffers all occur; reads and writes are up to two
bytes long. The device queue holds three characters because three
writers may each put one there unasked; with two it would overrun (the real one
holds sixteen). In `inode` four calls are enough for an unlink and a create
around an `iput` that is freeing an inode, for removing a directory in which a
call is about to make an entry, and for a crash in each of those. The calls are
on /a, /b and /a/b only.

The file server's files hold at most two bytes when set by a client, so that
reads and writes can be short, and the size limit is three, so that one of them
compresses to a file within the limit and the other to one above it. Two clients
and two paths are what a circle of locks needs; the third path is another spelling
of the first. Bytes go from the second file to the first only with DECOMPRESS,
which keeps the number of contents small. The `CONSTRAINT` `SameSpelling` keeps TLC
from going on when two clients at work have different paths of one file, which is
the deviation that `file_spellings` shows.

In `sequential` a file has up to eight bytes with runs of up to three; command
lines up to four characters over the whole alphabet and six over the operators;
every damaged single character of short requests; logs of up to six characters of
which LOGS takes four, with any length at its first two looks; pages of two bytes;
requests to malloc small enough that their size does not turn negative when
sbrk() takes it as an int.

Processes, clients and keys that the model does not tell apart are symmetric in
the runs whose cfg says so; no run with a liveness property uses symmetry.

### Fairness

Only `proc_live` states liveness. `scheduler(p)` is weakly fair when there is a
core for every process: a core scans the whole table again and again and takes
what is runnable and not frozen. Each process's own steps are strongly fair,
because it may lose the processor (a timer interrupt) or find a lock taken any
number of times; the spinlocks are held for a bounded time. A process that is
never scheduled, or sleeps, is owed nothing. The other parts state
what liveness rests on as safety: nobody sleeps when what it waits for has
happened.

## Known deviations

Three disagreements have runs of their own.

- `shm_exec`: `kexec` frees the old page table up to the heap size and detaches no
  segment, so `freewalk` meets a mapping and panics (`exec.c:136`), although "All
  leaf mappings must already have been removed." (`vm.c:261`).
- `shm_heap`: a heap may grow lazily over an attached segment, and when it shrinks
  it frees the segment's pages (`sysproc.c:122`), although the project's README
  says "each segment is mapped at `TRAPFRAME - (id+1) * MAX_SHM_SIZE` to avoid
  collisions". `AttachmentsHold` and `PagesHold` hold up to that moment.
- `file_spellings`: the file server locks the spelling of a path: "a" and "./a"
  have two locks (`path_utils.c:27`), although its README says "Read/write locking
  is per canonical full path." `ImplementsAtomicFiles` holds as long as the clients
  at work spell a file in the same way.

The following were met while the models were built; the models behave like this,
and where a property exempts one, it is said here.

- `kfreeze` freezes a killed process, which then never exits, although the
  README says "The kill path also clears freeze state so killed processes are
  not stuck indefinitely." `KilledExits` exempts it.
- `kkill` compares pids only, so kill(0) marks an unused slot and the next
  process forked into it is born killed (`proc.c:750`).
- `mutex_lock` and `kwait` sleep without looking at the kill flag again, so a
  kill just before the sleep is noticed only after the next unlock or exit
  (`sysproc.c:220`, `proc.c:506`).
- `log_write` panics on a full log before it looks for the block in it
  (`log.c:221`). Operations that write all MAXOPBLOCKS blocks they may, and log
  one of them again, reach the panic. By our reading those of this kernel write
  fewer (a chunk of filewrite at most seven: four of data, one of the bitmap,
  the indirect block and the inode); this is not checked, and `log` assumes it:
  with MaxWrites = MAXOPBLOCKS its NeverPanics is violated.
- A writer that is killed in `pipewrite` returns without waking the readers for
  the bytes it has written (`pipe.c:84`); they sleep on until the next write or
  close. `silent` marks this, and `NoMissedPipeWakeup` exempts it.
- `iput` does not look at the counts again after the truncation (`fs.c:349`).
  When the inode is allocated again meanwhile, and dropped without a link before
  the entry goes, it stays allocated until the next boot, although the comment
  says "If that was the last reference and the inode has no links to it, free the
  inode" (`fs.c:333`). `leaked` marks this, and `NoOrphans` exempts it.
- A call that looked up a directory may make an entry in it after the directory
  was removed; the entry is lost with the directory and the file keeps its link
  count. `lost` marks this, and `NlinkIsLinks` exempts it.
- `copyinstr` does not allocate lazy heap pages, where `copyin` and `copyout` do.
- `morecore` passes a size of 2^31 bytes or more to `sbrk`, which takes an int
  and moves the break down or not at all (`umalloc.c:54`); the allocator goes on as
  if it had got the memory. `HeapIsTiled` is checked for smaller requests.
- LOGS looks up the size of the log and then goes back as far from its end, without
  the logger's mutex (`file_ops.c:410`): lines appended in between move the start
  into the middle of a line. `LogTailIsLastLines` says that no more than the first
  line is affected.
- DECOMPRESS refuses a compressed file above MAX_FILE_SIZE (`file_ops.c:35`), which
  COMPRESS may write: a file of alternating bytes doubles. `RoundTrip` is about the
  two functions that convert the bytes.
- An empty bulk string `$0` is refused like a closed connection (`resp.c:127`),
  and `LOGS 0` returns the whole tail.

## The proofs

**ProcProofs** proves the invariants of the process table for any number of
slots, cores, pids and forkn arguments. The invariants are not inductive one by
one: that no waiter sleeps over a zombie depends on wait_lock being held from the
scan to the sleep, that every process has a live parent depends on which slots
are being filled by fork and on their parent field at that moment. `ProcInv` is
their conjunction with `Bookkeeping`, which ties `pc`, `np`, `parent` and `chan`
together; `InvStep` has one step per action. The only assumption is
`ProcAssumption` on the constants.

The mutex calls run under the same wait_lock, so the module proves these theorems
for `Spec` and for `MSpec`, the process table with the mutex calls, which is what
`calls` checks. A mutex call leaves the pids, the parents and the children being
made as they are; it moves its caller and may wake sleepers. Such a step is
`Light`, as many of the process table's own are, and `LightKeeps` shows once that
it preserves `ProcInv`. On top of that, `MutexInv` adds that a waiter's
channel is the address of its entry; mutex_lock never misses an unlock, and only
the owner unlocks, whatever the steps of the process table do in between.

**MsgQueueProofs** proves `TableIsConsistent` and the refinement of Mailbox for
tables of any size. `MsgInv` adds what the calls rely on without looking: an
unused queue has no valid slot (msgget resets the count and no slot), and the
messages in the table are different ones that were sent. Counts are
cardinalities of the sets of valid slots; each call adds or removes one slot.

**LogProofs** proves the four properties of `log` for any number of processes,
blocks and values, any log size and any MAXOPBLOCKS, given that an operation
writes fewer blocks than it reserves (`MaxWrites \in 1..(MAXOPBLOCKS - 1)` in
`LogAssumption`; the known deviations say why the code needs it). `LogInv` has
four parts beside the properties. `ControlInv`: which process may be where in
each stage of a commit or a recovery. `ShareInv`: what an operation wrote is in
the log, and the buffer it holds still fits into its share. The space argument
counts the part of each open operation's share that is not used yet (`Unused`):
with what is in the log it never exceeds the log's size. `HeadInv`: the header on
disk is empty until the commit point and is the header in memory after it.
`DataInv`: which of the
three copies of a block (log, home, cache) agree at each point of the loops, and
that a buffer that is neither pinned nor held is clean. In the refinement the
header write of a commit is the moment an operation becomes permanent, and every
other disk write changes nothing that AtomicDisk shows.

**ConsoleProofs** proves `NoMissedWakeup`, `NoOverrun` and the refinement of
TtyLines for any number of processes, any buffer size and any width of the indices
that is a multiple of it, given a device queue of at least three
(`ConsoleAssumption`). `ConsoleInv` says that a busy transmitter
still has a character to send or an interrupt to come, that a reader between its
look and its sleep holds the lock, and (`RoomForWriters`) how full the queue can be
while printf, the echo or a writer has yet to put its character there: each
finds the transmitter idle, but at different times. For the refinement `RingInv`
says that the indices r, w and e stand in this order around the ring and never
further apart than the buffer is long; the lemmas on `Ring` say what a byte
written, erased or read does to the part of the ring between two indices, with
the wrap of the indices and that of the buffer.

**PipeProofs** proves the three properties of `pipe` for any number of processes,
files and descriptors, any PIPESIZE and any width of the indices that is a multiple
of it (`PipeAssumption`). `FileInv` is about descriptors: an end of the pipe has
one open file or one process that is closing it, a reference count is the number
of descriptors and of calls that have the file, and who reads or writes has a
descriptor. `PipeEndsAreHeld` follows from it alone. `RingInv` bounds the bytes
between the indices, and `LockInv` says that `pi->lock` belongs to the process
that stands where the code holds it and that what this process, and the sleepers,
saw of the pipe is still true: a sleeper is woken whenever it becomes false, but
by the writer that is killed (`silent`). It needs `FileInv`, because a sleeping
reader relies on its own end being open. The refinement then takes each step that
moves a byte to a step of ByteStream.

**FileServerProofs** proves that the code of COMPRESS and DECOMPRESS gives back
every file of any length (`RleRoundTrip`, which `RoundTrip` checks on small files).
The two loops are recursive functions; what they compute is shown by induction on
the number of runs or pairs, over the set of numbers for which the claim holds.
Then it proves what the locks of the server do, for any number of clients, paths,
files and commands. `LockInv` says who has which lock at each point of a command,
`FileTypes` which descriptors are open there. `LocksDoTheirWork` follows: that
locks exclude, are released, and that somebody can always go on. If all waited,
every lock would belong to a client that waits for its second one; the client whose
second path is the largest waits for a lock whose owner would wait for a larger
path still, because `locks_acquire_two_write` takes the locks in the order of the
paths. **AtomicFilesProofs** proves the refinement of AtomicFiles. `FileInv` adds
`Descriptors` (an open descriptor leads to the file of the command) and, for each
client, `Progress`: what has been read and written so far, and what the command
will have written in the end.
`WritersStayAlone` and `CommandsAreAtomic` are about behaviours in which no two
clients at work have different spellings of one file (`[]SameSpelling`); a file may
have any number of paths, used at different times. Locks belong to paths, so
without it two clients may write one file at once, as `file_spellings` shows.

**BcacheProofs** proves the block cache in three layers, for any number of processes,
buffers, blocks and descriptors (`VirtioAssumption`, `BcacheAssumption`).

- `CacheInv` says that the list has all buffers, a block one
  buffer, a buffer as many references as it has users and pins, and that a sleep
  lock belongs to the process that is between taking and releasing it. From it
  follow `OneBufferPerBlock`, `RefcntIsUsers` and the exclusion of holders. The
  reference count is a cardinality, so the lemmas `UserComes`, `UserGoes` and
  `UsersStay` say how the set of users changes.
- `DiskInv` says that the chains of descriptors are disjoint and
  not free, that each belongs to the process that waits for it, and that the rings
  hold exactly the chains of busy buffers, with an interrupt to come for what is
  in the used ring. It rests on `CacheInv`: two requests never have the same
  buffer because of the sleep lock. `NoMissedCompletion` follows.
- `DataInv` says that a request is a write exactly for a valid
  buffer, that a finished read has left in its buffer what is still on disk, and
  that pinned buffers are valid. `ViewIsRight` says what the refinement mapping
  shows of a block, given that it has one buffer. Then every step is taken to a
  step of BlockStore (the device's write, the return of `bread`, the holder's
  steps, the recycling of a buffer) or to none, which gives
  `CacheRefinesBlockStore`: Spec implements BlockStore.

With TLC only: liveness; the invariants of Shm, which hold only of behaviours in
which no heap that covers a segment is given back; those of Inode; and the algorithms of
`sequential` other than Rle, several of which are RECURSIVE operators, about which
nothing can be proved here.

## Not modelled

- The file server's accept loop, stop signal and PING, and the logger under
  several threads: what they do depends on how the system delivers
  signals and ends threads, which the source does not decide. Safety of paths
  (rejecting ".." and absolute names) and default names are string tests. The
  replies other than bulk strings are text.
- The clock and `sys_pause`, and the nesting of spinlocks and interrupts
  (`push_off`, `pop_off`): a critical section is one step of the models, and
  spinlocks are taken to work.
- In the file system: the entry "..", `mknod` and devices, the contents of files
  in `readi` and `stati`, and a full inode table.
- In `exec`: the checks of the ELF headers and the layout of the arguments; its
  effect on memory is in Shm.
- In the drivers: the negotiation of `virtio_disk_init`, the panics on a bad
  status, and ^P.
- In the shell: the built-in cd, and failing open, pipe and fork.
- RENAMEFILE of a directory, which also moves files whose paths are not locked.
- Assembly, boot code and the programming of devices (`entry.S`, `swtch.S`,
  `start.c`, `plic.c`), which the initial states stand for; the system call table
  and printf, which hold no state; user programs other than init, the shell and
  the allocator, which only drive the kernel.

The memory model of the machine is sequentially consistent here.
