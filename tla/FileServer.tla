----------------------------- MODULE FileServer -----------------------------
(***************************************************************************)
(* The commands of the file server (file_ops.c) as its client threads run  *)
(* them concurrently: the registry of read/write locks (locks.c) and the   *)
(* system calls each command makes on the files of the data directory.     *)
(*                                                                         *)
(* A path is a number; the order of the numbers is that of strcmp().       *)
(* FileOf gives the file a path leads to: "a" and "./a" are two paths of   *)
(* one file.  Locks belong to paths, contents to inodes.  A system call is *)
(* one step; reads and writes may be short.  Every call may fail.          *)
(***************************************************************************)
EXTENDS Rle, FiniteSets

CONSTANTS Clients,        \* the client threads
          Paths, Files,   \* what path_build() accepts, and where it leads
          FileOf,         \* the file of each path
          Commands,       \* the commands clients send
          COPY_BUF_SIZE,  \* buffer of COPYFILE
          Inodes, None    \* inode numbers; no inode, no client, no file

\* The commands on one path carry it twice; only SETFILE brings data.
OnePathOps == {"SETFILE", "GETFILE", "STATFILE", "DELFILE"}
Ops == OnePathOps \cup {"COPYFILE", "RENAMEFILE", "COMPRESS", "DECOMPRESS"}

ASSUME FileServerAssumption ==
  /\ IsFiniteSet(Clients) /\ None \notin Clients
  /\ Paths \subseteq Nat
  /\ IsFiniteSet(Files) /\ FileOf \in [Paths -> Files]
  /\ COPY_BUF_SIZE \in Nat \ {0}
  /\ IsFiniteSet(Inodes) /\ None \notin Inodes
  /\ Cardinality(Inodes) >= Cardinality(Files) + 2 * Cardinality(Clients)
  /\ Commands \subseteq [op : Ops, src : Paths, dst : Paths, data : Seq(Nat)]
  /\ \A m \in Commands : /\ m.op \in OnePathOps => m.src = m.dst
                         /\ m.op # "SETFILE" => m.data = <<>>
  /\ None \notin Seq(Nat)
  /\ None \notin [op : Ops, src : Files, dst : Files, data : Seq(Nat)]

VARIABLES dir,     \* the inode of each file, None when it does not exist
          data,    \* contents of each inode
          readers, \* the clients that hold the read lock of a path
          writer,  \* the client that holds its write lock
          cmd,     \* the command a client runs
          pc,      \* where it stands
          rfd, roff, size, \* descriptor and offset it reads at, st_size
          wfd, woff,       \* descriptor and offset it writes at
          buf,     \* bytes read so far, or still to be written
          saved,   \* history: the file it has truncated, as it was before
          reply    \* the reply it is going to send

fs == <<dir, data>>
locks == <<readers, writer>>
local == <<rfd, roff, size, wfd, woff, buf, saved>>
vars == <<fs, locks, cmd, pc, local, reply>>

NoCommand == [op |-> "none"]
NoReply == [kind |-> "none"]

Init ==
  /\ dir = [f \in Files |-> None]
  /\ data = [i \in Inodes |-> <<>>]
  /\ readers = [n \in Paths |-> {}]
  /\ writer = [n \in Paths |-> None]
  /\ cmd = [c \in Clients |-> NoCommand]
  /\ pc = [c \in Clients |-> "idle"]
  /\ rfd = [c \in Clients |-> None] /\ wfd = [c \in Clients |-> None]
  /\ roff = [c \in Clients |-> 0] /\ woff = [c \in Clients |-> 0]
  /\ size = [c \in Clients |-> 0]
  /\ buf = [c \in Clients |-> <<>>]
  /\ saved = [c \in Clients |-> None]
  /\ reply = [c \in Clients |-> NoReply]

At(c, l) == pc[c] = l
Goto(c, l) == pc' = [pc EXCEPT ![c] = l]
Runs(c, ops) == cmd[c].op \in ops
Source(c) == FileOf[cmd[c].src]
Target(c) == FileOf[cmd[c].dst]

\* The descriptors are closed and the reply is settled; the locks are still
\* to be released.
Done(c, r) ==
  /\ reply' = [reply EXCEPT ![c] = r]
  /\ rfd' = [rfd EXCEPT ![c] = None] /\ wfd' = [wfd EXCEPT ![c] = None]
  /\ roff' = [roff EXCEPT ![c] = 0] /\ woff' = [woff EXCEPT ![c] = 0]
  /\ size' = [size EXCEPT ![c] = 0]
  /\ buf' = [buf EXCEPT ![c] = <<>>]
  /\ saved' = [saved EXCEPT ![c] = None]
  /\ Goto(c, "release")
  /\ UNCHANGED <<locks, cmd>>

Ok == [kind |-> "ok"]
Err == [kind |-> "err"]

\* dispatch_command(): a request has arrived and its paths are valid.
receive(c, m) ==
  /\ At(c, "idle")
  /\ cmd' = [cmd EXCEPT ![c] = m]
  /\ buf' = [buf EXCEPT ![c] = m.data]
  /\ Goto(c, "lock")
  /\ UNCHANGED <<fs, locks, rfd, roff, size, wfd, woff, saved, reply>>

-----------------------------------------------------------------------------
(* Locks *)

ReadOps == {"GETFILE", "STATFILE"}

\* locks_acquire_two_write() takes the smaller path first.
Bug_First(m) == m.src
First(m) == IF m.dst < m.src THEN m.dst ELSE m.src
Second(m) == IF First(m) = m.src THEN m.dst ELSE m.src

CanRead(n) == writer[n] = None
CanWrite(n) == writer[n] = None /\ readers[n] = {}

locks_acquire_read(c) ==
  /\ At(c, "lock") /\ Runs(c, ReadOps) /\ CanRead(cmd[c].src)
  /\ readers' = [readers EXCEPT ![cmd[c].src] = @ \cup {c}]
  /\ Goto(c, "op")
  /\ UNCHANGED <<fs, writer, cmd, local, reply>>

locks_acquire_write(c) ==
  /\ At(c, "lock") /\ ~Runs(c, ReadOps) /\ CanWrite(First(cmd[c]))
  /\ writer' = [writer EXCEPT ![First(cmd[c])] = c]
  /\ Goto(c, IF cmd[c].src = cmd[c].dst THEN "op" ELSE "lock2")
  /\ UNCHANGED <<fs, readers, cmd, local, reply>>

locks_acquire_second(c) ==
  /\ At(c, "lock2") /\ CanWrite(Second(cmd[c]))
  /\ writer' = [writer EXCEPT ![Second(cmd[c])] = c]
  /\ Goto(c, "op")
  /\ UNCHANGED <<fs, readers, cmd, local, reply>>

\* No memory for a lock's entry: what is held already is released at the end.
lock_fails(c) ==
  /\ At(c, "lock") \/ At(c, "lock2")
  /\ Done(c, Err)
  /\ UNCHANGED fs

\* locks_release() or locks_release_two(), and the reply is sent.
locks_release(c) ==
  /\ At(c, "release")
  /\ readers' = [n \in Paths |-> readers[n] \ {c}]
  /\ writer' = [n \in Paths |-> IF writer[n] = c THEN None ELSE writer[n]]
  /\ cmd' = [cmd EXCEPT ![c] = NoCommand]
  /\ reply' = [reply EXCEPT ![c] = NoReply]
  /\ Goto(c, "idle")
  /\ UNCHANGED <<fs, local>>

-----------------------------------------------------------------------------
(* read_all_file() in GETFILE, COMPRESS and DECOMPRESS *)

ReadAllOps == {"GETFILE", "COMPRESS", "DECOMPRESS"}

open_read(c) ==
  /\ At(c, "op") /\ Runs(c, ReadAllOps)
  /\ dir[Source(c)] # None /\ Len(data[dir[Source(c)]]) <= MAX_FILE_SIZE
  /\ rfd' = [rfd EXCEPT ![c] = dir[Source(c)]]
  /\ size' = [size EXCEPT ![c] = Len(data[dir[Source(c)]])]
  /\ Goto(c, "read")
  /\ UNCHANGED <<fs, locks, cmd, roff, wfd, woff, buf, saved, reply>>

not_found(c) ==
  /\ At(c, "op") /\ Runs(c, ReadAllOps \cup {"STATFILE"})
  /\ dir[Source(c)] = None
  /\ Done(c, IF Runs(c, ReadOps) THEN [kind |-> "null"] ELSE Err)
  /\ UNCHANGED fs

too_large(c) ==
  /\ At(c, "op") /\ Runs(c, ReadAllOps)
  /\ dir[Source(c)] # None /\ Len(data[dir[Source(c)]]) > MAX_FILE_SIZE
  /\ Done(c, Err)
  /\ UNCHANGED fs

\* Bytes left before the end of the file c reads.
Left(c) == Len(data[rfd[c]]) - roff[c]

\* read() transfers k of the bytes asked for.
read_some(c, k) ==
  /\ At(c, "read") /\ k <= Left(c) /\ k <= size[c] - roff[c]
  /\ buf' = [buf EXCEPT ![c] = @ \o SubSeq(data[rfd[c]], roff[c] + 1, roff[c] + k)]
  /\ roff' = [roff EXCEPT ![c] = @ + k]
  /\ UNCHANGED <<fs, locks, cmd, pc, rfd, size, wfd, woff, saved, reply>>

ReadAll(c) == At(c, "read") /\ (roff[c] >= size[c] \/ Left(c) <= 0)

getfile_reply(c) ==
  /\ ReadAll(c) /\ Runs(c, {"GETFILE"})
  /\ Done(c, [kind |-> "bulk", data |-> buf[c]])
  /\ UNCHANGED fs

Convert(c, s) ==
  /\ buf' = [buf EXCEPT ![c] = s]
  /\ rfd' = [rfd EXCEPT ![c] = None] /\ roff' = [roff EXCEPT ![c] = 0]
  /\ size' = [size EXCEPT ![c] = 0]
  /\ Goto(c, "open")
  /\ UNCHANGED <<fs, locks, cmd, wfd, woff, saved, reply>>

compress(c) ==
  /\ ReadAll(c) /\ Runs(c, {"COMPRESS"})
  /\ Convert(c, rle_compress_bytes(buf[c]))

decompress(c) ==
  /\ ReadAll(c) /\ Runs(c, {"DECOMPRESS"}) /\ Decodable(buf[c])
  /\ Convert(c, rle_decompress_bytes(buf[c]))

decompress_fails(c) ==
  /\ ReadAll(c) /\ Runs(c, {"DECOMPRESS"}) /\ ~Decodable(buf[c])
  /\ Done(c, Err)
  /\ UNCHANGED fs

-----------------------------------------------------------------------------
(* write_all_file() in SETFILE, COMPRESS and DECOMPRESS; COPYFILE *)

Open == {rfd[c] : c \in Clients} \cup {wfd[c] : c \in Clients}
NewInode ==
  CHOOSE i \in Inodes : i \notin Open /\ \A f \in Files : dir[f] # i

\* Contents once the directory is d: an inode without a name and without a
\* descriptor is gone.
Reclaimed(d) ==
  [i \in Inodes |-> IF i \in Open \/ \E f \in Files : d[f] = i
                      THEN data[i] ELSE <<>>]

\* COPYFILE opens its source first; nothing is read yet.
copy_open(c) ==
  /\ At(c, "op") /\ Runs(c, {"COPYFILE"}) /\ dir[Source(c)] # None
  /\ rfd' = [rfd EXCEPT ![c] = dir[Source(c)]]
  /\ Goto(c, "open")
  /\ UNCHANGED <<fs, locks, cmd, roff, size, wfd, woff, buf, saved, reply>>

copy_not_found(c) ==
  /\ At(c, "op") /\ Runs(c, {"COPYFILE"}) /\ dir[Source(c)] = None
  /\ Done(c, Err)
  /\ UNCHANGED fs

\* open(O_CREAT | O_TRUNC)
open_write(c) ==
  LET old == dir[Target(c)]
      i == IF old = None THEN NewInode ELSE old
  IN  /\ At(c, "open") \/ (At(c, "op") /\ Runs(c, {"SETFILE"}))
      /\ dir' = [dir EXCEPT ![Target(c)] = i]
      /\ data' = [data EXCEPT ![i] = <<>>]
      /\ wfd' = [wfd EXCEPT ![c] = i]
      /\ saved' = [saved EXCEPT ![c] = IF old = None THEN None ELSE data[old]]
      /\ Goto(c, IF Runs(c, {"COPYFILE"}) THEN "copy" ELSE "write")
      /\ UNCHANGED <<locks, cmd, rfd, roff, size, woff, buf, reply>>

\* Contents s after the bytes t are written at offset o (a gap reads as 0).
WriteAt(s, o, t) ==
  [j \in 1..(IF o + Len(t) > Len(s) THEN o + Len(t) ELSE Len(s)) |->
     IF j > o /\ j <= o + Len(t) THEN t[j - o] ELSE IF j <= Len(s) THEN s[j] ELSE 0]

\* write() transfers k of the bytes asked for.
Bug_write_some(c, k) ==
  /\ At(c, "write") /\ k <= Len(buf[c])
  /\ data' = [data EXCEPT ![wfd[c]] = WriteAt(@, woff[c], SubSeq(buf[c], 1, k))]
  /\ woff' = [woff EXCEPT ![c] = @ + k]
  /\ buf' = [buf EXCEPT ![c] = <<>>]
  /\ UNCHANGED <<dir, locks, cmd, pc, rfd, roff, size, wfd, saved, reply>>
write_some(c, k) ==
  /\ At(c, "write") /\ k <= Len(buf[c])
  /\ data' = [data EXCEPT ![wfd[c]] = WriteAt(@, woff[c], SubSeq(buf[c], 1, k))]
  /\ woff' = [woff EXCEPT ![c] = @ + k]
  /\ buf' = [buf EXCEPT ![c] = SubSeq(@, k + 1, Len(@))]
  /\ UNCHANGED <<dir, locks, cmd, pc, rfd, roff, size, wfd, saved, reply>>

\* Everything is written: fsync() and close() ...
write_done(c) ==
  /\ At(c, "write") /\ buf[c] = <<>> /\ ~Runs(c, {"COPYFILE"})
  /\ Done(c, Ok)
  /\ UNCHANGED fs

\* ... or, in COPYFILE, back to the next read.
copy_next(c) ==
  /\ At(c, "write") /\ buf[c] = <<>> /\ Runs(c, {"COPYFILE"})
  /\ Goto(c, "copy")
  /\ UNCHANGED <<fs, locks, cmd, local, reply>>

copy_read(c, k) ==
  /\ At(c, "copy") /\ k <= Left(c) /\ k <= COPY_BUF_SIZE
  /\ buf' = [buf EXCEPT ![c] = SubSeq(data[rfd[c]], roff[c] + 1, roff[c] + k)]
  /\ roff' = [roff EXCEPT ![c] = @ + k]
  /\ Goto(c, "write")
  /\ UNCHANGED <<fs, locks, cmd, rfd, size, wfd, woff, saved, reply>>

copy_done(c) ==
  /\ At(c, "copy") /\ Left(c) <= 0
  /\ Done(c, Ok)
  /\ UNCHANGED fs

-----------------------------------------------------------------------------
(* STATFILE, DELFILE and RENAMEFILE *)

stat(c) ==
  /\ At(c, "op") /\ Runs(c, {"STATFILE"}) /\ dir[Source(c)] # None
  /\ Done(c, [kind |-> "size", size |-> Len(data[dir[Source(c)]])])
  /\ UNCHANGED fs

unlink(c) ==
  /\ At(c, "op") /\ Runs(c, {"DELFILE"})
  /\ dir' = [dir EXCEPT ![Source(c)] = None]
  /\ data' = Reclaimed(dir')
  /\ Done(c, [kind |-> "int", n |-> IF dir[Source(c)] = None THEN 0 ELSE 1])

\* rename() of a regular file; of a file to itself it does nothing.
rename(c) ==
  /\ At(c, "op") /\ Runs(c, {"RENAMEFILE"}) /\ dir[Source(c)] # None
  /\ dir' = IF Source(c) = Target(c) THEN dir
            ELSE [dir EXCEPT ![Target(c)] = dir[Source(c)], ![Source(c)] = None]
  /\ data' = Reclaimed(dir')
  /\ Done(c, Ok)

\* Any system call may fail, with what was written so far left in place.
\* rename() of a file that does not exist fails.
io_fails(c) ==
  /\ pc[c] \in {"op", "read", "open", "write", "copy"}
  /\ Done(c, Err)
  /\ UNCHANGED fs

-----------------------------------------------------------------------------

Counts == 1..MAX_FILE_SIZE + Len(Magic) + MAX_FILE_SIZE

ClientStep(c) ==
  \/ locks_acquire_read(c) \/ locks_acquire_write(c) \/ locks_acquire_second(c)
  \/ lock_fails(c) \/ locks_release(c)
  \/ open_read(c) \/ not_found(c) \/ too_large(c)
  \/ getfile_reply(c) \/ compress(c) \/ decompress(c) \/ decompress_fails(c)
  \/ copy_open(c) \/ copy_not_found(c) \/ open_write(c)
  \/ write_done(c) \/ copy_next(c) \/ copy_done(c)
  \/ \E k \in Counts : read_some(c, k) \/ write_some(c, k) \/ copy_read(c, k)
  \/ stat(c) \/ unlink(c) \/ rename(c) \/ io_fails(c)

Next ==
  \E c \in Clients : ClientStep(c) \/ \E m \in Commands : receive(c, m)

Spec == Init /\ [][Next]_vars

-----------------------------------------------------------------------------
(* Properties *)

Labels == {"idle", "lock", "lock2", "op", "read", "open", "write", "copy",
           "release"}

\* Every variable holds a value of its kind.
TypeOK ==
  /\ dir \in [Files -> Inodes \cup {None}]
  /\ DOMAIN data = Inodes
  /\ readers \in [Paths -> SUBSET Clients]
  /\ writer \in [Paths -> Clients \cup {None}]
  /\ pc \in [Clients -> Labels]
  /\ cmd \in [Clients -> Commands \cup {NoCommand}]
  /\ rfd \in [Clients -> Inodes \cup {None}]
  /\ wfd \in [Clients -> Inodes \cup {None}]
  /\ roff \in [Clients -> Nat] /\ woff \in [Clients -> Nat]
  /\ size \in [Clients -> 0..MAX_FILE_SIZE]

\* Where a client works on the files.
Active == {"op", "read", "open", "write", "copy"}
PathsOf(c) == {cmd[c].src, cmd[c].dst}
\* c and d are at work, and not both only to read.
Meet(c, d) ==
  /\ c # d /\ pc[c] \in Active /\ pc[d] \in Active
  /\ ~(Runs(c, ReadOps) /\ Runs(d, ReadOps))

\* A path that a client changes is in no other client's hands: locks.c has one
\* lock for a path, whatever the number of clients and the order of their calls.
PathsAreExclusive ==
  \A c, d \in Clients : Meet(c, d) => PathsOf(c) \cap PathsOf(d) = {}

\* "Read/write locking is per canonical full path" (README of the server): nobody
\* has a file open that another client is writing.
WriterIsAlone ==
  \A c, d \in Clients :
    c # d /\ wfd[c] # None => wfd[d] # wfd[c] /\ rfd[d] # wfd[c]

\* The clients at work spell a file they meet at in the same way.  path_build()
\* does not see to it: it joins names without making them canonical.
SameSpelling ==
  \A c, d \in Clients : Meet(c, d) =>
    \A m \in PathsOf(c), n \in PathsOf(d) : FileOf[m] = FileOf[n] => m = n

\* A client that has replied holds no lock: every error path of every command
\* releases what it has taken.
IdleHoldsNothing ==
  \A c \in Clients : At(c, "idle") =>
    \A n \in Paths : c \notin readers[n] /\ writer[n] # c

Blocked(c) ==
  \/ At(c, "lock") /\ Runs(c, ReadOps) /\ ~CanRead(cmd[c].src)
  \/ At(c, "lock") /\ ~Runs(c, ReadOps) /\ ~CanWrite(First(cmd[c]))
  \/ At(c, "lock2") /\ ~CanWrite(Second(cmd[c]))

\* The commands never wait for each other in a circle (README: both paths are
\* locked in sorted order to avoid deadlocks): somebody can go on.
NotAllBlocked ==
  (\E c \in Clients : ~At(c, "idle")) =>
    \E c \in Clients : ~At(c, "idle") /\ ~Blocked(c)

\* The locks do their work, also when a file has several paths: a path belongs to
\* one writer or to readers, locks are released on every path through a command,
\* and they never block everybody.
LocksWork == TypeOK /\ PathsAreExclusive /\ IdleHoldsNothing /\ NotAllBlocked

\* The file as the other clients may see it: a client that is rewriting it
\* has it locked, so what counts is what was there before.
Content(f) ==
  IF \E c \in Clients : wfd[c] # None /\ Target(c) = f
    THEN saved[CHOOSE c \in Clients : wfd[c] # None /\ Target(c) = f]
    ELSE IF dir[f] = None THEN None ELSE data[dir[f]]

OnFiles(m) == [m EXCEPT !.src = FileOf[m.src], !.dst = FileOf[m.dst]]

A == INSTANCE AtomicFiles WITH
       Commands <- {OnFiles(m) : m \in Commands},
       Absent <- None,
       files <- [f \in Files |-> Content(f)],
       call <- [c \in Clients |-> IF pc[c] \in {"idle", "release"}
                                    THEN None ELSE OnFiles(cmd[c])]

\* Every command on regular files takes effect at once and replies accordingly,
\* however the client threads interleave, system calls fail and reads and writes
\* are short, as long as SameSpelling: commands that meet at a file through two
\* spellings are not atomic.  A RENAMEFILE of a directory, which moves files that
\* the locks of its two paths do not cover, is not modelled.
ImplementsAtomicFiles == A!ASpec
=============================================================================
