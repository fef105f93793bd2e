-------------------------------- MODULE Inode -------------------------------
(***************************************************************************)
(* The inodes of the file system (kernel/fs.c) under the calls that create,*)
(* find, link and remove files (kernel/sysfile.c), with crashes.           *)
(*                                                                         *)
(* The disk is what the transactions under way have made of it; durable is *)
(* what the last commit left, which is all that a crash leaves (module     *)
(* AtomicDisk).  What a process does between ilock() and iunlock() is one  *)
(* step where it locks one inode only, two where it holds the directory    *)
(* while it waits for the file.  iput() is a step of its own, because it   *)
(* tests the counts without the lock of the inode, and three more when it  *)
(* frees the inode.                                                        *)
(*                                                                         *)
(* The entry ".." of a directory is kept as what it adds to the link count *)
(* of the parent; paths do not go through it.  itable has an entry for     *)
(* every inode.                                                            *)
(***************************************************************************)
EXTENDS Integers, Sequences, FiniteSets, FiniteSetsExt

CONSTANTS Procs,
          NInodes, \* inodes of the disk, 1 is the root directory
          Names,   \* names of directory entries
          Blocks,  \* data blocks
          Calls,   \* bound: the calls made: op, path and, for a link, new path
          MaxCalls \* bound: system calls

ASSUME InodeAssumption ==
  /\ NInodes \in Nat \ {0} /\ MaxCalls \in Nat
  /\ \A c \in Calls : c.path \in Seq(Names) \ {<<>>} /\ c.new \in Seq(Names)

Inums == 1..NInodes
Root == 1
NoEntries == [n \in Names |-> 0]
Entries(e) == {e[n] : n \in Names} \ {0}

VARIABLES disk,    \* the disk with the changes of the transactions under way
          durable, \* the disk as of the last commit
          itable,  \* ref, valid, lock (its holder or 0) and the copy of each inode
          run,     \* each process: cwd, file (the inode it has open or 0), where it
                   \*   is in a call and the variables of the call
          calls,   \* system calls so far
          boot,    \* the inode ireclaim() looks at next; 0 when the system is up
          leaked   \* inodes that were allocated and dropped again within an iput()

vars == <<disk, durable, itable, run, calls, boot, leaked>>
system == <<durable, calls, boot, leaked>>

Free == [type |-> "free", nlink |-> 0, addrs |-> {}]

\* The disk as mkfs makes it when it is given no files.  lost are the inodes whose
\* directory was freed with their entry in it.
mkfs ==
  [dinode |-> [i \in Inums |-> IF i = Root THEN [Free EXCEPT !.type = "dir", !.nlink = 1]
                                           ELSE Free],
   ents |-> [i \in Inums |-> NoEntries],
   bitmap |-> {},
   lost |-> {}]

\* The memory of a kernel that starts.
EmptyTable == [i \in Inums |-> [ref |-> 0, valid |-> FALSE, lock |-> 0, ino |-> Free]]
Idle == [pc |-> "user", cwd |-> 0, file |-> 0, op |-> "none", path |-> <<>>, new |-> <<>>,
         at |-> 0, ip |-> 0, puts |-> <<>>, then |-> "end"]

Init ==
  /\ disk = mkfs /\ durable = mkfs
  /\ itable = EmptyTable
  /\ run = [p \in Procs |-> Idle]
  /\ calls = 0 /\ boot = 1 /\ leaked = {}

-----------------------------------------------------------------------------
(* The disk dk after one of the operations of fs.c *)

iupdate(dk, i, r) == [dk EXCEPT !.dinode[i] = r]
ialloc(dk, i, type) == [dk EXCEPT !.dinode[i] = [Free EXCEPT !.type = type]]

\* balloc() takes the first block that is not in use: a set of one block, or none.
balloc(dk) ==
  LET unused == Blocks \ dk.bitmap
  IN  {n \in unused : \A m \in unused : n <= m}

\* bmap() adds block b to inode i with copy r.
bmap(dk, i, r, b) ==
  [dk EXCEPT !.dinode[i] = [r EXCEPT !.addrs = @ \cup b], !.bitmap = @ \cup b]

bfree(dk, b) == [dk EXCEPT !.bitmap = @ \ b]
itrunc(dk, i, r) == iupdate(bfree(dk, r.addrs), i, [r EXCEPT !.addrs = {}])

dirlookup(d, n) == disk.ents[d][n]
dirlink(dk, d, n, i) == [dk EXCEPT !.ents[d][n] = i]
isdirempty(d) == disk.ents[d] = NoEntries

\* itrunc() and type = 0 of inode i with copy r; the entries of a directory go too.
Freed(i, r) ==
  [itrunc(disk, i, r) EXCEPT !.dinode[i] = Free, !.ents[i] = NoEntries,
                             !.lost = (@ \ {i}) \cup Entries(disk.ents[i])]

-----------------------------------------------------------------------------
(* Start and crash *)

\* ireclaim() frees an inode without links; the transaction commits at once.
Bug_ireclaim ==
  /\ boot \in Inums
  /\ boot' = boot + 1
  /\ UNCHANGED <<disk, durable, itable, run, calls, leaked>>
ireclaim ==
  LET r == disk.dinode[boot]
  IN  /\ boot \in Inums
      /\ boot' = boot + 1
      /\ disk' = IF r.type # "free" /\ r.nlink = 0 THEN Freed(boot, r) ELSE disk
      /\ durable' = disk'
      /\ UNCHANGED <<itable, run, calls, leaked>>

\* The first processes run, with the root as their directory.
userinit ==
  /\ boot = NInodes + 1
  /\ boot' = 0
  /\ run' = [p \in Procs |-> [Idle EXCEPT !.cwd = Root]]
  /\ itable' = [itable EXCEPT ![Root].ref = Cardinality(Procs)]
  /\ UNCHANGED <<disk, durable, calls, leaked>>

crash ==
  /\ disk' = durable
  /\ itable' = EmptyTable
  /\ run' = [p \in Procs |-> Idle]
  /\ boot' = 1 /\ leaked' = {}
  /\ UNCHANGED <<durable, calls>>

-----------------------------------------------------------------------------
(* Locks *)

\* The inode p is about to lock, or 0.
Wants(p) ==
  LET l == run[p].pc
  IN  CASE l \in {"namex", "open", "chdir", "link", "create", "mkdir", "unlink", "link2"} ->
             run[p].at
        [] l = "write" -> run[p].file
        [] l \in {"create_new", "create_found", "unlink_ip", "link_bad"} -> run[p].ip
        [] OTHER -> 0

\* The copy of i once it is locked: ilock() reads it when it is not valid.
Loaded(i) == IF itable[i].valid THEN itable[i].ino ELSE disk.dinode[i]

\* p is at l and gets the lock of the inode it wants.
ilock(p, l) ==
  /\ run[p].pc = l /\ itable[Wants(p)].lock = 0
  /\ Loaded(Wants(p)).type # "free"

\* Table t with the copy of i set to r, and with one more reference to i.
Copy(t, i, r) == [t EXCEPT ![i].valid = TRUE, ![i].ino = r]
iget(t, i) == [t EXCEPT ![i].ref = @ + 1]
Hold(t, i, p) == [t EXCEPT ![i].lock = p]

\* p drops its variables and goes on to iput() the inodes s, then to l.
Puts(p, s, l) ==
  [run[p] EXCEPT !.at = 0, !.ip = IF l = "link_bad" THEN @ ELSE 0, !.puts = s, !.then = l,
                 !.pc = IF s = <<>> THEN l ELSE "put"]

Becomes(p, r) == run' = [run EXCEPT ![p] = r]

-----------------------------------------------------------------------------
(* begin_op, end_op, namex *)

Parents == {"create", "mkdir", "unlink", "link2"} \* these use nameiparent()

\* A call with a path: begin_op(), and the start of namex().
begin(p, c, s) ==
  /\ run[p].pc = "user" /\ calls < MaxCalls
  /\ calls' = calls + 1
  /\ itable' = iget(itable, s)
  /\ Becomes(p, [run[p] EXCEPT !.pc = "namex", !.op = c.op, !.path = c.path,
                               !.new = c.new, !.at = s])
  /\ UNCHANGED <<disk, durable, boot, leaked>>

\* end_op(): the last one out commits.
end_op(p) ==
  /\ run[p].pc = "end"
  /\ Becomes(p, [Idle EXCEPT !.cwd = run[p].cwd, !.file = run[p].file])
  /\ durable' = IF \A q \in Procs \ {p} : run[q].pc = "user" THEN disk ELSE durable
  /\ UNCHANGED <<disk, itable, calls, boot, leaked>>

\* One turn of the loop of namex(): i is no directory or has no such entry, or it
\* is the parent that is asked for, or the walk goes on to the entry.
namex(p) ==
  LET i == run[p].at
      last == Len(run[p].path) = 1
      next == dirlookup(i, run[p].path[1])
      dir == Loaded(i).type = "dir"
      found == dir /\ last /\ run[p].op \in Parents
      fail == IF run[p].op = "link2" THEN "link_bad" ELSE "end"
  IN  /\ ilock(p, "namex")
      /\ \/ /\ found
            /\ Becomes(p, [run[p] EXCEPT !.pc = run[p].op])
            /\ itable' = Copy(itable, i, Loaded(i))
         \/ /\ ~dir \/ (~found /\ next = 0)
            /\ Becomes(p, Puts(p, <<i>>, fail))
            /\ itable' = Copy(itable, i, Loaded(i))
         \/ /\ dir /\ ~found /\ next # 0
            /\ Becomes(p, [run[p] EXCEPT !.at = next, !.path = Tail(@), !.pc = "put",
                             !.puts = <<i>>, !.then = IF last THEN run[p].op ELSE "namex"])
            /\ itable' = iget(Copy(itable, i, Loaded(i)), next)
      /\ UNCHANGED <<disk, system>>

-----------------------------------------------------------------------------
(* iput *)

\* What iput() does last: ref--.  iget() does not use the copy of an entry without
\* references.
Drop(p) ==
  LET i == run[p].puts[1]
  IN  /\ itable' = [itable EXCEPT ![i] = IF @.ref = 1 THEN EmptyTable[i]
                                         ELSE [@ EXCEPT !.ref = @ - 1]]
      /\ Becomes(p, [run[p] EXCEPT !.puts = Tail(@),
                       !.pc = IF Len(run[p].puts) = 1 THEN run[p].then ELSE "put"])
      /\ UNCHANGED <<disk, durable, calls, boot>>

\* The last reference to an inode without links.
Bug_LastPut(i) == itable[i].valid /\ itable[i].ino.nlink = 0
LastPut(i) == itable[i].ref = 1 /\ itable[i].valid /\ itable[i].ino.nlink = 0

iput(p) ==
  /\ run[p].pc = "put" /\ ~LastPut(run[p].puts[1])
  /\ Drop(p)
  /\ UNCHANGED leaked

\* acquiresleep() under itable.lock.
iput_free(p) ==
  LET i == run[p].puts[1]
  IN  /\ run[p].pc = "put" /\ LastPut(i) /\ itable[i].lock = 0
      /\ itable' = Hold(itable, i, p)
      /\ Becomes(p, [run[p] EXCEPT !.pc = "iput_trunc"])
      /\ UNCHANGED <<disk, system>>

\* itrunc(), type = 0, iupdate(): the inode can be allocated from here on.
iput_trunc(p) ==
  LET i == run[p].puts[1]
  IN  /\ run[p].pc = "iput_trunc"
      /\ disk' = Freed(i, itable[i].ino)
      /\ itable' = Copy(itable, i, Free)
      /\ Becomes(p, [run[p] EXCEPT !.pc = "iput_valid"])
      /\ UNCHANGED system

\* valid = 0, releasesleep().
Bug_Invalidated(i) == [itable EXCEPT ![i].lock = 0]
Invalidated(i) == [itable EXCEPT ![i].valid = FALSE, ![i].lock = 0]
iput_valid(p) ==
  /\ run[p].pc = "iput_valid"
  /\ itable' = Invalidated(run[p].puts[1])
  /\ Becomes(p, [run[p] EXCEPT !.pc = "iput_drop"])
  /\ UNCHANGED <<disk, system>>

\* The counts are not looked at again.
iput_drop(p) ==
  LET i == run[p].puts[1]
  IN  /\ run[p].pc = "iput_drop"
      /\ Drop(p)
      /\ leaked' = IF itable[i].ref = 1 /\ disk.dinode[i].type # "free"
                      /\ disk.dinode[i].nlink = 0
                     THEN leaked \cup {i} ELSE leaked

-----------------------------------------------------------------------------
(* open, chdir, close, write *)

\* A call fails with inode i, whose copy r it has locked: iunlockput().
Fail(p, i, r) ==
  /\ Becomes(p, Puts(p, <<i>>, "end"))
  /\ itable' = Copy(itable, i, r)
  /\ UNCHANGED disk

\* The rest of sys_open() once the inode is locked.  The call fails when p has no
\* free descriptor; O_TRUNC empties a file.
opened(p, i, r, trunc) ==
  IF run[p].file # 0 THEN Fail(p, i, r)
  ELSE /\ Becomes(p, [Puts(p, <<>>, "end") EXCEPT !.file = i])
       /\ itable' = Copy(itable, i, IF trunc THEN [r EXCEPT !.addrs = {}] ELSE r)
       /\ disk' = IF trunc THEN itrunc(disk, i, r) ELSE disk

\* sys_open() without O_CREATE; a directory can only be read.
sys_open(p, trunc) ==
  LET i == run[p].at
      r == Loaded(i)
  IN  /\ ilock(p, "open")
      /\ IF trunc /\ r.type = "dir" THEN Fail(p, i, r) ELSE opened(p, i, r, trunc)
      /\ UNCHANGED system

\* The old directory is dropped.
Bug_Leaves(p) == <<>>
Leaves(p) == <<run[p].cwd>>
sys_chdir(p) ==
  LET i == run[p].at
  IN  /\ ilock(p, "chdir")
      /\ itable' = Copy(itable, i, Loaded(i))
      /\ Becomes(p, IF Loaded(i).type = "dir"
                      THEN [Puts(p, Leaves(p), "end") EXCEPT !.cwd = i]
                      ELSE Puts(p, <<i>>, "end"))
      /\ UNCHANGED <<disk, system>>

\* fileclose(): begin_op(), iput(), end_op().
sys_close(p) ==
  /\ run[p].pc = "user" /\ run[p].file # 0 /\ calls < MaxCalls
  /\ calls' = calls + 1
  /\ Becomes(p, [Puts(p, <<run[p].file>>, "end") EXCEPT !.file = 0])
  /\ UNCHANGED <<disk, durable, itable, boot, leaked>>

\* filewrite() to a file, as far as begin_op(); directories are never writable.
sys_write(p) ==
  /\ run[p].pc = "user" /\ run[p].file # 0 /\ calls < MaxCalls
  /\ disk.dinode[run[p].file].type = "file"
  /\ calls' = calls + 1
  /\ Becomes(p, [run[p] EXCEPT !.pc = "write"])
  /\ UNCHANGED <<disk, durable, itable, boot, leaked>>

\* writei() to a new block: bmap() takes a free one; without one nothing is
\* written.
writei(p) ==
  LET i == run[p].file
      b == balloc(disk)
  IN  /\ ilock(p, "write")
      /\ disk' = bmap(disk, i, Loaded(i), b)
      /\ itable' = Copy(itable, i, disk'.dinode[i])
      /\ Becomes(p, Puts(p, <<>>, "end"))
      /\ UNCHANGED system

-----------------------------------------------------------------------------
(* create, for open(O_CREATE) and mkdir *)

TypeFor(p) == IF run[p].op = "mkdir" THEN "dir" ELSE "file"
FreeInodes == {i \in Inums : disk.dinode[i].type = "free"}

\* With the directory locked: the name exists, or there is no inode, or ialloc()
\* takes one; then p keeps the lock until it has that of the inode.
create(p) ==
  LET d == run[p].at
      n == dirlookup(d, run[p].path[1])
      new == Min(FreeInodes)
      t == Copy(itable, d, Loaded(d))
  IN  /\ ilock(p, "create") \/ ilock(p, "mkdir")
      /\ \/ /\ n # 0
            /\ itable' = iget(t, n)
            /\ Becomes(p, [Puts(p, <<d>>, "create_found") EXCEPT !.ip = n])
            /\ UNCHANGED disk
         \/ /\ n = 0 /\ FreeInodes = {}
            /\ itable' = t
            /\ Becomes(p, Puts(p, <<d>>, "end"))
            /\ UNCHANGED disk
         \/ /\ n = 0 /\ FreeInodes # {}
            /\ disk' = ialloc(disk, new, TypeFor(p))
            /\ itable' = Hold(iget(t, new), d, p)
            /\ Becomes(p, [run[p] EXCEPT !.ip = new, !.pc = "create_new"])
      /\ UNCHANGED system

\* An existing file is opened by open(O_CREATE); mkdir() fails, and so does the
\* open of a directory.
create_found(p, trunc) ==
  LET i == run[p].ip
      r == Loaded(i)
  IN  /\ ilock(p, "create_found")
      /\ IF TypeFor(p) = "file" /\ r.type = "file" THEN opened(p, i, r, trunc)
         ELSE Fail(p, i, r)
      /\ UNCHANGED system

\* nlink = 1 and the entry in the directory, which one more ".." refers to; or
\* dirlink() finds no block, and nlink = 0 leaves it to iput() to free the inode.
\* open() then goes on with the inode, mkdir() drops it.
create_new(p, ok) ==
  LET i == run[p].ip
      d == run[p].at
      r == [Loaded(i) EXCEPT !.nlink = IF ok THEN 1 ELSE 0]
      rd == [itable[d].ino EXCEPT !.nlink = IF ok /\ r.type = "dir" THEN @ + 1 ELSE @]
      opens == ok /\ r.type = "file" /\ run[p].file = 0
  IN  /\ ilock(p, "create_new")
      /\ itable' = Hold(Copy(Copy(itable, i, r), d, rd), d, 0)
      /\ LET dk == iupdate(iupdate(disk, i, r), d, rd)
         IN  disk' = IF ok THEN dirlink(dk, d, run[p].path[1], i) ELSE dk
      /\ Becomes(p, IF opens THEN [Puts(p, <<d>>, "end") EXCEPT !.file = i]
                    ELSE Puts(p, IF ok THEN <<d, i>> ELSE <<i, d>>, "end"))
      /\ UNCHANGED system

-----------------------------------------------------------------------------
(* link, unlink *)

\* The link is counted before it exists; then namex() looks for its directory.
sys_link(p, s) ==
  LET i == run[p].at
      r == Loaded(i)
      more == [r EXCEPT !.nlink = @ + 1]
  IN  /\ ilock(p, "link")
      /\ IF r.type = "dir"
           THEN /\ itable' = Copy(itable, i, r)
                /\ Becomes(p, Puts(p, <<i>>, "end"))
                /\ UNCHANGED disk
           ELSE /\ itable' = iget(Copy(itable, i, more), s)
                /\ disk' = iupdate(disk, i, more)
                /\ Becomes(p, [run[p] EXCEPT !.pc = "namex", !.op = "link2", !.ip = i,
                                 !.at = s, !.path = run[p].new, !.new = <<>>])
      /\ UNCHANGED system

\* dirlink() fails when the name exists, and then drops the inode it found while
\* the directory is locked, or when there is no block for it.
link_entry(p, ok) ==
  LET d == run[p].at
      n == run[p].path[1]
      i == dirlookup(d, n)
      t == Copy(itable, d, Loaded(d))
  IN  /\ ilock(p, "link2")
      /\ \/ /\ i = 0 /\ ok
            /\ itable' = t
            /\ disk' = dirlink(disk, d, n, run[p].ip)
            /\ Becomes(p, Puts(p, <<d, run[p].ip>>, "end"))
         \/ /\ i = 0 /\ ~ok
            /\ itable' = t
            /\ Becomes(p, Puts(p, <<d>>, "link_bad"))
            /\ UNCHANGED disk
         \/ /\ i # 0 /\ ok
            /\ itable' = Hold(iget(t, i), d, p)
            /\ Becomes(p, [run[p] EXCEPT !.pc = "put", !.puts = <<i>>, !.then = "link_exists"])
            /\ UNCHANGED disk
      /\ UNCHANGED system

\* iunlockput() of the directory.
link_exists(p) ==
  /\ run[p].pc = "link_exists"
  /\ itable' = Hold(itable, run[p].at, 0)
  /\ Becomes(p, Puts(p, <<run[p].at>>, "link_bad"))
  /\ UNCHANGED <<disk, system>>

\* The label bad: the link is not counted any more.
Bug_Unlinked(r) == r
Unlinked(r) == [r EXCEPT !.nlink = @ - 1]
link_bad(p) ==
  LET i == run[p].ip
      r == Unlinked(Loaded(i))
  IN  /\ ilock(p, "link_bad")
      /\ itable' = Copy(itable, i, r)
      /\ disk' = iupdate(disk, i, r)
      /\ Becomes(p, Puts(p, <<i>>, "end"))
      /\ UNCHANGED system

\* With the directory locked, the inode of the name is looked up.
sys_unlink(p) ==
  LET d == run[p].at
      n == dirlookup(d, run[p].path[1])
      t == Copy(itable, d, Loaded(d))
  IN  /\ ilock(p, "unlink")
      /\ IF n = 0
           THEN itable' = t /\ Becomes(p, Puts(p, <<d>>, "end"))
           ELSE /\ itable' = Hold(iget(t, n), d, p)
                /\ Becomes(p, [run[p] EXCEPT !.ip = n, !.pc = "unlink_ip"])
      /\ UNCHANGED <<disk, system>>

\* Both are locked.  A directory must be empty.
unlink_ip(p) ==
  LET i == run[p].ip
      d == run[p].at
      r == Loaded(i)
      less == [r EXCEPT !.nlink = @ - 1]
      rd == [itable[d].ino EXCEPT !.nlink = IF r.type = "dir" THEN @ - 1 ELSE @]
  IN  /\ ilock(p, "unlink_ip") /\ r.nlink > 0
      /\ IF r.type = "dir" /\ ~isdirempty(i)
           THEN /\ itable' = Hold(Copy(itable, i, r), d, 0)
                /\ Becomes(p, Puts(p, <<i, d>>, "end"))
                /\ UNCHANGED disk
           ELSE /\ itable' = Hold(Copy(Copy(itable, i, less), d, rd), d, 0)
                /\ disk' = dirlink(iupdate(iupdate(disk, i, less), d, rd),
                                   d, run[p].path[1], 0)
                /\ Becomes(p, Puts(p, <<d, i>>, "end"))
      /\ UNCHANGED system

-----------------------------------------------------------------------------

\* A path is absolute or starts at p->cwd.
Starts(p) == {Root, run[p].cwd}

Kernel(p) ==
  \/ end_op(p) \/ namex(p)
  \/ iput(p) \/ iput_free(p) \/ iput_trunc(p) \/ iput_valid(p) \/ iput_drop(p)
  \/ (\E t \in BOOLEAN : sys_open(p, t)) \/ sys_chdir(p) \/ writei(p)
  \/ create(p) \/ (\E t \in BOOLEAN : create_found(p, t))
  \/ (\E ok \in BOOLEAN : create_new(p, ok))
  \/ (\E s \in Starts(p) : sys_link(p, s)) \/ (\E ok \in BOOLEAN : link_entry(p, ok))
  \/ link_exists(p) \/ link_bad(p) \/ sys_unlink(p) \/ unlink_ip(p)

User(p) ==
  \/ \E c \in Calls, s \in Starts(p) : begin(p, c, s)
  \/ sys_close(p) \/ sys_write(p)

Next ==
  \/ ireclaim \/ userinit \/ crash
  \/ boot = 0 /\ \E p \in Procs : User(p) \/ Kernel(p)

Spec == Init /\ [][Next]_vars

-----------------------------------------------------------------------------
(* Properties *)

\* The reference count of an inode is the number of its users: working
\* directories, open files, and the calls under way, on every path through them
\* including the failures.
RefIsUsers ==
  \A i \in Inums : itable[i].ref =
    LET held(r) == <<r.cwd, r.file, r.at, r.ip>> \o r.puts
        uses(p) == Cardinality({k \in DOMAIN held(run[p]) : held(run[p])[k] = i})
    IN  MapThenSumSet(uses, Procs)

\* What the directories of disk d give inode i as link count: one for each name
\* (the root has one without), and one for the ".." of each subdirectory.
Links(d, i) ==
  (IF i = Root THEN 1 ELSE 0)
    + Cardinality({x \in Inums \X Names : d.ents[x[1]][x[2]] = i})
    + Cardinality({n \in Names : d.ents[i][n] # 0 /\ d.dinode[d.ents[i][n]].type = "dir"})

\* The link count of an inode is its number of links, plus one for each link()
\* under way, so that no entry ever names an inode that may be freed.  The
\* exception are files whose directory was removed while a call was about to put
\* them there.  It also holds of the disk that a crash leaves.
NlinkIsLinks ==
  /\ \A i \in Inums \ disk.lost : disk.dinode[i].nlink =
       Links(disk, i) + Cardinality({p \in Procs : run[p].ip = i /\ run[p].op = "link2"})
  /\ \A i \in Inums \ durable.lost : durable.dinode[i].nlink = Links(durable, i)

\* A valid copy that nobody has locked is what is on the disk: every change is
\* written back, and a freed inode does not live on in its copy when ialloc()
\* takes the inode again before iput() has dropped it.
CopyIsDisk ==
  \A i \in Inums : itable[i].valid /\ itable[i].lock = 0 => itable[i].ino = disk.dinode[i]

\* An inode without links is in use, or about to be freed; what a crash leaves of
\* those is gone once the system is up again.  The exception are inodes that were
\* allocated, and dropped without a link, while iput() was freeing them: it does
\* not look at the counts a second time, although its comment says that an inode
\* without links is freed with its last reference.
NoOrphans ==
  boot = 0 => \A i \in Inums \ leaked :
    disk.dinode[i].type # "free" /\ disk.dinode[i].nlink = 0 => itable[i].ref > 0

\* A data block of a file is marked in use exactly when an inode has it, and only
\* one, now and after a crash.  The blocks of directories are not modelled.
BlocksAreOwned ==
  \A d \in {disk, durable} :
    /\ d.bitmap = UNION {d.dinode[i].addrs : i \in Inums}
    /\ \A i, j \in Inums : i # j => d.dinode[i].addrs \cap d.dinode[j].addrs = {}

\* Nothing that is allocated on the disk is lost: every inode is linked or in use,
\* and every block belongs to an inode (iput, ireclaim, itrunc, bmap).
AllocatedIsOwned == NoOrphans /\ BlocksAreOwned

\* The panics "ilock: no type" and "unlink: nlink < 1" do not happen, iput() never
\* waits for a lock while it holds itable.lock, and when calls are under way one
\* of them can go on: directories are locked before what is in them.
NeverStuck ==
  /\ \A p \in Procs :
       LET r == run[p]
           i == Wants(p)
       IN  /\ i # 0 /\ itable[i].lock = 0 => Loaded(i).type # "free"
           /\ r.pc = "unlink_ip" /\ itable[i].lock = 0 => Loaded(i).nlink > 0
           /\ r.pc = "put" /\ LastPut(r.puts[1]) => itable[r.puts[1]].lock = 0
  /\ (\E p \in Procs : run[p].pc # "user") =>
       \E p \in Procs : run[p].pc # "user" /\ (Wants(p) # 0 => itable[Wants(p)].lock = 0)

=============================================================================
