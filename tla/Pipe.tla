-------------------------------- MODULE Pipe --------------------------------
(***************************************************************************)
(* Pipes (kernel/pipe.c) and the open file table they are reached through  *)
(* (kernel/file.c and the descriptor calls of kernel/sysfile.c), with      *)
(* fork, exit and kill as far as they matter to them.                      *)
(*                                                                         *)
(* A critical section of ftable.lock is one step.  pi->lock is a variable: *)
(* pipewrite() and piperead() look at the kill flag while they hold it,    *)
(* and kill() does not take it.  The kernel has one page for a pipe here,  *)
(* so that a page that is freed is the next one used.                      *)
(***************************************************************************)
EXTENDS Integers, Sequences, FiniteSets

CONSTANTS Procs,    \* process slots
          First,    \* the process that exists at first
          NFILE,    \* entries of ftable
          NOFILE,   \* descriptors of a process
          PIPESIZE, \* bytes of a pipe
          WRAP,     \* the indices of a pipe are taken modulo this (2^32)
          Bytes,    \* values of a byte
          MaxN,     \* bound: the longest read and write
          None      \* a null pointer, no result

ASSUME PipeAssumption ==
  /\ IsFiniteSet(Procs) /\ First \in Procs
  /\ NFILE \in Nat /\ NOFILE \in Nat
  /\ PIPESIZE \in Nat \ {0} /\ WRAP \in Nat
  /\ WRAP > PIPESIZE /\ WRAP % PIPESIZE = 0
  /\ None \notin Procs \cup {"r", "w"} /\ None \notin Nat

Files == 1..NFILE
FDs == 0..NOFILE - 1

VARIABLES ref,       \* f->ref
          end,       \* FD_PIPE: "r" or "w", the end f stands for; FD_NONE: None
          ofile,     \* p->ofile[]
          page,      \* the page of the pipe is allocated
          nread, nwrite, data,
          open,      \* readopen and writeopen: a subset of {"r", "w"}
          lock,      \* pi->lock: its holder or None
          pc,        \* where each process stands
          todo,      \* files it has still to close, or has just allocated
          ending,    \* the end whose last file it has closed
          left,      \* bytes it has still to write
          killed,    \* processes with the kill flag
          leaving,   \* processes in exit
          result,    \* what the step before, a read, delivered, or None
          silent     \* a writer was killed and left bytes without a wakeup

files == <<ref, end, ofile>>
pipe == <<page, nread, nwrite, data, open, lock, silent>>
proc == <<pc, todo, ending, left, killed, leaving>>
vars == <<files, pipe, proc, result>>

Init ==
  /\ ref = [f \in Files |-> 0]
  /\ end = [f \in Files |-> None]
  /\ ofile = [p \in Procs |-> [d \in FDs |-> None]]
  /\ page = FALSE
  /\ nread = 0 /\ nwrite = 0
  /\ data = [k \in 0..PIPESIZE - 1 |-> None]
  /\ open = {} /\ lock = None /\ silent = FALSE
  /\ pc = [p \in Procs |-> IF p = First THEN "user" ELSE "unused"]
  /\ todo = [p \in Procs |-> <<>>]
  /\ ending = [p \in Procs |-> None]
  /\ left = [p \in Procs |-> 0]
  /\ result = None
  /\ killed = {} /\ leaving = {}

-----------------------------------------------------------------------------

Goto(p, l) == pc' = [pc EXCEPT ![p] = l]

\* p makes a system call.
Calls(p) == pc[p] = "user" /\ p \notin killed

NoRef == {f \in Files : ref[f] = 0}
FreeFds(p) == {d \in FDs : ofile[p][d] = None}
OpenFds(p) == FDs \ FreeFds(p)

\* What a loop from the first entry on finds.
IsFirst(x, S) == x \in S /\ \A y \in S : x <= y

filealloc(f) == IsFirst(f, NoRef) /\ ref' = [ref EXCEPT ![f] = 1]

\* wakeup(&pi->nread) and wakeup(&pi->nwrite).
WakeReaders(s) == [p \in Procs |-> IF s[p] = "rsleep" THEN "read" ELSE s[p]]
WakeWriters(s) == [p \in Procs |-> IF s[p] = "wsleep" THEN "write" ELSE s[p]]

-----------------------------------------------------------------------------
(* sys_pipe and pipealloc *)

\* The first filealloc(); the call fails when there is none.
sys_pipe(p) ==
  /\ Calls(p)
  /\ \E f \in Files : filealloc(f) /\ todo' = [todo EXCEPT ![p] = <<f>>]
  /\ Goto(p, "pipe")
  /\ UNCHANGED <<end, ofile, pipe, ending, left, killed, leaving>>

\* No second file, or no page: what there is of them is closed again.
pipealloc_bad(p) ==
  /\ pc[p] = "pipe"
  /\ \/ NoRef = {} /\ UNCHANGED <<ref, todo>>
     \/ \E f \in Files : filealloc(f) /\ todo' = [todo EXCEPT ![p] = <<@[1], f>>]
  /\ Goto(p, "close")
  /\ UNCHANGED <<end, ofile, pipe, ending, left, killed, leaving>>

\* fdalloc(rf) and fdalloc(wf).
fdalloc(p, rf, wf) ==
  \E fd0, fd1 \in FDs :
    /\ IsFirst(fd0, FreeFds(p)) /\ IsFirst(fd1, FreeFds(p) \ {fd0})
    /\ ofile' = [ofile EXCEPT ![p][fd0] = rf, ![p][fd1] = wf]

\* Both files and the page.  When the descriptors run out, or their numbers
\* cannot be copied to the process, both files are closed again.
pipealloc(p) ==
  /\ pc[p] = "pipe" /\ ~page
  /\ \E wf \in Files :
       LET rf == todo[p][1]
       IN  /\ filealloc(wf)
           /\ end' = [end EXCEPT ![rf] = "r", ![wf] = "w"]
           /\ \/ /\ fdalloc(p, rf, wf)
                 /\ todo' = [todo EXCEPT ![p] = <<>>]
                 /\ Goto(p, "user")
              \/ /\ todo' = [todo EXCEPT ![p] = <<rf, wf>>]
                 /\ Goto(p, "close")
                 /\ UNCHANGED ofile
  /\ page' = TRUE
  /\ open' = {"r", "w"}
  /\ nread' = 0 /\ nwrite' = 0
  /\ UNCHANGED <<data, lock, silent, ending, left, killed, leaving>>

-----------------------------------------------------------------------------
(* dup, close, fork, exit *)

\* fdalloc() and filedup().
sys_dup(p, d) ==
  /\ Calls(p) /\ ofile[p][d] # None
  /\ \E n \in FDs : /\ IsFirst(n, FreeFds(p))
                    /\ ofile' = [ofile EXCEPT ![p][n] = ofile[p][d]]
  /\ ref' = [ref EXCEPT ![ofile[p][d]] = @ + 1]
  /\ UNCHANGED <<end, pipe, proc>>

\* p gives up a descriptor and closes its file.
close_fd(p, d) ==
  /\ ofile' = [ofile EXCEPT ![p][d] = None]
  /\ todo' = [todo EXCEPT ![p] = <<ofile[p][d]>>]
  /\ Goto(p, "close")
  /\ UNCHANGED <<ref, end, pipe, ending, left, killed, leaving>>

sys_close(p, d) == Calls(p) /\ ofile[p][d] # None /\ close_fd(p, d)

\* kfork() duplicates every open file.
Uses(p, f) == Cardinality({d \in FDs : ofile[p][d] = f})
Bug_filedup_all(p) == [f \in Files |-> IF Uses(p, f) > 0 THEN ref[f] + 1 ELSE ref[f]]
filedup_all(p) == [f \in Files |-> ref[f] + Uses(p, f)]
kfork(p, q) ==
  /\ Calls(p) /\ pc[q] = "unused"
  /\ ofile' = [ofile EXCEPT ![q] = ofile[p]]
  /\ ref' = filedup_all(p)
  /\ Goto(q, "user")
  /\ UNCHANGED <<end, pipe, todo, ending, left, killed, leaving>>

\* kexit() closes every descriptor, one after the other.
kexit(p) ==
  /\ pc[p] = "user"
  /\ leaving' = leaving \cup {p}
  /\ Goto(p, "close")
  /\ UNCHANGED <<files, pipe, todo, ending, left, killed>>

kexit_close(p, d) ==
  /\ pc[p] = "close" /\ todo[p] = <<>> /\ p \in leaving
  /\ IsFirst(d, OpenFds(p))
  /\ close_fd(p, d)

LastRef(f) == ref[f] = 1

\* fileclose() up to release(&ftable.lock).
fileclose(p) ==
  /\ pc[p] = "close" /\ todo[p] # <<>>
  /\ LET f == Head(todo[p])
     IN  /\ ref' = [ref EXCEPT ![f] = @ - 1]
         /\ IF LastRef(f) /\ end[f] # None
              THEN /\ end' = [end EXCEPT ![f] = None]
                   /\ ending' = [ending EXCEPT ![p] = end[f]]
                   /\ Goto(p, "pipeclose")
              ELSE UNCHANGED <<end, ending, pc>>
  /\ todo' = [todo EXCEPT ![p] = Tail(@)]
  /\ UNCHANGED <<ofile, pipe, left, killed, leaving>>

\* All files closed: back to the program, or the slot is free (wait() has
\* taken the zombie).
closed(p) ==
  /\ pc[p] = "close" /\ todo[p] = <<>>
  /\ p \in leaving => OpenFds(p) = {}
  /\ Goto(p, IF p \in leaving THEN "unused" ELSE "user")
  /\ leaving' = leaving \ {p}
  /\ killed' = IF p \in leaving THEN killed \ {p} ELSE killed
  /\ UNCHANGED <<files, pipe, todo, ending, left>>

\* kfree() fills the page with junk.
Junk == nread' = 0 /\ nwrite' = 0 /\ data' = [k \in 0..PIPESIZE - 1 |-> None]

Bug_WakeOther(e, s) == IF e = "w" THEN WakeWriters(s) ELSE WakeReaders(s)
WakeOther(e, s) == IF e = "w" THEN WakeReaders(s) ELSE WakeWriters(s)

\* pipeclose(): the other side is woken, and the page goes with the last end.
pipeclose(p) ==
  /\ pc[p] = "pipeclose" /\ lock = None
  /\ open' = open \ {ending[p]}
  /\ page' = (open' # {})
  /\ silent' = IF ending[p] = "w" THEN FALSE ELSE silent
  /\ ending' = [ending EXCEPT ![p] = None]
  /\ pc' = [WakeOther(ending[p], pc) EXCEPT ![p] = "close"]
  /\ IF page' THEN UNCHANGED <<nread, nwrite, data>> ELSE Junk
  /\ UNCHANGED <<files, lock, todo, left, killed, leaving>>

\* kill() sets the flag and ends a sleep.
kill(p) ==
  /\ pc[p] # "unused" /\ p \notin killed
  /\ killed' = killed \cup {p}
  /\ Goto(p, CASE pc[p] = "rsleep" -> "read" [] pc[p] = "wsleep" -> "write"
               [] OTHER -> pc[p])
  /\ UNCHANGED <<files, pipe, todo, ending, left, leaving>>

-----------------------------------------------------------------------------
(* pipewrite: one step per turn of its loop, under pi->lock *)

Holds(p, e) == \E d \in FDs : ofile[p][d] # None /\ end[ofile[p][d]] = e

Count == (nwrite - nread) % WRAP
Full == nwrite = (nread + PIPESIZE) % WRAP

sys_write(p, n) ==
  /\ Calls(p) /\ Holds(p, "w")
  /\ left' = [left EXCEPT ![p] = n]
  /\ Goto(p, "write")
  /\ UNCHANGED <<files, pipe, todo, ending, killed, leaving>>

\* acquire(&pi->lock), at first and at the end of each sleep.
pipewrite_lock(p) ==
  /\ pc[p] = "write" /\ lock = None
  /\ lock' = p
  /\ Goto(p, "writing")
  /\ UNCHANGED <<files, page, nread, nwrite, data, open, silent, todo, ending, left, killed, leaving>>

\* Back to the program with pi->lock released.
write_return(p, s) ==
  /\ lock' = None
  /\ left' = [left EXCEPT ![p] = 0]
  /\ pc' = [s EXCEPT ![p] = "user"]

\* The reader is gone or p is killed: -1, and nobody is woken.
pipewrite_fails(p) ==
  /\ pc[p] = "writing" /\ left[p] > 0
  /\ "r" \notin open \/ p \in killed
  /\ write_return(p, pc)
  /\ silent' = (silent \/ ("r" \in open /\ Count > 0))
  /\ UNCHANGED <<files, page, nread, nwrite, data, open, todo, ending,
                 killed, leaving>>

\* A turn that has found the pipe usable and p alive: no room.
pipewrite_sees_full(p) ==
  /\ pc[p] = "writing" /\ left[p] > 0
  /\ "r" \in open /\ p \notin killed /\ Full
  /\ Goto(p, "full")
  /\ UNCHANGED <<files, pipe, todo, ending, left, killed, leaving>>

\* wakeup(&pi->nread); sleep(&pi->nwrite, &pi->lock).  A kill since the test of
\* the flag does not keep p from sleeping.
pipewrite_sleep(p) ==
  /\ pc[p] = "full"
  /\ pc' = [WakeReaders(pc) EXCEPT ![p] = "wsleep"]
  /\ lock' = None /\ silent' = FALSE
  /\ UNCHANGED <<files, page, nread, nwrite, data, open, todo, ending, left,
                 killed, leaving>>

pipewrite_byte(p, b) ==
  /\ pc[p] = "writing" /\ left[p] > 0
  /\ "r" \in open /\ p \notin killed /\ ~Full
  /\ data' = [data EXCEPT ![nwrite % PIPESIZE] = b]
  /\ nwrite' = (nwrite + 1) % WRAP
  /\ left' = [left EXCEPT ![p] = @ - 1]
  /\ UNCHANGED <<files, page, nread, open, lock, silent, pc, todo, ending,
                 killed, leaving>>

\* All bytes are written, or copyin() has failed.
pipewrite_done(p) ==
  /\ pc[p] = "writing"
  /\ left[p] > 0 => "r" \in open /\ p \notin killed /\ ~Full
  /\ write_return(p, WakeReaders(pc))
  /\ silent' = FALSE
  /\ UNCHANGED <<files, page, nread, nwrite, data, open, todo, ending,
                 killed, leaving>>

-----------------------------------------------------------------------------
(* piperead *)

sys_read(p) ==
  /\ Calls(p) /\ Holds(p, "r")
  /\ Goto(p, "read")
  /\ UNCHANGED <<files, pipe, todo, ending, left, killed, leaving>>

\* Nothing to read yet and p is alive; pi->lock stays held up to the sleep.
piperead_empty(p) ==
  /\ pc[p] = "read" /\ lock = None
  /\ nread = nwrite /\ "w" \in open /\ p \notin killed
  /\ lock' = p
  /\ Goto(p, "empty")
  /\ UNCHANGED <<files, page, nread, nwrite, data, open, silent, todo, ending, left, killed, leaving>>

piperead_sleep(p) ==
  /\ pc[p] = "empty"
  /\ lock' = None
  /\ Goto(p, "rsleep")
  /\ UNCHANGED <<files, page, nread, nwrite, data, open, silent, todo, ending, left, killed, leaving>>

piperead_killed(p) ==
  /\ pc[p] = "read" /\ lock = None
  /\ nread = nwrite /\ "w" \in open /\ p \in killed
  /\ Goto(p, "user")
  /\ UNCHANGED <<files, pipe, todo, ending, left, killed, leaving>>

\* A byte that has been read is of no use to anybody; the model forgets it.
Drop(n) == [k \in DOMAIN data |->
              IF \E i \in 0..n - 1 : k = (nread + i) % PIPESIZE THEN None ELSE data[k]]

Bug_ByteAt(k) == data[(nread + k) % PIPESIZE]
ByteAt(k) == data[(nread + k - 1) % PIPESIZE]

\* The copying loop and wakeup(&pi->nwrite): n bytes or what there is, fewer
\* when copyout() fails, which is an error when it fails at once.
piperead(p, n) ==
  /\ pc[p] = "read" /\ lock = None
  /\ n <= Count /\ (nread # nwrite \/ "w" \notin open)
  /\ result' = IF n = 0 /\ Count > 0 THEN None
               ELSE [k \in 1..n |-> ByteAt(k)]
  /\ data' = Drop(n)
  /\ nread' = (nread + n) % WRAP
  /\ silent' = (silent /\ n < Count)
  /\ pc' = [WakeWriters(pc) EXCEPT ![p] = "user"]
  /\ UNCHANGED <<files, page, nwrite, open, lock, todo, ending, left, killed, leaving>>

-----------------------------------------------------------------------------

\* Every step but a read.
Steps(p) ==
  \/ sys_pipe(p) \/ pipealloc_bad(p) \/ pipealloc(p)
  \/ (\E d \in FDs : sys_dup(p, d) \/ sys_close(p, d) \/ kexit_close(p, d))
  \/ (\E q \in Procs : kfork(p, q))
  \/ kexit(p) \/ fileclose(p) \/ closed(p) \/ pipeclose(p) \/ kill(p)
  \/ (\E n \in 1..MaxN : sys_write(p, n))
  \/ pipewrite_lock(p) \/ pipewrite_fails(p) \/ pipewrite_sees_full(p)
  \/ pipewrite_sleep(p) \/ (\E b \in Bytes : pipewrite_byte(p, b)) \/ pipewrite_done(p)
  \/ sys_read(p) \/ piperead_empty(p) \/ piperead_sleep(p) \/ piperead_killed(p)

Next ==
  \E p \in Procs :
    \/ Steps(p) /\ result' = None
    \/ \E n \in 0..PIPESIZE : piperead(p, n)

Spec == Init /\ [][Next]_vars

-----------------------------------------------------------------------------
(* Properties *)

\* Processes in a call on the pipe, and the end their file stands for.
Reading == {p \in Procs : pc[p] \in {"read", "empty", "rsleep"}}
Writing == {p \in Procs : pc[p] \in {"write", "writing", "full", "wsleep"}}

\* The reference count of a file is the number of descriptors, and of calls under
\* way, that use it.
FdsOf(f) == {u \in Procs \X FDs : ofile[u[1]][u[2]] = f}
CallsOn(f) == {p \in Procs : \E k \in DOMAIN todo[p] : todo[p][k] = f}
RefIsUses == \A f \in Files : ref[f] = Cardinality(FdsOf(f)) + Cardinality(CallsOn(f))

\* An end of the pipe is open exactly as long as a file stands for it, or the
\* process that closed its last file is on the way to pipeclose; the page is freed
\* with the second end, once, and never under a process that reads or writes.
\* filedup, fileclose, fork, exit and the failures of sys_pipe keep the counts right
\* that this rests on.
EndsAreHeld ==
  /\ RefIsUses
  /\ page = (open # {})
  /\ \A e \in {"r", "w"} : e \in open <=>
       \/ \E f \in Files : ref[f] > 0 /\ end[f] = e
       \/ \E p \in Procs : ending[p] = e
  /\ Reading # {} => "r" \in open
  /\ Writing # {} => "w" \in open

\* Nobody sleeps through the event it waits for: a sleeping writer has a full pipe
\* and a reader, a sleeping reader an empty pipe and a writer, unless a writer is
\* still at it.  One exception is in the code: a writer that is killed after some
\* bytes returns without the wakeup.
NoMissedPipeWakeup ==
  \A p \in Procs :
    /\ pc[p] = "wsleep" => Full /\ "r" \in open
    /\ pc[p] = "rsleep" =>
         \/ nread = nwrite /\ "w" \in open
         \/ \E q \in Procs : pc[q] \in {"writing", "full"}
         \/ silent

\* What the pipe promises its users (module ByteStream): order, no loss and no
\* duplicate across the wrap of the indices, and an end of file only when all is
\* read and nobody can write.
QueueView == [k \in 1..Count |-> data[(nread + k - 1) % PIPESIZE]]
Stream == INSTANCE ByteStream WITH
  Size <- PIPESIZE, NoResult <- None, queue <- QueueView
ImplementsByteStream == Stream!SSpec
=============================================================================
