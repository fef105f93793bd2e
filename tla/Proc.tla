-------------------------------- MODULE Proc --------------------------------
(***************************************************************************)
(* The xv6 process table: creation (fork, forkn, thread_create), exit,     *)
(* wait and waitpid, kill, freeze and thaw, the scheduler, sleep and       *)
(* wakeup (kernel/proc.c, with its callers in sysproc.c and trap.c).       *)
(*                                                                         *)
(* Kernel addresses are numbers: slot s of proc[] is the number s, 0 is    *)
(* the null pointer.  A critical section of one p->lock is one step;       *)
(* wait_lock, which is held across several of them, is a variable.  A      *)
(* process that is not running has saved its place in the kernel in pc.    *)
(*                                                                         *)
(* Programs are arbitrary except init, which runs the loop of user/init.c. *)
(***************************************************************************)
EXTENDS Integers, FiniteSets

CONSTANTS NPROC,      \* number of slots of proc[]
          NCPU,       \* number of cores running scheduler()
          MaxForkn,   \* bound: largest argument of forkn
          MaxPid,     \* bound: no pid above it is handed out
          TargetPids, \* the pids passed to kill, freeze, thaw and waitpid
          Sigs        \* the requests made: 1 kill, 2 freeze, 3 thaw

ASSUME ProcAssumption ==
  /\ NPROC \in Nat \ {0}
  /\ NCPU \in Nat \ {0}
  /\ MaxForkn \in Nat \ {0}
  /\ MaxPid \in Nat
  /\ TargetPids \subseteq Nat
  /\ Sigs \subseteq 1..3

Procs == 1..NPROC
InitProc == 1

VARIABLES state, pid, parent, chan, \* fields of struct proc
          killed,    \* the slots whose killed flag is set
          frozen,    \* the slots whose frozen flag is set
          nextpid,   \* the next pid to hand out
          wait_lock, \* slot of the process holding wait_lock, 0 when free
          pc,        \* where each process stands between two steps
          np,        \* fork: the slot being filled, 0 when none
          todo,      \* forkn: children still to create
          target,    \* waitpid: the pid waited for, 0 for any child
          shpid,     \* init: pid of the shell it waits for, 0 before forking it
          panicked   \* the kernel has called panic()

table == <<state, pid, parent, chan, killed, frozen>>
locals == <<np, todo, target, shpid>>
vars == <<table, nextpid, wait_lock, pc, locals, panicked>>

-----------------------------------------------------------------------------
(* The table *)

Running(p) == ~panicked /\ state[p] = "RUNNING"

Goto(p, l) == pc' = [pc EXCEPT ![p] = l]

\* wakeup(): every sleeper on one of the channels cs becomes runnable.
wakeup(cs) ==
  [q \in Procs |-> IF state[q] = "SLEEPING" /\ chan[q] \in cs
                     THEN "RUNNABLE" ELSE state[q]]

\* freeproc(): slot s is given back with every field cleared.
freeproc(s) ==
  /\ state' = [state EXCEPT ![s] = "UNUSED"]
  /\ pid' = [pid EXCEPT ![s] = 0]
  /\ parent' = [parent EXCEPT ![s] = 0]
  /\ chan' = [chan EXCEPT ![s] = 0]
  /\ killed' = killed \ {s}
  /\ frozen' = frozen \ {s}

\* userinit(): slot 1 holds init, everything else is unused.
Init ==
  /\ state = [s \in Procs |-> IF s = InitProc THEN "RUNNABLE" ELSE "UNUSED"]
  /\ pid = [s \in Procs |-> IF s = InitProc THEN 1 ELSE 0]
  /\ parent = [s \in Procs |-> 0]
  /\ chan = [s \in Procs |-> 0]
  /\ killed = {}
  /\ frozen = {}
  /\ nextpid = 2
  /\ wait_lock = 0
  /\ pc = [s \in Procs |-> "user"]
  /\ np = [s \in Procs |-> 0]
  /\ todo = [s \in Procs |-> 0]
  /\ target = [s \in Procs |-> 0]
  /\ shpid = 0
  /\ panicked = FALSE

-----------------------------------------------------------------------------
(* The processor *)

\* scheduler(): a core picks a runnable process that is not frozen.  The
\* process resumes in sched(); if it had slept, sleep() clears its channel
\* before p->lock is released.
scheduler(p) ==
  /\ ~panicked
  /\ state[p] = "RUNNABLE" /\ p \notin frozen
  /\ Cardinality({q \in Procs : state[q] = "RUNNING"}) < NCPU
  /\ state' = [state EXCEPT ![p] = "RUNNING"]
  /\ chan' = [chan EXCEPT ![p] = 0]
  /\ UNCHANGED <<pid, parent, killed, frozen, nextpid, wait_lock, pc, locals,
                 panicked>>

\* yield() on a timer interrupt.  Interrupts are off while a spinlock is held.
yield(p) ==
  /\ Running(p) /\ wait_lock # p
  /\ state' = [state EXCEPT ![p] = "RUNNABLE"]
  /\ UNCHANGED <<pid, parent, chan, killed, frozen, nextpid, wait_lock, pc,
                 locals, panicked>>

\* usertrap(): a process that enters the kernel, or is about to leave it,
\* exits if it has been killed and otherwise makes a system call.
usertrap(p) ==
  /\ Running(p) /\ pc[p] = "user"
  /\ Goto(p, IF p \in killed THEN "exit" ELSE "kernel")
  /\ UNCHANGED <<table, nextpid, wait_lock, locals, panicked>>

\* usertrap(): a fault no handler resolves kills the process on the spot.
fault(p) ==
  /\ Running(p) /\ pc[p] = "user" /\ p # InitProc
  /\ killed' = killed \cup {p}
  /\ Goto(p, "exit")
  /\ UNCHANGED <<state, pid, parent, chan, frozen, nextpid, wait_lock, locals,
                 panicked>>

\* A system call that fails its argument check or only reads the table
\* (getpid, getppid, getprocstate, forkn(0), waitpid(0), a bad thread entry).
sysreturn(p) ==
  /\ Running(p) /\ pc[p] = "kernel" /\ p # InitProc
  /\ Goto(p, "user")
  /\ UNCHANGED <<table, nextpid, wait_lock, locals, panicked>>

-----------------------------------------------------------------------------
(* fork, forkn and thread_create *)

\* sys_fork (n = 1), sys_thread_create (n = 1) and sys_forkn start the loop of
\* kforkn().  init forks a shell whenever it has none.
sys_forkn(p, n) ==
  /\ Running(p) /\ pc[p] = "kernel"
  /\ p = InitProc => n = 1 /\ shpid = 0
  /\ todo' = [todo EXCEPT ![p] = n]
  /\ Goto(p, "fork")
  /\ UNCHANGED <<table, nextpid, wait_lock, np, target, shpid, panicked>>

\* allocproc() finds an unused slot and fills it; p->killed is left as it is.
\* The scan takes the first slot it sees unused, and slots it has passed may
\* be freed meanwhile, so any unused slot can be the one.
allocproc(p, s) ==
  /\ Running(p) /\ pc[p] = "fork" /\ nextpid <= MaxPid
  /\ state[s] = "UNUSED"
  /\ state' = [state EXCEPT ![s] = "USED"]
  /\ pid' = [pid EXCEPT ![s] = nextpid]
  /\ frozen' = frozen \ {s}
  /\ nextpid' = nextpid + 1
  /\ np' = [np EXCEPT ![p] = s]
  /\ Goto(p, "fork_link")
  /\ UNCHANGED <<parent, chan, killed, wait_lock, todo, target, shpid, panicked>>

\* fork returns -1: forkn stops and reports what it created; init exits.
ForkFails(p) ==
  /\ todo' = [todo EXCEPT ![p] = 0]
  /\ Goto(p, IF p = InitProc THEN "exit" ELSE "user")
  /\ UNCHANGED <<wait_lock, np, target, shpid, panicked>>

\* allocproc() saw no unused slot.
allocproc_full(p) ==
  /\ Running(p) /\ pc[p] = "fork"
  /\ ForkFails(p)
  /\ UNCHANGED <<table, nextpid>>

\* No memory for the trapframe, the page table or the copy of the parent's
\* memory: the slot is freed again and its pid is lost.
allocproc_nomem(p, s) ==
  /\ Running(p) /\ pc[p] = "fork" /\ nextpid <= MaxPid
  /\ state[s] = "UNUSED"
  /\ nextpid' = nextpid + 1
  /\ freeproc(s)
  /\ ForkFails(p)

\* kfork(): the child gets its parent under wait_lock ...
kfork_link(p) ==
  /\ Running(p) /\ pc[p] = "fork_link" /\ wait_lock = 0
  /\ parent' = [parent EXCEPT ![np[p]] = p]
  /\ Goto(p, "fork_run")
  /\ UNCHANGED <<state, pid, chan, killed, frozen, nextpid, wait_lock, locals,
                 panicked>>

\* ... and becomes runnable under its own lock; it will start in user mode.
kfork_run(p) ==
  /\ Running(p) /\ pc[p] = "fork_run"
  /\ state' = [state EXCEPT ![np[p]] = "RUNNABLE"]
  /\ np' = [np EXCEPT ![p] = 0]
  /\ todo' = [todo EXCEPT ![p] = todo[p] - 1]
  /\ pc' = [pc EXCEPT ![p] = IF todo[p] > 1 THEN "fork" ELSE "user",
                      ![np[p]] = "user"]
  /\ shpid' = IF p = InitProc THEN pid[np[p]] ELSE shpid
  /\ UNCHANGED <<pid, parent, chan, killed, frozen, nextpid, wait_lock, target,
                 panicked>>

-----------------------------------------------------------------------------
(* wait and waitpid *)

\* sys_wait (t = 0) and sys_waitpid.  init waits while it has a shell.
sys_wait(p, t) ==
  /\ Running(p) /\ pc[p] = "kernel"
  /\ p = InitProc => t = 0 /\ shpid # 0
  /\ target' = [target EXCEPT ![p] = t]
  /\ Goto(p, "wait")
  /\ UNCHANGED <<table, nextpid, wait_lock, np, todo, shpid, panicked>>

\* The children kwait() and kwaitpid() look at.
Children(p) == {c \in Procs : parent[c] = p /\ target[p] \in {0, pid[c]}}
Zombies(p) == {c \in Children(p) : state[c] = "ZOMBIE"}

WaitReturns(p, l) ==
  /\ target' = [target EXCEPT ![p] = 0]
  /\ Goto(p, l)
  /\ UNCHANGED <<nextpid, wait_lock, np, todo, panicked>>

\* The first zombie of the scan is freed and its pid returned.
kwait_reap(p) ==
  /\ Running(p) /\ pc[p] = "wait" /\ wait_lock = 0
  /\ \E c \in Zombies(p) :
       /\ \A d \in Zombies(p) : c <= d
       /\ freeproc(c)
       /\ shpid' = IF p = InitProc /\ pid[c] = shpid THEN 0 ELSE shpid
  /\ WaitReturns(p, "user")

\* The exit status cannot be copied out: -1, and the zombie stays.
\* init passes a null address, which is never copied to.
kwait_copyout_fails(p) ==
  /\ Running(p) /\ pc[p] = "wait" /\ wait_lock = 0 /\ p # InitProc
  /\ Zombies(p) # {}
  /\ WaitReturns(p, "user")
  /\ UNCHANGED <<table, shpid>>

\* Nothing to wait for, or killed: -1, on which init exits.
kwait_fails(p) ==
  /\ Running(p) /\ pc[p] = "wait" /\ wait_lock = 0
  /\ Zombies(p) = {}
  /\ Children(p) = {} \/ p \in killed
  /\ WaitReturns(p, IF p = InitProc THEN "exit" ELSE "user")
  /\ UNCHANGED <<table, shpid>>

\* Children but no zombie, and not killed: on to sleep(), wait_lock still held.
kwait_scan(p) ==
  /\ Running(p) /\ pc[p] = "wait" /\ wait_lock = 0
  /\ Zombies(p) = {} /\ Children(p) # {} /\ p \notin killed
  /\ wait_lock' = p
  /\ Goto(p, "wait_sleep")
  /\ UNCHANGED <<table, nextpid, locals, panicked>>

\* sleep(p, &wait_lock): off the processor and off the lock in one step, back
\* at the scan when woken.
kwait_sleep(p) ==
  /\ Running(p) /\ pc[p] = "wait_sleep"
  /\ wait_lock' = 0
  /\ chan' = [chan EXCEPT ![p] = p]
  /\ state' = [state EXCEPT ![p] = "SLEEPING"]
  /\ Goto(p, "wait")
  /\ UNCHANGED <<pid, parent, killed, frozen, nextpid, locals, panicked>>

-----------------------------------------------------------------------------
(* exit *)

sys_exit(p) ==
  /\ Running(p) /\ pc[p] = "kernel" /\ p # InitProc
  /\ Goto(p, "exit")
  /\ UNCHANGED <<table, nextpid, wait_lock, locals, panicked>>

\* reparent(): the children of p go to init.
Bug_reparent(p) == parent
reparent(p) == [c \in Procs |-> IF parent[c] = p THEN InitProc ELSE parent[c]]

\* kexit(), from wait_lock on: init is woken if it inherits a child, the
\* parent is woken, and the process becomes a zombie before the lock is freed.
Bug_kexit_parent(p) ==
  /\ Running(p) /\ pc[p] = "exit" /\ wait_lock = 0 /\ p # InitProc
  /\ parent' = reparent(p)
  /\ state' = [wakeup({i \in {InitProc} : \E c \in Procs : parent[c] = p})
                 EXCEPT ![p] = "ZOMBIE"]
  /\ UNCHANGED <<pid, chan, killed, frozen, nextpid, wait_lock, pc, locals,
                 panicked>>
kexit(p) ==
  /\ Running(p) /\ pc[p] = "exit" /\ wait_lock = 0 /\ p # InitProc
  /\ parent' = reparent(p)
  /\ state' = [wakeup({parent[p]}
                        \cup {i \in {InitProc} : \E c \in Procs : parent[c] = p})
                 EXCEPT ![p] = "ZOMBIE"]
  /\ UNCHANGED <<pid, chan, killed, frozen, nextpid, wait_lock, pc, locals,
                 panicked>>

\* panic("init exiting").
kexit_panic ==
  /\ Running(InitProc) /\ pc[InitProc] = "exit"
  /\ panicked' = TRUE
  /\ UNCHANGED <<table, nextpid, wait_lock, pc, locals>>

-----------------------------------------------------------------------------
(* kill, freeze and thaw, also reached through signal_send *)

\* The request has found its slot, or no slot has the pid.
SignalReturns(p) ==
  /\ Running(p) /\ pc[p] = "kernel" /\ p # InitProc
  /\ Goto(p, "user")
  /\ UNCHANGED <<pid, parent, chan, nextpid, wait_lock, locals, panicked>>

\* kkill() compares pids only; an unused slot has pid 0.
Bug_kkill(p, t) ==
  /\ 1 \in Sigs
  /\ SignalReturns(p)
  /\ \E s \in Procs :
       /\ pid[s] = t
       /\ killed' = killed \cup {s}
       /\ state' = IF state[s] = "SLEEPING"
                     THEN [state EXCEPT ![s] = "RUNNABLE"] ELSE state
  /\ UNCHANGED frozen
kkill(p, t) ==
  /\ 1 \in Sigs
  /\ SignalReturns(p)
  /\ \E s \in Procs :
       /\ pid[s] = t
       /\ killed' = killed \cup {s}
       /\ frozen' = frozen \ {s}
       /\ state' = IF state[s] = "SLEEPING"
                     THEN [state EXCEPT ![s] = "RUNNABLE"] ELSE state

kfreeze(p, t) ==
  /\ 2 \in Sigs
  /\ SignalReturns(p)
  /\ \E s \in Procs :
       /\ pid[s] = t /\ state[s] # "UNUSED"
       /\ frozen' = frozen \cup {s}
  /\ UNCHANGED <<state, killed>>

kthaw(p, t) ==
  /\ 3 \in Sigs
  /\ SignalReturns(p)
  /\ \E s \in Procs :
       /\ pid[s] = t /\ state[s] # "UNUSED"
       /\ frozen' = frozen \ {s}
  /\ UNCHANGED <<state, killed>>

-----------------------------------------------------------------------------

\* What the kernel does on its own once a process has entered it.
KernelStep(p) ==
  \/ \E s \in Procs : allocproc(p, s) \/ allocproc_nomem(p, s)
  \/ allocproc_full(p)
  \/ kfork_link(p)
  \/ kfork_run(p)
  \/ kwait_reap(p)
  \/ kwait_copyout_fails(p)
  \/ kwait_fails(p)
  \/ kwait_scan(p)
  \/ kwait_sleep(p)
  \/ kexit(p)

\* The system calls a process chooses to make.
Syscall(p) ==
  \/ sysreturn(p)
  \/ \E n \in 1..MaxForkn : sys_forkn(p, n)
  \/ \E t \in TargetPids \cup {0} : sys_wait(p, t)
  \/ \E t \in TargetPids : kkill(p, t) \/ kfreeze(p, t) \/ kthaw(p, t)
  \/ sys_exit(p)

ProcNext(p) ==
  \/ scheduler(p)
  \/ yield(p)
  \/ usertrap(p)
  \/ fault(p)
  \/ Syscall(p)
  \/ KernelStep(p)

Next == kexit_panic \/ \E p \in Procs : ProcNext(p)

Spec == Init /\ [][Next]_vars

\* What a process does without anybody's choice: it traps into the kernel on
\* the next timer interrupt at the latest, makes the call it trapped for, and
\* the kernel finishes what it has begun for it.
Progress(p) ==
  \/ usertrap(p)
  \/ Syscall(p)
  \/ KernelStep(p)
  \/ p = InitProc /\ kexit_panic

\* A core scans the table round robin, so a process that stays runnable while
\* a core is free is picked.  A process that runs again and again advances:
\* the spinlocks it needs are held for a bounded time only.
Fairness ==
  \A p \in Procs : WF_vars(scheduler(p)) /\ SF_vars(Progress(p))

-----------------------------------------------------------------------------
(* Properties *)

Labels == {"user", "kernel", "fork", "fork_link", "fork_run", "wait",
           "wait_sleep", "exit", "mlock"} \* the last one in KMutex
States == {"UNUSED", "USED", "SLEEPING", "RUNNABLE", "RUNNING", "ZOMBIE"}

\* Every variable holds a value of its kind.
TypeOK ==
  /\ state \in [Procs -> States]
  /\ pid \in [Procs -> Nat]
  /\ parent \in [Procs -> 0..NPROC]
  /\ chan \in [Procs -> Nat]
  /\ killed \subseteq Procs
  /\ frozen \subseteq Procs
  /\ nextpid \in Nat
  /\ wait_lock \in 0..NPROC
  /\ pc \in [Procs -> Labels]
  /\ np \in [Procs -> 0..NPROC]
  /\ todo \in [Procs -> 0..MaxForkn]
  /\ target \in [Procs -> Nat]
  /\ shpid \in Nat
  /\ panicked \in BOOLEAN

\* A pid names at most one process (kill, waitpid and the owner of a kernel
\* mutex rely on it); exactly the unused slots have pid 0; no pid was reused.
PidsNameProcesses ==
  /\ \A s \in Procs : pid[s] < nextpid /\ (pid[s] = 0 <=> state[s] = "UNUSED")
  /\ \A s, t \in Procs : pid[s] = pid[t] /\ pid[s] # 0 => s = t

\* A slot in state USED is being filled by exactly one process that is inside
\* fork: no slot is left half made (kfork releases np->lock twice in between).
UsedIsBeingForked ==
  /\ \A s \in Procs : state[s] = "USED" =>
       \E p \in Procs : np[p] = s
  /\ \A p \in Procs : np[p] # 0 =>
       /\ pc[p] \in {"fork_link", "fork_run"}
       /\ state[p] \in {"RUNNING", "RUNNABLE"}
       /\ state[np[p]] = "USED"
       /\ \A q \in Procs : np[q] = np[p] => q = p

\* Every process but init has a parent that is neither gone nor a zombie, so
\* somebody can still wait for it (reparent in kexit).  A child that fork has
\* not linked yet is the only exception.
ParentIsAlive ==
  \A s \in Procs \ {InitProc} :
    state[s] # "UNUSED" =>
      \/ parent[s] # 0 /\ state[parent[s]] \notin {"UNUSED", "ZOMBIE"}
      \/ \E p \in Procs : np[p] = s /\ pc[p] = "fork_link"

\* Nobody sleeps in wait or waitpid while a child it waits for is a zombie:
\* the wakeup of an exit is never missed (comment in sleep()).
NoMissedExit ==
  \A p \in Procs : state[p] = "SLEEPING" /\ pc[p] = "wait" => Zombies(p) = {}

\* wait_lock is held across steps only by a process on its way to sleep, and
\* that process has the processor.
WaitLockHeldRunning ==
  \A p \in Procs :
    /\ wait_lock = p <=> pc[p] = "wait_sleep"
    /\ wait_lock = p => state[p] = "RUNNING"

\* A slot that is free carries no freeze over to the next process (README:
\* freeze state is reset on process reuse).
UnusedIsThawed == \A s \in Procs : state[s] = "UNUSED" => s \notin frozen

\* init (user/init.c) always has the shell it waits for: its wait cannot fail
\* for want of children, so only a kill or a failed fork makes init exit and
\* the kernel panic.
InitHasItsShell ==
  /\ shpid # 0 => \E s \in Procs : pid[s] = shpid /\ parent[s] = InitProc
  /\ pc[InitProc] \in {"wait", "wait_sleep"} =>
       shpid # 0 /\ target[InitProc] = 0 /\ Children(InitProc) # {}

\* What ties pc, np, parent and chan together; with the invariants above it
\* makes an inductive invariant.
Bookkeeping ==
  /\ state[InitProc] \notin {"UNUSED", "USED", "ZOMBIE"}
  /\ \A p \in Procs :
       /\ state[p] = "UNUSED" => parent[p] = 0
       /\ state[p] \in {"UNUSED", "USED", "ZOMBIE"} => pc[p] \in {"user", "exit"}
       /\ state[p] = "SLEEPING" => \/ pc[p] = "wait" /\ chan[p] = p
                                   \/ pc[p] = "mlock" /\ chan[p] \notin Procs
       /\ pc[p] \in {"fork", "fork_link", "fork_run"} => todo[p] > 0
       /\ np[p] # 0 <=> pc[p] \in {"fork_link", "fork_run"}
       /\ pc[p] = "fork_link" => parent[np[p]] = 0
       /\ pc[p] = "fork_run" => parent[np[p]] = p
       /\ pc[p] = "wait_sleep" => Zombies(p) = {}

\* An orphan that has exited is reaped by init, unless init itself is frozen
\* or the kernel has stopped.
OrphansAreReaped ==
  \A s \in Procs :
    state[s] = "ZOMBIE" /\ parent[s] = InitProc
      ~> state[s] = "UNUSED" \/ InitProc \in frozen \/ panicked
=============================================================================
