------------------------------- MODULE KMutex -------------------------------
(***************************************************************************)
(* Kernel mutexes (the sys_mutex calls of kernel/sysproc.c) on top of the  *)
(* process table.  The mutex table is protected by wait_lock, the lock of  *)
(* fork, exit and wait; a mutex names its owner by pid, and a waiter       *)
(* sleeps on the address of the table entry.                               *)
(***************************************************************************)
EXTENDS Proc

CONSTANT NKMUTEX   \* entries of kmutex_table

ASSUME KMutexAssumption == NKMUTEX \in Nat \ {0}

Mutexes == 0..NKMUTEX - 1

VARIABLES used,      \* the entries handed out by mutex_create
          locked,    \* the entries that are locked
          owner_pid, \* pid of the owner of each entry, -1 when it has none
          mid        \* mutex_lock: the entry each process is locking

kmutex_table == <<used, locked, owner_pid>>
mvars == <<vars, kmutex_table, mid>>

\* The address of entry i, the channel its waiters sleep on.
Address(i) == NPROC + 1 + i

MInit ==
  /\ Init
  /\ used = {}
  /\ locked = {}
  /\ owner_pid = [i \in Mutexes |-> 0]
  /\ mid = [p \in Procs |-> 0]

-----------------------------------------------------------------------------

\* A mutex call runs under wait_lock and returns to user mode.  init makes none.
MutexCall(p) ==
  /\ Running(p) /\ pc[p] = "kernel" /\ wait_lock = 0 /\ p # InitProc
  /\ Goto(p, "user")
  /\ UNCHANGED <<pid, parent, chan, killed, frozen, nextpid, wait_lock, locals,
                 panicked, mid>>

\* The first entry never handed out.  A full table fails the call (sysreturn).
sys_mutex_create(p) ==
  /\ MutexCall(p)
  /\ \E i \in Mutexes \ used :
       /\ \A j \in Mutexes \ used : i <= j
       /\ used' = used \cup {i}
       /\ locked' = locked \ {i}
       /\ owner_pid' = [owner_pid EXCEPT ![i] = -1]
  /\ UNCHANGED state

\* mutex_trylock, and mutex_lock when it finds the entry unlocked.
sys_mutex_trylock(p, i) ==
  /\ MutexCall(p)
  /\ i \in used \ locked
  /\ locked' = locked \cup {i}
  /\ owner_pid' = [owner_pid EXCEPT ![i] = pid[p]]
  /\ UNCHANGED <<state, used>>

\* sleep(&kmutex_table[id], &wait_lock): the kill flag was not looked at.
SleepOnMutex(p, i) ==
  /\ i \in used \cap locked /\ owner_pid[i] # pid[p]
  /\ state' = [state EXCEPT ![p] = "SLEEPING"]
  /\ chan' = [chan EXCEPT ![p] = Address(i)]
  /\ mid' = [mid EXCEPT ![p] = i]
  /\ Goto(p, "mlock")
  /\ UNCHANGED <<pid, parent, killed, frozen, nextpid, wait_lock, locals,
                 panicked, kmutex_table>>

sys_mutex_lock(p, i) ==
  /\ Running(p) /\ pc[p] = "kernel" /\ wait_lock = 0 /\ p # InitProc
  /\ SleepOnMutex(p, i)

\* Awake again with wait_lock: a killed process gives up, otherwise the loop
\* looks at the entry again.
mutex_lock_killed(p) ==
  /\ Running(p) /\ pc[p] = "mlock" /\ wait_lock = 0
  /\ p \in killed
  /\ Goto(p, "user")
  /\ UNCHANGED <<table, nextpid, wait_lock, locals, panicked, kmutex_table, mid>>

mutex_lock_take(p) ==
  /\ Running(p) /\ pc[p] = "mlock" /\ wait_lock = 0
  /\ p \notin killed
  /\ mid[p] \in used \ locked
  /\ locked' = locked \cup {mid[p]}
  /\ owner_pid' = [owner_pid EXCEPT ![mid[p]] = pid[p]]
  /\ Goto(p, "user")
  /\ UNCHANGED <<table, nextpid, wait_lock, locals, panicked, used, mid>>

mutex_lock_again(p) ==
  /\ Running(p) /\ pc[p] = "mlock" /\ wait_lock = 0
  /\ p \notin killed
  /\ SleepOnMutex(p, mid[p])

\* The owner unlocks and wakes every waiter; anybody else gets -1 (sysreturn).
Bug_sys_mutex_unlock_owner(p, i) ==
  /\ MutexCall(p)
  /\ i \in used \cap locked
  /\ locked' = locked \ {i}
  /\ owner_pid' = [owner_pid EXCEPT ![i] = -1]
  /\ state' = wakeup({Address(i)})
  /\ UNCHANGED used
Bug_sys_mutex_unlock_wakeup(p, i) ==
  /\ MutexCall(p)
  /\ i \in used \cap locked /\ owner_pid[i] = pid[p]
  /\ locked' = locked \ {i}
  /\ owner_pid' = [owner_pid EXCEPT ![i] = -1]
  /\ UNCHANGED <<state, used>>
sys_mutex_unlock(p, i) ==
  /\ MutexCall(p)
  /\ i \in used \cap locked /\ owner_pid[i] = pid[p]
  /\ locked' = locked \ {i}
  /\ owner_pid' = [owner_pid EXCEPT ![i] = -1]
  /\ state' = wakeup({Address(i)})
  /\ UNCHANGED used

-----------------------------------------------------------------------------

MutexSyscall(p) ==
  \/ sys_mutex_create(p)
  \/ \E i \in Mutexes : \/ sys_mutex_trylock(p, i)
                        \/ sys_mutex_lock(p, i)
                        \/ sys_mutex_unlock(p, i)

MutexStep(p) ==
  \/ mutex_lock_killed(p)
  \/ mutex_lock_take(p)
  \/ mutex_lock_again(p)

MNext ==
  \/ Next /\ UNCHANGED <<kmutex_table, mid>>
  \/ \E p \in Procs : MutexSyscall(p) \/ MutexStep(p)

MSpec == MInit /\ [][MNext]_mvars

-----------------------------------------------------------------------------
(* Properties *)

\* Every variable holds a value of its kind.
MTypeOK ==
  /\ state \in [Procs -> States]
  /\ pid \in [Procs -> Nat]
  /\ chan \in [Procs -> Nat]
  /\ nextpid \in Nat
  /\ pc \in [Procs -> Labels]
  /\ used \subseteq Mutexes
  /\ locked \subseteq used
  /\ owner_pid \in [Mutexes -> Int]
  /\ mid \in [Procs -> Mutexes]

\* Nobody sleeps in mutex_lock on an entry that is unlocked, or that it owns
\* itself: the wakeup of mutex_unlock is never missed.
NoMissedUnlock ==
  \A p \in Procs :
    state[p] = "SLEEPING" /\ pc[p] = "mlock" =>
      mid[p] \in locked /\ owner_pid[mid[p]] # pid[p]

\* A locked entry passes to nobody: only a running process whose pid is the
\* owner's unlocks it, and nobody takes it over (README: mutex_unlock validates
\* ownership).  So an entry whose owner has exited stays locked for good.
OnlyOwnerUnlocks ==
  [][\A i \in locked :
       \/ i \in locked' /\ owner_pid'[i] = owner_pid[i]
       \/ /\ i \notin locked'
          /\ \E p \in Procs : state[p] = "RUNNING" /\ pid[p] = owner_pid[i]]_mvars
=============================================================================
