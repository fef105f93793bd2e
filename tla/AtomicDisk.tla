----------------------------- MODULE AtomicDisk -----------------------------
(***************************************************************************)
(* What the log promises the file system: the blocks behave as a memory    *)
(* in which the writes of an operation reach the disk all together or not  *)
(* at all.  A crash takes the memory back to the last commit, and no       *)
(* commit falls inside an operation (comments at the head of               *)
(* kernel/log.c).                                                          *)
(***************************************************************************)
CONSTANTS Procs, Blocks, Vals

VARIABLES mem,    \* the blocks as the file system sees them
          stable, \* the blocks as a crash would leave them
          ops     \* the processes inside an operation

avars == <<mem, stable, ops>>

AInit ==
  /\ mem \in [Blocks -> Vals]
  /\ stable = mem
  /\ ops = {}

Begin(p) ==
  /\ p \notin ops
  /\ ops' = ops \cup {p}
  /\ UNCHANGED <<mem, stable>>

Update(p, b, v) ==
  /\ p \in ops
  /\ mem' = [mem EXCEPT ![b] = v]
  /\ UNCHANGED <<stable, ops>>

End(p) ==
  /\ p \in ops
  /\ ops' = ops \ {p}
  /\ UNCHANGED <<mem, stable>>

Commit ==
  /\ ops = {}
  /\ stable' = mem
  /\ UNCHANGED <<mem, ops>>

Crash ==
  /\ mem' = stable
  /\ ops' = {}
  /\ UNCHANGED stable

ANext ==
  \/ \E p \in Procs :
       \/ Begin(p)
       \/ \E b \in Blocks, v \in Vals : Update(p, b, v)
       \/ End(p)
  \/ Commit
  \/ Crash

ASpec == AInit /\ [][ANext]_avars
=============================================================================
