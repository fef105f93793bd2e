-------------------------------- MODULE Log ---------------------------------
(***************************************************************************)
(* The write-ahead log of the file system (kernel/log.c) on top of the     *)
(* block cache: begin_op, log_write and end_op of concurrent system calls, *)
(* the group commit, crashes at any moment and recovery at boot.           *)
(*                                                                         *)
(* A disk write of one block is atomic.  The cache is reduced to the       *)
(* contents of each home block, None when it is not cached; an unpinned    *)
(* block that nobody holds may be evicted at any time (kernel/bio.c).  Log *)
(* blocks and the header are written through and are not cached here.      *)
(* A critical section of log.lock is one step.                             *)
(***************************************************************************)
EXTENDS Integers, Sequences, FiniteSets

CONSTANTS Procs,       \* processes that make file system calls
          Blocks,      \* the home blocks
          Vals,        \* contents of a block
          None,        \* not a block and not contents
          LOGBLOCKS,   \* data blocks of the log
          MAXOPBLOCKS, \* blocks begin_op() reserves for an operation
          MaxWrites    \* most different blocks an operation writes

\* An operation stays below its reservation: log_write() tests for a full log
\* before it looks for the block in the log, so that an operation that had used
\* up all MAXOPBLOCKS could panic on writing one of its blocks again.  No
\* operation does: filewrite() keeps two blocks of slop, the others write less.
ASSUME LogAssumption ==
  /\ IsFiniteSet(Procs) /\ IsFiniteSet(Blocks)
  /\ None \notin Vals /\ None \notin Blocks
  /\ LOGBLOCKS \in Nat /\ MAXOPBLOCKS \in Nat \ {0}
  /\ MAXOPBLOCKS <= LOGBLOCKS
  /\ MaxWrites \in 1..(MAXOPBLOCKS - 1)

VARIABLES disk,        \* home blocks on disk
          dlog,        \* data blocks of the log on disk
          dhead,       \* header of the log on disk: the block numbers
          cache,       \* cached home blocks
          pinned,      \* blocks pinned by log_write
          lh,          \* log.lh: block numbers of the running transaction
          outstanding, \* log.outstanding
          committing,  \* log.committing
          pc,          \* where each process stands
          held,        \* the buffer a process has locked and modified
          wrote,       \* the blocks each operation has logged
          stage,       \* where commit() or recover_from_log() stands
          tail,        \* index of the loops of write_log and install_trans
          panicked     \* log_write or end_op has called panic()

ondisk == <<disk, dlog, dhead>>
buffers == <<cache, pinned>>
opvars == <<pc, held, wrote>>
header == <<lh, outstanding, committing>>
vars == <<ondisk, buffers, header, opvars, stage, tail, panicked>>

\* What bread() returns for a home block.
bread(b) == IF cache[b] = None THEN disk[b] ELSE cache[b]

LogSet == {lh[i] : i \in DOMAIN lh}

\* An empty log on disk, and initlog() still to run.
Init ==
  /\ disk \in [Blocks -> Vals]
  /\ dlog \in {[i \in 1..LOGBLOCKS |-> v] : v \in Vals}
  /\ dhead = <<>>
  /\ cache = [b \in Blocks |-> None]
  /\ pinned = {}
  /\ lh = <<>> /\ outstanding = 0 /\ committing = FALSE
  /\ pc = [p \in Procs |-> "idle"]
  /\ held = [p \in Procs |-> None]
  /\ wrote = [p \in Procs |-> {}]
  /\ stage = "boot" /\ tail = 1
  /\ panicked = FALSE

-----------------------------------------------------------------------------
(* The operations of a file system call *)

Booted == stage \in {"run", "write_log", "write_head", "install", "erase", "done"}

\* A file system call starts and comes to begin_op().
syscall(p) ==
  /\ Booted /\ ~panicked /\ pc[p] = "idle"
  /\ pc' = [pc EXCEPT ![p] = "begin"]
  /\ UNCHANGED <<ondisk, buffers, header, held, wrote, stage, tail, panicked>>

\* begin_op() must wait: for the commit, or for space in the log.
MustWait == committing \/ Len(lh) + (outstanding + 1) * MAXOPBLOCKS > LOGBLOCKS

begin_op_sleep(p) ==
  /\ ~panicked /\ pc[p] = "begin" /\ MustWait
  /\ pc' = [pc EXCEPT ![p] = "sleep"]
  /\ UNCHANGED <<ondisk, buffers, header, held, wrote, stage, tail, panicked>>

Bug_begin_op_committing(p) ==
  /\ ~panicked /\ pc[p] = "begin"
  /\ Len(lh) + (outstanding + 1) * MAXOPBLOCKS <= LOGBLOCKS
  /\ outstanding' = outstanding + 1
  /\ pc' = [pc EXCEPT ![p] = "op"]
  /\ wrote' = [wrote EXCEPT ![p] = {}]
  /\ UNCHANGED <<ondisk, buffers, lh, committing, held, stage, tail, panicked>>
begin_op(p) ==
  /\ ~panicked /\ pc[p] = "begin" /\ ~MustWait
  /\ outstanding' = outstanding + 1
  /\ pc' = [pc EXCEPT ![p] = "op"]
  /\ wrote' = [wrote EXCEPT ![p] = {}]
  /\ UNCHANGED <<ondisk, buffers, lh, committing, held, stage, tail, panicked>>

\* bread() and a change of the buffer's data; the buffer's sleep lock keeps
\* other processes away from it.  An operation writes at most MaxWrites
\* different blocks (filewrite() splits a larger write).
update(p, b, v) ==
  /\ ~panicked /\ pc[p] = "op" /\ held[p] = None
  /\ \A q \in Procs : held[q] # b
  /\ Cardinality(wrote[p] \cup {b}) <= MaxWrites
  /\ cache' = [cache EXCEPT ![b] = v]
  /\ held' = [held EXCEPT ![p] = b]
  /\ UNCHANGED <<ondisk, pinned, header, pc, wrote, stage, tail, panicked>>

\* log_write() and brelse(): the block joins the transaction and is pinned,
\* or is absorbed when it is in it already.
log_write(p) ==
  /\ ~panicked /\ held[p] # None
  /\ panicked' = (Len(lh) >= LOGBLOCKS \/ outstanding < 1)
  /\ IF panicked' \/ held[p] \in LogSet
       THEN UNCHANGED <<lh, pinned>>
       ELSE /\ lh' = Append(lh, held[p])
            /\ pinned' = pinned \cup {held[p]}
  /\ wrote' = [wrote EXCEPT ![p] = @ \cup {held[p]}]
  /\ held' = [held EXCEPT ![p] = None]
  /\ UNCHANGED <<ondisk, cache, outstanding, committing, pc, stage, tail>>

\* wakeup(&log)
wakeup(f) == [q \in Procs |-> IF f[q] = "sleep" THEN "begin" ELSE f[q]]

\* end_op(), first half: the last operation to end starts the commit; another
\* one wakes those who wait for space.
Bug_end_op(p) ==
  /\ ~panicked /\ pc[p] = "op" /\ held[p] = None
  /\ outstanding' = outstanding - 1
  /\ panicked' = committing
  /\ IF outstanding' = 0
       THEN /\ committing' = TRUE
            /\ pc' = [pc EXCEPT ![p] = "commit"]
            /\ stage' = IF lh = <<>> THEN "done" ELSE "write_log"
            /\ tail' = 1
       ELSE /\ pc' = [pc EXCEPT ![p] = "idle"]
            /\ UNCHANGED <<committing, stage, tail>>
  /\ wrote' = [wrote EXCEPT ![p] = {}]
  /\ UNCHANGED <<ondisk, buffers, lh, held>>
end_op(p) ==
  /\ ~panicked /\ pc[p] = "op" /\ held[p] = None
  /\ outstanding' = outstanding - 1
  /\ panicked' = committing
  /\ IF outstanding' = 0
       THEN /\ committing' = TRUE
            /\ pc' = [pc EXCEPT ![p] = "commit"]
            /\ stage' = IF lh = <<>> THEN "done" ELSE "write_log"
            /\ tail' = 1
       ELSE /\ pc' = wakeup([pc EXCEPT ![p] = "idle"])
            /\ UNCHANGED <<committing, stage, tail>>
  /\ wrote' = [wrote EXCEPT ![p] = {}]
  /\ UNCHANGED <<ondisk, buffers, lh, held>>

-----------------------------------------------------------------------------
(* commit() *)

\* The loops of write_log() and install_trans() leave for stage s at the end.
NextTail(this, s) ==
  IF tail < Len(lh) THEN tail' = tail + 1 /\ stage' = this
                    ELSE tail' = 1 /\ stage' = s

\* write_log(): one block goes from the cache to the log.
Bug_write_log ==
  /\ stage = "write_log" /\ ~panicked
  /\ dlog' = [dlog EXCEPT ![tail] = bread(lh[tail])]
  /\ dhead' = lh
  /\ NextTail("write_log", "write_head")
  /\ UNCHANGED <<disk, buffers, header, opvars, panicked>>
write_log ==
  /\ stage = "write_log" /\ ~panicked
  /\ dlog' = [dlog EXCEPT ![tail] = bread(lh[tail])]
  /\ NextTail("write_log", "write_head")
  /\ UNCHANGED <<disk, dhead, buffers, header, opvars, panicked>>

\* write_head(): the commit.
write_head ==
  /\ stage = "write_head" /\ ~panicked
  /\ dhead' = lh
  /\ stage' = "install"
  /\ UNCHANGED <<disk, dlog, buffers, header, opvars, tail, panicked>>

\* install_trans(): one block goes from the log to its home.  It is unpinned
\* after a commit and was not pinned before a recovery.
Bug_Install(this, s) ==
  /\ cache' = [cache EXCEPT ![lh[tail]] = dlog[tail]]
  /\ pinned' = pinned \ {lh[tail]}
  /\ NextTail(this, s)
  /\ UNCHANGED <<ondisk, header, opvars, panicked>>
Install(this, s) ==
  /\ disk' = [disk EXCEPT ![lh[tail]] = dlog[tail]]
  /\ cache' = [cache EXCEPT ![lh[tail]] = dlog[tail]]
  /\ pinned' = pinned \ {lh[tail]}
  /\ NextTail(this, s)
  /\ UNCHANGED <<dlog, dhead, header, opvars, panicked>>

install_trans == stage = "install" /\ ~panicked /\ Install("install", "erase")

\* log.lh.n = 0 and write_head(): the transaction leaves the log.
Erase(s) ==
  /\ lh' = <<>> /\ dhead' = <<>>
  /\ stage' = s
  /\ UNCHANGED <<disk, dlog, buffers, outstanding, committing, opvars, tail,
                 panicked>>

erase_head == stage = "erase" /\ ~panicked /\ Erase("done")

\* end_op(), second half.
end_op_done(p) ==
  /\ stage = "done" /\ ~panicked /\ pc[p] = "commit"
  /\ committing' = FALSE
  /\ pc' = wakeup([pc EXCEPT ![p] = "idle"])
  /\ stage' = "run"
  /\ UNCHANGED <<ondisk, buffers, lh, outstanding, held, wrote, tail, panicked>>

-----------------------------------------------------------------------------
(* The cache, crashes and recovery *)

\* bget() recycles a buffer with no references.
evict(b) ==
  /\ cache[b] # None /\ b \notin pinned /\ \A p \in Procs : held[p] # b
  /\ cache' = [cache EXCEPT ![b] = None]
  /\ UNCHANGED <<ondisk, pinned, header, opvars, stage, tail, panicked>>

\* The machine stops, at any point, and is started again.
crash ==
  /\ cache' = [b \in Blocks |-> None] /\ pinned' = {}
  /\ lh' = <<>> /\ outstanding' = 0 /\ committing' = FALSE
  /\ pc' = [p \in Procs |-> "idle"]
  /\ held' = [p \in Procs |-> None]
  /\ wrote' = [p \in Procs |-> {}]
  /\ stage' = "boot" /\ tail' = 1
  /\ panicked' = FALSE
  /\ UNCHANGED ondisk

\* recover_from_log(), called from initlog() before the first system call.
read_head ==
  /\ stage = "boot"
  /\ lh' = dhead
  /\ stage' = IF dhead = <<>> THEN "recover_erase" ELSE "recover"
  /\ UNCHANGED <<ondisk, buffers, outstanding, committing, opvars, tail, panicked>>

recover_install == stage = "recover" /\ Install("recover", "recover_erase")

recover_erase == stage = "recover_erase" /\ Erase("run")

-----------------------------------------------------------------------------

CommitStep ==
  \/ write_log \/ write_head \/ install_trans \/ erase_head
  \/ \E p \in Procs : end_op_done(p)
  \/ read_head \/ recover_install \/ recover_erase

OpStep(p) ==
  \/ syscall(p)
  \/ begin_op_sleep(p)
  \/ begin_op(p)
  \/ \E b \in Blocks, v \in Vals : update(p, b, v)
  \/ log_write(p)
  \/ end_op(p)

Next ==
  \/ \E p \in Procs : OpStep(p)
  \/ CommitStep
  \/ \E b \in Blocks : evict(b)
  \/ crash

Spec == Init /\ [][Next]_vars

-----------------------------------------------------------------------------
(* Properties *)

PCs == {"idle", "begin", "sleep", "op", "commit"}
Stages == {"boot", "recover", "recover_erase", "run", "write_log", "write_head",
           "install", "erase", "done"}

\* Every variable holds a value of its kind; a transaction has no block twice.
TypeOK ==
  /\ disk \in [Blocks -> Vals]
  /\ dlog \in [1..LOGBLOCKS -> Vals]
  /\ dhead \in Seq(Blocks) /\ Len(dhead) <= LOGBLOCKS
  /\ cache \in [Blocks -> Vals \cup {None}]
  /\ pinned \subseteq Blocks
  /\ lh \in Seq(Blocks) /\ Len(lh) <= LOGBLOCKS
  /\ outstanding \in Nat
  /\ committing \in BOOLEAN
  /\ pc \in [Procs -> PCs]
  /\ held \in [Procs -> Blocks \cup {None}]
  /\ wrote \in [Procs -> SUBSET Blocks]
  /\ stage \in Stages
  /\ tail \in Nat \ {0} /\ tail <= Len(lh) + 1
  /\ panicked \in BOOLEAN
  /\ \A i, j \in DOMAIN lh : lh[i] = lh[j] => i = j

\* The space begin_op() reserves is enough: the blocks of the running
\* transaction and those its operations may still add fit into the log.
Unused == {t \in Procs \X (1..MAXOPBLOCKS) :
             pc[t[1]] = "op" /\ t[2] > Cardinality(wrote[t[1]])}
Reserved == Len(lh) + Cardinality(Unused) <= LOGBLOCKS

\* The log never overflows and neither of its panics is reached: "too big a
\* transaction" needs more blocks than an operation writes, "log.committing" an
\* operation that began during a commit.
NeverPanics == TypeOK /\ Reserved /\ ~panicked

\* A process sleeps in begin_op() only while it must: it is woken when space
\* comes free and when the commit is over.
NoMissedSpace == \A p \in Procs : pc[p] = "sleep" => MustWait

\* What a crash at this moment would leave on the disk once recovered.
Stable == [b \in Blocks |->
             IF \E i \in DOMAIN dhead : dhead[i] = b
               THEN dlog[CHOOSE i \in DOMAIN dhead : dhead[i] = b]
               ELSE disk[b]]

Memory == IF stage \in {"boot", "recover", "recover_erase"}
            THEN Stable ELSE [b \in Blocks |-> bread(b)]

\* Once the last operation has ended and its end_op() has returned, nothing
\* that was written can be lost any more.
IdleIsDurable ==
  stage = "run" /\ outstanding = 0 => Memory = Stable

A == INSTANCE AtomicDisk WITH
       mem <- Memory, stable <- Stable,
       ops <- {p \in Procs : pc[p] = "op"}

\* The log implements an atomic disk: a crash at any point, also inside a
\* commit or a recovery, leaves every operation done or not done.
ImplementsAtomicDisk == A!ASpec
=============================================================================
