------------------------------- MODULE Bcache -------------------------------
(***************************************************************************)
(* The block cache (kernel/bio.c) with its sleep locks                     *)
(* (kernel/sleeplock.c), on top of the disk driver.  The log and the file  *)
(* system use it through bread, bwrite, bpin, bunpin and brelse; a         *)
(* critical section of bcache.lock or of a sleep lock's spinlock is one    *)
(* step.  There is one device, so a block number names a block.            *)
(***************************************************************************)
EXTENDS VirtioDisk, FiniteSetsExt

CONSTANT MaxPinned  \* most buffers the log pins at a time

ASSUME BcacheAssumption == MaxPinned \in Nat

VARIABLES valid,   \* buffers with b->valid
          refcnt,  \* b->refcnt
          lru,     \* the list: the most recently used buffer first
          owner,   \* b->lock: the process that holds it, or None
          pinned,  \* the buffers the log has pinned
          panicked \* bget() found no buffer

cvars == <<valid, refcnt, lru, owner, pinned, panicked>>
vars == <<vvars, cvars>>

\* binit() puts each buffer in front of the list.
Init ==
  /\ VInit
  /\ valid = {}
  /\ refcnt = [b \in Bufs |-> 0]
  /\ lru = CHOOSE l \in Bijection(1..Cardinality(Bufs), Bufs) : TRUE
  /\ owner = [b \in Bufs |-> None]
  /\ pinned = {}
  /\ panicked = FALSE

Goto(p, l) == pc' = [pc EXCEPT ![p] = l]

-----------------------------------------------------------------------------
(* bget() *)

Cached(k) == {b \in Bufs : blockno[b] = k}

\* The least recently used of some buffers: the scan from head.prev.
LeastRecent(s) == lru[Max({i \in DOMAIN lru : lru[i] \in s})]

Unused == {b \in Bufs : refcnt[b] = 0}

\* The block is cached, by whoever holds its buffer.
bget_cached(p, k) ==
  /\ ~panicked /\ pc[p] = "idle"
  /\ \E b \in Cached(k) :
       /\ refcnt' = [refcnt EXCEPT ![b] = @ + 1]
       /\ buf' = [buf EXCEPT ![p] = b]
  /\ Goto(p, "lock")
  /\ UNCHANGED <<disk, data, blockno, busy, ring, irq, handler, wr,
                 valid, lru, owner, pinned, panicked>>

\* Not cached: recycle the least recently used unused buffer.
Bug_bget_recycle(p, k) ==
  /\ ~panicked /\ pc[p] = "idle" /\ Cached(k) = {} /\ Unused # {}
  /\ LET b == LeastRecent(Unused)
     IN  /\ blockno' = [blockno EXCEPT ![b] = k]
         /\ refcnt' = [refcnt EXCEPT ![b] = 1]
         /\ buf' = [buf EXCEPT ![p] = b]
  /\ Goto(p, "lock")
  /\ UNCHANGED <<disk, data, busy, ring, irq, handler, wr, valid, lru, owner,
                 pinned, panicked>>
Bug_bget_recycle_twice(p, k) ==
  /\ ~panicked /\ pc[p] = "idle" /\ Unused # {}
  /\ LET b == LeastRecent(Unused)
     IN  /\ blockno' = [blockno EXCEPT ![b] = k]
         /\ valid' = valid \ {b}
         /\ refcnt' = [refcnt EXCEPT ![b] = 1]
         /\ buf' = [buf EXCEPT ![p] = b]
  /\ Goto(p, "lock")
  /\ UNCHANGED <<disk, data, busy, ring, irq, handler, wr, lru, owner, pinned,
                 panicked>>
bget_recycle(p, k) ==
  /\ ~panicked /\ pc[p] = "idle" /\ Cached(k) = {} /\ Unused # {}
  /\ LET b == LeastRecent(Unused)
     IN  /\ blockno' = [blockno EXCEPT ![b] = k]
         /\ valid' = valid \ {b}
         /\ refcnt' = [refcnt EXCEPT ![b] = 1]
         /\ buf' = [buf EXCEPT ![p] = b]
  /\ Goto(p, "lock")
  /\ UNCHANGED <<disk, data, busy, ring, irq, handler, wr, lru, owner, pinned,
                 panicked>>

bget_panic(p, k) ==
  /\ ~panicked /\ pc[p] = "idle" /\ Cached(k) = {} /\ Unused = {}
  /\ panicked' = TRUE
  /\ UNCHANGED <<vvars, valid, refcnt, lru, owner, pinned>>

-----------------------------------------------------------------------------
(* Sleep locks, and the rest of bread() *)

acquiresleep_wait(p) ==
  /\ ~panicked /\ pc[p] = "lock" /\ owner[buf[p]] # None
  /\ Goto(p, "lock_sleep")
  /\ UNCHANGED <<disk, data, blockno, busy, ring, irq, handler, buf, wr, cvars>>

\* The lock is taken; bread() reads the block unless the buffer is valid.
acquiresleep(p) ==
  /\ ~panicked /\ pc[p] = "lock" /\ owner[buf[p]] = None
  /\ owner' = [owner EXCEPT ![buf[p]] = p]
  /\ IF buf[p] \in valid THEN Goto(p, "hold") ELSE Goto(p, "rw")
  /\ UNCHANGED <<disk, data, blockno, busy, ring, irq, handler, buf, wr,
                 valid, refcnt, lru, pinned, panicked>>

\* virtio_disk_rw() returns: to bread(), which sets valid, or from bwrite().
rw_return(p) ==
  /\ ~panicked
  /\ rw_done(p, "hold")
  /\ valid' = valid \cup {buf[p]}
  /\ wr' = wr \ {p}
  /\ UNCHANGED <<data, buf, refcnt, lru, owner, pinned, panicked>>

-----------------------------------------------------------------------------
(* What the holder of a buffer does with it *)

\* The file system changes the data of a buffer it holds.
modify(p, v) ==
  /\ ~panicked /\ pc[p] = "hold"
  /\ data' = [data EXCEPT ![buf[p]] = v]
  /\ UNCHANGED <<disk, blockno, busy, ring, irq, handler, pc, buf, wr, cvars>>

bwrite(p) ==
  /\ ~panicked /\ pc[p] = "hold"
  /\ wr' = wr \cup {p}
  /\ Goto(p, "rw")
  /\ UNCHANGED <<disk, data, blockno, busy, ring, irq, handler, buf, cvars>>

\* log_write() pins a block the first time it is logged, install_trans()
\* unpins it; both hold the buffer.
bpin(p) ==
  /\ ~panicked /\ pc[p] = "hold" /\ buf[p] \notin pinned
  /\ Cardinality(pinned) < MaxPinned
  /\ refcnt' = [refcnt EXCEPT ![buf[p]] = @ + 1]
  /\ pinned' = pinned \cup {buf[p]}
  /\ UNCHANGED <<vvars, valid, lru, owner, panicked>>

bunpin(p) ==
  /\ ~panicked /\ pc[p] = "hold" /\ buf[p] \in pinned
  /\ refcnt' = [refcnt EXCEPT ![buf[p]] = @ - 1]
  /\ pinned' = pinned \ {buf[p]}
  /\ UNCHANGED <<vvars, valid, lru, owner, panicked>>

\* brelse(): releasesleep() first ...
brelse_unlock(p) ==
  /\ ~panicked /\ pc[p] = "hold"
  /\ owner' = [owner EXCEPT ![buf[p]] = None]
  /\ pc' = [Wake({q \in Procs : buf[q] = buf[p]}, "lock_sleep", "lock")
              EXCEPT ![p] = "put"]
  /\ UNCHANGED <<disk, data, blockno, busy, ring, irq, handler, buf, wr,
                 valid, refcnt, lru, pinned, panicked>>

\* The list with b unlinked and inserted after head.
ToFront(b) ==
  LET i == CHOOSE i \in DOMAIN lru : lru[i] = b
  IN  [j \in DOMAIN lru |-> IF j = 1 THEN b ELSE IF j <= i THEN lru[j - 1] ELSE lru[j]]

\* ... then the reference goes, and an unused buffer moves to the front.
Bug_brelse(p) ==
  /\ ~panicked /\ pc[p] = "put"
  /\ refcnt' = [refcnt EXCEPT ![buf[p]] = 0]
  /\ lru' = ToFront(buf[p])
  /\ buf' = [buf EXCEPT ![p] = None]
  /\ Goto(p, "idle")
  /\ UNCHANGED <<disk, data, blockno, busy, ring, irq, handler, wr, valid,
                 owner, pinned, panicked>>
brelse(p) ==
  /\ ~panicked /\ pc[p] = "put"
  /\ refcnt' = [refcnt EXCEPT ![buf[p]] = @ - 1]
  /\ lru' = IF refcnt[buf[p]] = 1 THEN ToFront(buf[p]) ELSE lru
  /\ buf' = [buf EXCEPT ![p] = None]
  /\ Goto(p, "idle")
  /\ UNCHANGED <<disk, data, blockno, busy, ring, irq, handler, wr, valid,
                 owner, pinned, panicked>>

\* kill() makes a sleeping process runnable wherever it sleeps; it looks at
\* its condition again (none of these loops looks at the kill flag).
kill_wakes(p) ==
  /\ ~panicked
  /\ pc[p] \in {"lock_sleep", "desc_sleep", "rw_sleep"}
  /\ Goto(p, CASE pc[p] = "lock_sleep" -> "lock"
                [] pc[p] = "desc_sleep" -> "rw"
                [] pc[p] = "rw_sleep" -> "rw_wait")
  /\ UNCHANGED <<disk, data, blockno, busy, ring, irq, handler, buf, wr, cvars>>

-----------------------------------------------------------------------------

Driver ==
  \/ \E p \in Procs : rw_no_desc(p) \/ rw_submit(p) \/ rw_again(p)
  \/ \E d \in Desc : device(d)
  \/ intr_ack \/ intr_used

Next ==
  \/ ~panicked /\ Driver /\ UNCHANGED cvars
  \/ \E p \in Procs :
       \/ \E k \in Blocks : bget_cached(p, k) \/ bget_recycle(p, k) \/ bget_panic(p, k)
       \/ acquiresleep_wait(p) \/ acquiresleep(p) \/ rw_return(p)
       \/ \E v \in Vals : modify(p, v)
       \/ bwrite(p) \/ bpin(p) \/ bunpin(p) \/ brelse_unlock(p) \/ brelse(p)
       \/ kill_wakes(p)

Spec == Init /\ [][Next]_vars

-----------------------------------------------------------------------------

\* Every variable holds a value of its kind.
TypeOK ==
  /\ disk \in [Blocks -> Vals]
  /\ data \in [Bufs -> Vals \cup {None}]
  /\ blockno \in [Bufs -> Blocks \cup {None}]
  /\ busy \subseteq Bufs /\ valid \subseteq Bufs /\ pinned \subseteq Bufs
  /\ free \subseteq Desc /\ writes \subseteq Desc
  /\ avail \subseteq Desc /\ used \subseteq Desc
  /\ next \in [Desc -> Desc \cup {None}]
  /\ info \in [Desc -> Bufs \cup {None}]
  /\ irq \in BOOLEAN /\ handler \in {"idle", "acked"}
  /\ pc \in [Procs -> {"idle", "lock", "lock_sleep", "rw", "desc_sleep",
                       "rw_sleep", "rw_wait", "hold", "put"}]
  /\ buf \in [Procs -> Bufs \cup {None}]
  /\ wr \subseteq Procs
  /\ refcnt \in [Bufs -> Nat]
  /\ owner \in [Bufs -> Procs \cup {None}]
  /\ panicked \in BOOLEAN

\* A block has at most one buffer, although bget() looks for it in one loop
\* and recycles in another, and drops bcache.lock before it has the buffer's
\* lock.
OneBufferPerBlock ==
  \A b, c \in Bufs : blockno[b] = blockno[c] /\ blockno[b] # None => b = c

\* A buffer's reference count is the number of processes between bget() and
\* the end of brelse(), and one more while the log has it pinned: bget()
\* panics for want of a buffer only when all are really in use.
RefcntIsUsers ==
  \A b \in Bufs :
    refcnt[b] = Cardinality({p \in Procs : buf[p] = b})
                + (IF b \in pinned THEN 1 ELSE 0)

\* A process that sleeps in virtio_disk_rw() for its request will be woken:
\* the device has the request, or has finished it and an interrupt is coming
\* that will find it; and one that sleeps for descriptors finds fewer than
\* three of them.  A process that sleeps for a buffer's lock waits for a
\* holder.
NoMissedCompletion ==
  \A p \in Procs :
    /\ pc[p] = "rw_sleep" =>
         \E d \in Desc :
           /\ info[d] = buf[p]
           /\ d \in avail \/ (d \in used /\ (irq \/ handler = "acked"))
    /\ pc[p] = "desc_sleep" => Cardinality(free) < 3
    /\ pc[p] = "lock_sleep" => owner[buf[p]] # None

\* The view the log has of the cache: a block is cached when a valid buffer
\* has it, and held from the moment bread() returns until releasesleep().
\* The write of bwrite() takes place when the device does it.
BufOf(k) == CHOOSE b \in Cached(k) : TRUE
IsCached(k) == Cached(k) # {} /\ BufOf(k) \in valid

CacheView == [k \in Blocks |-> IF IsCached(k) THEN data[BufOf(k)] ELSE None]
HolderView == [k \in Blocks |-> IF IsCached(k) THEN owner[BufOf(k)] ELSE None]
PinnedView == {blockno[b] : b \in pinned}

View == INSTANCE BlockStore WITH
  cache <- CacheView, holder <- HolderView, pinned <- PinnedView

\* The cache, its sleep locks, the driver and the device together give the
\* log exclusive, current and stable blocks (BlockStore).
ImplementsBlockStore == View!BSpec
=============================================================================
