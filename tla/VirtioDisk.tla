----------------------------- MODULE VirtioDisk -----------------------------
(***************************************************************************)
(* The disk driver (kernel/virtio_disk.c) and the device behind it.        *)
(* virtio_disk_rw() takes three descriptors, hands their chain to the      *)
(* device and sleeps until virtio_disk_intr() has seen the completion.     *)
(*                                                                         *)
(* A critical section of vdisk_lock is one step, except the interrupt      *)
(* handler: between its acknowledgement and its loop the device may        *)
(* complete another request.  The available ring is the set of heads the   *)
(* device has not completed (it may complete them in any order), the used  *)
(* ring the set of heads the driver has not looked at.                     *)
(***************************************************************************)
EXTENDS Integers, FiniteSets

CONSTANTS Procs,  \* the holders of buffers; a process with two is two of them
          Bufs,   \* struct buf
          Blocks, \* block numbers
          Vals,   \* contents of a block
          None,   \* a null pointer, no block, no contents
          NUM     \* descriptors

ASSUME VirtioAssumption ==
  /\ IsFiniteSet(Procs) /\ IsFiniteSet(Bufs)
  /\ None \notin Procs \cup Bufs \cup Blocks \cup Vals \cup Nat
  /\ NUM \in Nat

Desc == 0..NUM - 1

VARIABLES disk,    \* the blocks on the medium
          data,    \* b->data
          blockno, \* b->blockno, None before the buffer's first use
          busy,    \* the buffers with b->disk == 1
          free,    \* the free descriptors
          next,    \* the descriptor that follows in the chain
          info,    \* disk.info[].b of the chain that starts at a descriptor
          writes,  \* the heads whose request has type VIRTIO_BLK_T_OUT
          avail,   \* heads the device has to process
          used,    \* heads the device has finished and the driver not seen
          irq,     \* the device asks for an interrupt
          handler, \* virtio_disk_intr(): "idle" or "acked"
          pc,      \* where each process stands
          buf,     \* the buffer it works on
          wr       \* the processes whose virtio_disk_rw() is a write

ring == <<free, next, info, writes, avail, used>>
vvars == <<disk, data, blockno, busy, ring, irq, handler, pc, buf, wr>>

VInit ==
  /\ disk \in [Blocks -> Vals]
  /\ data = [b \in Bufs |-> None]
  /\ blockno = [b \in Bufs |-> None]
  /\ busy = {}
  /\ free = Desc
  /\ next = [d \in Desc |-> None]
  /\ info = [d \in Desc |-> None]
  /\ writes = {} /\ avail = {} /\ used = {}
  /\ irq = FALSE /\ handler = "idle"
  /\ pc = [p \in Procs |-> "idle"]
  /\ buf = [p \in Procs |-> None]
  /\ wr = {}

-----------------------------------------------------------------------------

\* wakeup(): the processes asleep at this place go on to that one.
Wake(s, from, to) == [p \in Procs |-> IF p \in s /\ pc[p] = from THEN to ELSE pc[p]]

\* vdisk_lock is free; the handler holds it between its two steps.
Unlocked == handler = "idle"

\* alloc_desc() returns the lowest free descriptor.
alloc_desc(s) == CHOOSE d \in s : \A e \in s : d <= e

\* alloc3_desc() fails.  The descriptors it did get are freed again, and
\* free_desc() wakes whoever waits for one.
rw_no_desc(p) ==
  /\ Unlocked /\ pc[p] = "rw" /\ Cardinality(free) < 3
  /\ pc' = [Wake(IF free = {} THEN {} ELSE Procs, "desc_sleep", "rw")
              EXCEPT ![p] = "desc_sleep"]
  /\ UNCHANGED <<disk, data, blockno, busy, ring, irq, handler, buf, wr>>

\* Three descriptors, the request, and the first sleep on the buffer.
rw_submit(p) ==
  /\ Unlocked /\ pc[p] = "rw" /\ Cardinality(free) >= 3
  /\ LET d0 == alloc_desc(free)
         d1 == alloc_desc(free \ {d0})
         d2 == alloc_desc(free \ {d0, d1})
     IN  /\ free' = free \ {d0, d1, d2}
         /\ next' = [next EXCEPT ![d0] = d1, ![d1] = d2, ![d2] = None]
         /\ info' = [info EXCEPT ![d0] = buf[p]]
         /\ writes' = IF p \in wr THEN writes \cup {d0} ELSE writes \ {d0}
         /\ avail' = avail \cup {d0}
  /\ busy' = busy \cup {buf[p]}
  /\ pc' = [pc EXCEPT ![p] = "rw_sleep"]
  /\ UNCHANGED <<disk, data, blockno, used, irq, handler, buf, wr>>

\* The loop on b->disk after a wakeup: asleep again.
rw_again(p) ==
  /\ Unlocked /\ pc[p] = "rw_wait" /\ buf[p] \in busy
  /\ pc' = [pc EXCEPT ![p] = "rw_sleep"]
  /\ UNCHANGED <<disk, data, blockno, busy, ring, irq, handler, buf, wr>>

\* free_chain() from the head on.
Chain(d) == {d, next[d], next[next[d]]}

\* The request has finished: the chain is freed and those who wait for
\* descriptors are woken.  The caller says where p goes on (to).
Bug_rw_done(p, to) ==
  /\ Unlocked /\ pc[p] = "rw_wait" /\ buf[p] \notin busy
  /\ \E d \in Desc :
       /\ info[d] = buf[p]
       /\ info' = [info EXCEPT ![d] = None]
       /\ free' = free \cup Chain(d)
       /\ next' = [e \in Desc |-> IF e \in Chain(d) THEN None ELSE next[e]]
  /\ pc' = [pc EXCEPT ![p] = to]
  /\ UNCHANGED <<disk, blockno, busy, writes, avail, used, irq, handler>>
rw_done(p, to) ==
  /\ Unlocked /\ pc[p] = "rw_wait" /\ buf[p] \notin busy
  /\ \E d \in Desc :
       /\ info[d] = buf[p]
       /\ info' = [info EXCEPT ![d] = None]
       /\ free' = free \cup Chain(d)
       /\ next' = [e \in Desc |-> IF e \in Chain(d) THEN None ELSE next[e]]
  /\ pc' = [Wake(Procs, "desc_sleep", "rw") EXCEPT ![p] = to]
  /\ UNCHANGED <<disk, blockno, busy, writes, avail, used, irq, handler>>

-----------------------------------------------------------------------------
(* The device and its interrupt *)

\* The device transfers the block of one request, whichever it likes, and
\* asks for an interrupt.  It takes the sector from the request, which
\* virtio_disk_rw() computed from b->blockno, and the buffer from the chain.
\* It reports success (status 0); the driver panics otherwise.
device(d) ==
  /\ d \in avail
  /\ avail' = avail \ {d}
  /\ used' = used \cup {d}
  /\ LET b == info[d]
     IN  IF d \in writes
           THEN disk' = [disk EXCEPT ![blockno[b]] = data[b]] /\ UNCHANGED data
           ELSE data' = [data EXCEPT ![b] = disk[blockno[b]]] /\ UNCHANGED disk
  /\ irq' = TRUE
  /\ UNCHANGED <<blockno, busy, free, next, info, writes, handler, pc, buf, wr>>

\* virtio_disk_intr() takes vdisk_lock and acknowledges the interrupt ...
intr_ack ==
  /\ irq /\ handler = "idle"
  /\ irq' = FALSE
  /\ handler' = "acked"
  /\ UNCHANGED <<disk, data, blockno, busy, ring, pc, buf, wr>>

\* ... and then looks at every entry of the used ring, perhaps at none.
intr_used ==
  /\ handler = "acked"
  /\ LET done == {info[d] : d \in used}
     IN  /\ busy' = busy \ done
         /\ pc' = Wake({p \in Procs : buf[p] \in done}, "rw_sleep", "rw_wait")
  /\ used' = {}
  /\ handler' = "idle"
  /\ UNCHANGED <<disk, data, blockno, free, next, info, writes, avail, irq, buf, wr>>
=============================================================================
