----------------------------- MODULE BlockStore -----------------------------
(***************************************************************************)
(* What the block cache promises the log and the file system: a process    *)
(* that holds a block is the only one, and sees what was last put into it; *)
(* a block that is neither held nor pinned may go back to what is on disk  *)
(* at any time, any other stays as it is.  The log module is written on    *)
(* this view of the cache.                                                 *)
(***************************************************************************)
CONSTANTS Procs, Blocks, Vals, None

VARIABLES disk,   \* blocks on disk
          cache,  \* cached contents, None when the block is not cached
          holder, \* the process that holds the block, or None
          pinned  \* the blocks pinned in the cache

bvars == <<disk, cache, holder, pinned>>

BInit ==
  /\ disk \in [Blocks -> Vals]
  /\ cache = [k \in Blocks |-> None]
  /\ holder = [k \in Blocks |-> None]
  /\ pinned = {}

\* bread() returns, having read the block unless it was cached.
Get(p, k) ==
  /\ holder[k] = None
  /\ holder' = [holder EXCEPT ![k] = p]
  /\ cache' = [cache EXCEPT ![k] = IF @ = None THEN disk[k] ELSE @]
  /\ UNCHANGED <<disk, pinned>>

Modify(p, k, v) ==
  /\ holder[k] = p
  /\ cache' = [cache EXCEPT ![k] = v]
  /\ UNCHANGED <<disk, holder, pinned>>

\* The write takes place at some moment of bwrite().
Write(p, k) ==
  /\ holder[k] = p
  /\ disk' = [disk EXCEPT ![k] = cache[k]]
  /\ UNCHANGED <<cache, holder, pinned>>

Pin(p, k) ==
  /\ holder[k] = p
  /\ pinned' = pinned \cup {k}
  /\ UNCHANGED <<disk, cache, holder>>

Unpin(p, k) ==
  /\ holder[k] = p
  /\ pinned' = pinned \ {k}
  /\ UNCHANGED <<disk, cache, holder>>

Release(p, k) ==
  /\ holder[k] = p
  /\ holder' = [holder EXCEPT ![k] = None]
  /\ UNCHANGED <<disk, cache, pinned>>

Evict(k) ==
  /\ holder[k] = None /\ k \notin pinned
  /\ cache' = [cache EXCEPT ![k] = None]
  /\ UNCHANGED <<disk, holder, pinned>>

BNext ==
  \E k \in Blocks :
    \/ Evict(k)
    \/ \E p \in Procs : \/ Get(p, k) \/ Write(p, k) \/ Pin(p, k) \/ Unpin(p, k)
                        \/ Release(p, k) \/ \E v \in Vals : Modify(p, k, v)

\* (Steps that change nothing are left to the stuttering part.)
BSpec == BInit /\ [][bvars' # bvars /\ BNext]_bvars
=============================================================================
