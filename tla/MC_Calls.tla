------------------------------ MODULE MC_Calls ------------------------------
(***************************************************************************)
(* Three families of system calls: processes and kernel mutexes, message   *)
(* queues, and user memory with its shared segments.  The modules share no *)
(* state (what fork, exec, exit and wait do to memory is in Shm, what they *)
(* do to the process table in Proc), so each family is exercised with the  *)
(* others at rest.                                                         *)
(***************************************************************************)
EXTENDS KMutex, MsgQueue, Shm, TLC

VARIABLES family,  \* the calls that are made
          overrun  \* a heap that covered a segment has been given back

MCInit ==
  /\ MInit /\ msginit /\ ShmInit
  /\ family \in {"processes", "messages", "memory"}
  /\ overrun = FALSE

MCNext ==
  /\ \/ /\ family = "processes" /\ MNext
        /\ UNCHANGED <<msgvars, shmvars, overrun>>
     \/ /\ family = "messages" /\ MsgNext
        /\ UNCHANGED <<mvars, shmvars, overrun>>
     \/ /\ family = "memory" /\ ShmNext
        /\ overrun' = (overrun \/ \E p \in live : Overrun(p))
        /\ UNCHANGED <<mvars, msgvars>>
  /\ UNCHANGED family

MCSpec == MCInit /\ [][MCNext]_<<mvars, msgvars, shmvars, family, overrun>>

\* Lengths at both ends of the range sendmsg accepts.
MCLens == {-1, 0, 1, 2}
\* The run does not follow memory further once it is overrun.
NotOverrun == ~overrun
MCSymmetry == Permutations(SegKeys) \cup Permutations(Keys)

-----------------------------------------------------------------------------
(* Properties *)

\* Until memory is overrun, AttachmentsAreReal: through fork, exec, exit, the
\* freeing of processes, sbrk, page faults, shmget, shmat and shmdt, also with
\* heaps that cover a segment.
AttachmentsHold == overrun \/ AttachmentsAreReal

\* Until memory is overrun, PagesAreAccounted: no call loses a page or frees
\* one that is in use.
PagesHold == overrun \/ PagesAreAccounted
=============================================================================
