------------------------------ MODULE MC_Proc -------------------------------
(***************************************************************************)
(* The process table with a history variable that remembers which kills    *)
(* are still owed their effect.                                            *)
(***************************************************************************)
EXTENDS Proc

VARIABLE owed \* the slots killed and not frozen since, see Killed

\* Processes that this step kills from outside.  A process that faults ends
\* itself, and one that has looked at p->killed in kwait() and is about to
\* sleep notices the kill only when a child exits.
Killed ==
  {s \in killed' \ killed :
     /\ state[s] \notin {"UNUSED", "USED"}
     /\ pc[s] # "wait_sleep"
     /\ ~(pc[s] = "user" /\ pc'[s] = "exit")}

\* A freeze that follows the kill takes effect, and so does the next freeing
\* of the slot.
MCInit == Init /\ owed = {}
MCNext == Next /\ owed' = {s \in owed \cap killed' : s \notin frozen' \ frozen} \cup Killed

MCSpec == MCInit /\ [][MCNext]_<<vars, owed>> /\ Fairness

-----------------------------------------------------------------------------
(* Properties *)

\* A killed process ends, also one that was frozen or asleep in wait when it
\* was killed (README: "The kill path also clears freeze state so killed
\* processes are not stuck indefinitely").  The two exceptions are narrow: it
\* is frozen after the kill, or the kill falls between the look of kwait() at
\* p->killed and its sleep.
KilledExits ==
  \A s \in Procs :
    s \in owed ~> state[s] \in {"ZOMBIE", "UNUSED"} \/ s \notin owed \/ panicked
=============================================================================
