----------------------------- MODULE ProcProofs -----------------------------
(***************************************************************************)
(* Proofs about the process table and the kernel mutexes, for any number   *)
(* of slots, cores, pids and mutexes.                                      *)
(***************************************************************************)
EXTENDS KMutex, TLAPS

\* The inductive invariant.
ProcInv ==
  /\ TypeOK
  /\ PidsNameProcesses
  /\ UsedIsBeingForked
  /\ ParentIsAlive
  /\ NoMissedExit
  /\ WaitLockHeldRunning
  /\ UnusedIsThawed
  /\ InitHasItsShell
  /\ Bookkeeping

-----------------------------------------------------------------------------

\* Slots are positive numbers and init has one.
LEMMA SlotFacts ==
  /\ InitProc \in Procs
  /\ 0 \notin Procs
  /\ \A n : n \in 0..NPROC <=> n = 0 \/ n \in Procs
  /\ Procs \subseteq Nat
  BY ProcAssumption DEF Procs, InitProc

\* Every step of the kernel keeps the variables within their types.
LEMMA TypeStep == ProcInv /\ [Next]_vars => TypeOK'
  <1> SUFFICES ASSUME TypeOK, Bookkeeping, [Next]_vars PROVE TypeOK'
    BY Zenon DEF ProcInv
  <1> USE ProcAssumption, SlotFacts DEF TypeOK, States, Labels, table, locals
  <1>0. CASE UNCHANGED vars
    BY <1>0, Zenon DEF vars
  <1>1. CASE kexit_panic
    <2>1. panicked' \in BOOLEAN
      BY <1>1, Zenon DEF kexit_panic
    <2>2. QED
      BY SMTT(40), <1>1, <2>1 DEF kexit_panic
  <1>2. ASSUME NEW p \in Procs, ProcNext(p) PROVE TypeOK'
    <2>1. CASE scheduler(p)
      BY <2>1, Zenon DEF scheduler
    <2>2. CASE yield(p)
      BY <2>2, Zenon DEF yield
    <2>3. CASE usertrap(p) \/ fault(p) \/ sysreturn(p) \/ sys_exit(p)
      BY <2>3, Zenon DEF usertrap, fault, sysreturn, sys_exit, Goto
    <2>4. ASSUME NEW n \in 1..MaxForkn, sys_forkn(p, n) PROVE TypeOK'
      BY <2>4 DEF sys_forkn, Goto
    <2>5. ASSUME NEW t \in TargetPids \cup {0}, sys_wait(p, t) PROVE TypeOK'
      BY <2>5 DEF sys_wait, Goto
    <2>6. ASSUME NEW t \in TargetPids, kkill(p, t) \/ kfreeze(p, t) \/ kthaw(p, t)
          PROVE TypeOK'
      <3>1. CASE kkill(p, t)
        BY <3>1, Zenon DEF kkill, SignalReturns, Goto
      <3>2. CASE kfreeze(p, t)
        BY <3>2, Zenon DEF kfreeze, SignalReturns, Goto
      <3>3. CASE kthaw(p, t)
        BY <3>3, Zenon DEF kthaw, SignalReturns, Goto
      <3>4. QED
        BY <2>6, <3>1, <3>2, <3>3, Zenon
    <2>7. ASSUME NEW s \in Procs, allocproc(p, s) PROVE TypeOK'
      BY <2>7 DEF allocproc, Goto
    <2>8. ASSUME NEW s \in Procs, allocproc_nomem(p, s) PROVE TypeOK'
      BY <2>8 DEF allocproc_nomem, ForkFails, freeproc, Goto
    <2>9. CASE allocproc_full(p)
      BY <2>9 DEF allocproc_full, ForkFails, Goto
    <2>10. CASE kfork_link(p)
      BY <2>10, Zenon DEF kfork_link, Goto
    <2>11. CASE kfork_run(p)
      <3>1. np[p] \in Procs /\ todo[p] > 0
        BY <2>11, Zenon DEF kfork_run, Bookkeeping
      <3>2. todo[p] - 1 \in 0..MaxForkn
        BY <3>1
      <3>3. pc' \in [Procs -> Labels]
        BY <2>11, <3>1, Zenon DEF kfork_run
      <3>4. state' \in [Procs -> States] /\ np' \in [Procs -> 0..NPROC]
            /\ todo' \in [Procs -> 0..MaxForkn] /\ shpid' \in Nat
        BY <2>11, <3>1, <3>2, Zenon DEF kfork_run
      <3> QED
        BY SMTT(40), <2>11, <3>3, <3>4 DEF kfork_run
    <2>12. CASE kwait_reap(p)
      BY <2>12 DEF kwait_reap, Zombies, Children, freeproc, WaitReturns, Goto
    <2>13. CASE kwait_copyout_fails(p)
      BY <2>13, Zenon DEF kwait_copyout_fails, WaitReturns, Goto
    <2>17. CASE kwait_fails(p)
      BY <2>17, Zenon DEF kwait_fails, WaitReturns, Goto
    <2>14. CASE kwait_scan(p)
      BY <2>14, Zenon DEF kwait_scan, Goto
    <2>15. CASE kwait_sleep(p)
      BY <2>15, Zenon DEF kwait_sleep, Goto
    <2>16. CASE kexit(p)
      BY <2>16, Zenon DEF kexit, reparent, wakeup
    <2> QED
      BY Zenon, <1>2, <2>1, <2>2, <2>3, <2>4, <2>5, <2>6, <2>7, <2>8, <2>9, <2>10,
         <2>11, <2>12, <2>13, <2>14, <2>15, <2>16, <2>17
      DEF ProcNext, Syscall, KernelStep
  <1> QED
    BY <1>0, <1>1, <1>2, Zenon DEF Next

\* Most steps of a process are light: only p itself moves, to or from no place
\* where it holds wait_lock or a slot it is filling; others are woken at most.
Half == {"fork_link", "fork_run", "wait_sleep"}
Light(p) ==
  /\ UNCHANGED <<pid, parent, nextpid, wait_lock, np, shpid>>
  /\ \A q \in Procs : q \in frozen' => q \in frozen \/ state[q] # "UNUSED"
  /\ \A q \in Procs \ {p} :
       /\ pc'[q] = pc[q] /\ todo'[q] = todo[q] /\ target'[q] = target[q] /\ chan'[q] = chan[q]
       /\ state'[q] = state[q] \/ (state[q] = "SLEEPING" /\ state'[q] = "RUNNABLE")
  /\ state[p] \in {"RUNNING", "RUNNABLE"}
  /\ pc'[p] = pc[p] \/ (pc[p] \notin Half /\ pc'[p] \notin Half)
  /\ \/ state'[p] \in {"RUNNING", "RUNNABLE"}
     \/ state'[p] = "SLEEPING" /\ pc'[p] = "mlock" /\ chan'[p] \notin Procs
  /\ pc'[p] = "wait_sleep" => state'[p] = "RUNNING" /\ target'[p] = target[p]
  /\ pc'[p] \in {"fork", "fork_link", "fork_run"} => todo'[p] > 0
  /\ p = InitProc /\ pc'[p] \in {"wait", "wait_sleep"} => shpid # 0 /\ target'[p] = 0

\* A light step keeps the invariant.
LEMMA LightKeeps ==
  ASSUME ProcInv, TypeOK', NEW p \in Procs, Light(p) PROVE ProcInv'
  <1> USE SlotFacts
  <1>1. \A q \in Procs : /\ state'[q] = "UNUSED" <=> state[q] = "UNUSED"
                         /\ state'[q] = "USED" <=> state[q] = "USED"
                         /\ state'[q] = "ZOMBIE" <=> state[q] = "ZOMBIE"
    BY Zenon DEF Light
  <1>2. PidsNameProcesses'
    BY <1>1, Zenon DEF Light, ProcInv, PidsNameProcesses
  <1>3. UsedIsBeingForked'
    <2>1. \A s \in Procs : state'[s] = "USED" => \E q \in Procs : np'[q] = s
      <3>1. \A s \in Procs : state[s] = "USED" => \E q \in Procs : np[q] = s
        BY Zenon DEF ProcInv, UsedIsBeingForked
      <3>2. np' = np
        BY Zenon DEF Light
      <3> QED
        BY <1>1, <3>1, <3>2, Zenon
    <2>2. ASSUME NEW q \in Procs, np'[q] # 0
          PROVE  /\ pc'[q] \in {"fork_link", "fork_run"}
                 /\ state'[q] \in {"RUNNING", "RUNNABLE"}
                 /\ state'[np'[q]] = "USED"
                 /\ \A t \in Procs : np'[t] = np'[q] => t = q
      <3>1. /\ np' = np /\ pc[q] \in {"fork_link", "fork_run"} /\ state[q] \in {"RUNNING", "RUNNABLE"}
            /\ state[np[q]] = "USED" /\ np[q] \in Procs
            /\ \A t \in Procs : np[t] = np[q] => t = q
        BY <2>2, Zenon DEF Light, ProcInv, UsedIsBeingForked, TypeOK
      <3>2. pc'[q] = pc[q]
        BY <3>1, Zenon DEF Light, Half
      <3>3. state'[q] \in {"RUNNING", "RUNNABLE"}
        BY <3>1, <3>2, Zenon DEF Light
      <3> QED
        BY <1>1, <3>1, <3>2, <3>3, Zenon
    <2> QED
      BY <2>1, <2>2, Zenon DEF UsedIsBeingForked
  <1>4. ParentIsAlive'
    <2> SUFFICES ASSUME NEW s \in Procs \ {InitProc}, state'[s] # "UNUSED"
                 PROVE  \/ parent'[s] # 0 /\ state'[parent'[s]] \notin {"UNUSED", "ZOMBIE"}
                        \/ \E q \in Procs : np'[q] = s /\ pc'[q] = "fork_link"
      BY Zenon DEF ParentIsAlive
    <2>1. parent' = parent /\ np' = np /\ state[s] # "UNUSED"
      BY <1>1, Zenon DEF Light
    <2>2. CASE parent[s] # 0 /\ state[parent[s]] \notin {"UNUSED", "ZOMBIE"}
      <3>1. parent[s] \in Procs
        BY <2>2, Zenon DEF ProcInv, TypeOK
      <3>2. QED
        BY <1>1, <2>1, <2>2, <3>1, Zenon
    <2>3. ASSUME NEW q \in Procs, np[q] = s, pc[q] = "fork_link"
          PROVE  np'[q] = s /\ pc'[q] = "fork_link"
      BY <2>1, <2>3, Zenon DEF Light, Half
    <2>4. \/ parent[s] # 0 /\ state[parent[s]] \notin {"UNUSED", "ZOMBIE"}
          \/ \E q \in Procs : np[q] = s /\ pc[q] = "fork_link"
      BY <2>1, Zenon DEF ProcInv, ParentIsAlive
    <2> QED
      BY <2>2, <2>3, <2>4, Zenon
  <1>5. \A q \in Procs : target'[q] = target[q] => Zombies(q)' = Zombies(q)
    BY <1>1, Zenon DEF Light, Zombies, Children
  <1>6. NoMissedExit'
    <2> SUFFICES ASSUME NEW q \in Procs, state'[q] = "SLEEPING", pc'[q] = "wait"
                 PROVE  Zombies(q)' = {}
      BY Zenon DEF NoMissedExit
    <2>1. q # p /\ state[q] = "SLEEPING" /\ pc[q] = "wait" /\ target'[q] = target[q]
      BY Zenon DEF Light
    <2>2. QED
      BY <1>5, <2>1, Zenon DEF ProcInv, NoMissedExit
  <1>7. WaitLockHeldRunning'
    <2>1. \A q \in Procs : pc'[q] = "wait_sleep" <=> pc[q] = "wait_sleep"
      BY Zenon DEF Light, Half
    <2>2. \A q \in Procs : pc[q] = "wait_sleep" /\ state[q] = "RUNNING" => state'[q] = "RUNNING"
      BY <2>1, Zenon DEF Light
    <2>3. QED
      BY <2>1, <2>2, Zenon DEF Light, ProcInv, WaitLockHeldRunning
  <1>8. UnusedIsThawed'
    BY <1>1, Zenon DEF Light, ProcInv, UnusedIsThawed
  <1>9. InitHasItsShell'
    <2>1. shpid' # 0 => \E s \in Procs : pid'[s] = shpid' /\ parent'[s] = InitProc
      BY Zenon DEF Light, ProcInv, InitHasItsShell
    <2>2. ASSUME pc'[InitProc] \in {"wait", "wait_sleep"}
          PROVE  shpid' # 0 /\ target'[InitProc] = 0
      BY <2>2, Zenon DEF Light, ProcInv, InitHasItsShell
    <2>3. QED
      BY <2>1, <2>2, Zenon DEF InitHasItsShell, Children
  <1>10. Bookkeeping'
    <2>1. state'[InitProc] \notin {"UNUSED", "USED", "ZOMBIE"}
      BY <1>1, Zenon DEF ProcInv, Bookkeeping
    <2>2. ASSUME NEW q \in Procs
          PROVE  /\ state'[q] = "UNUSED" => parent'[q] = 0
                 /\ state'[q] \in {"UNUSED", "USED", "ZOMBIE"} => pc'[q] \in {"user", "exit"}
                 /\ state'[q] = "SLEEPING" => \/ pc'[q] = "wait" /\ chan'[q] = q
                                              \/ pc'[q] = "mlock" /\ chan'[q] \notin Procs
      <3>1. state'[q] \in {"UNUSED", "USED", "ZOMBIE"} => q # p
        BY Zenon DEF Light
      <3>2. /\ state'[q] = "UNUSED" => parent'[q] = 0
            /\ state'[q] \in {"UNUSED", "USED", "ZOMBIE"} => pc'[q] \in {"user", "exit"}
        BY <1>1, <3>1, Zenon DEF Light, ProcInv, Bookkeeping
      <3>3. state'[q] = "SLEEPING" /\ q # p =>
              state[q] = "SLEEPING" /\ pc'[q] = pc[q] /\ chan'[q] = chan[q]
        BY Zenon DEF Light
      <3>4. state'[q] = "SLEEPING" /\ q = p => pc'[q] = "mlock" /\ chan'[q] \notin Procs
        BY Zenon DEF Light
      <3>5. state[q] = "SLEEPING" => \/ pc[q] = "wait" /\ chan[q] = q
                                     \/ pc[q] = "mlock" /\ chan[q] \notin Procs
        BY Zenon DEF ProcInv, Bookkeeping
      <3> QED
        BY <3>2, <3>3, <3>4, <3>5, Zenon
    <2>3. ASSUME NEW q \in Procs
          PROVE  /\ pc'[q] \in {"fork", "fork_link", "fork_run"} => todo'[q] > 0
                 /\ np'[q] # 0 <=> pc'[q] \in {"fork_link", "fork_run"}
                 /\ pc'[q] = "fork_link" => parent'[np'[q]] = 0
                 /\ pc'[q] = "fork_run" => parent'[np'[q]] = q
      <3>1. np' = np /\ parent' = parent
            /\ (pc'[q] \in {"fork_link", "fork_run"} <=> pc[q] \in {"fork_link", "fork_run"})
            /\ (pc'[q] \in {"fork_link", "fork_run"} => pc'[q] = pc[q])
        BY Zenon DEF Light, Half
      <3>2. pc'[q] \in {"fork", "fork_link", "fork_run"} => todo'[q] > 0
        BY Zenon DEF Light, ProcInv, Bookkeeping
      <3>3. /\ np[q] # 0 <=> pc[q] \in {"fork_link", "fork_run"}
            /\ pc[q] = "fork_link" => parent[np[q]] = 0
            /\ pc[q] = "fork_run" => parent[np[q]] = q
        BY Zenon DEF ProcInv, Bookkeeping
      <3> QED
        BY <3>1, <3>2, <3>3, Zenon
    <2>4. ASSUME NEW q \in Procs, pc'[q] = "wait_sleep" PROVE Zombies(q)' = {}
      <3>1. pc[q] = "wait_sleep" /\ target'[q] = target[q]
        BY <2>4, Zenon DEF Light, Half
      <3>2. QED
        BY <1>5, <3>1, Zenon DEF ProcInv, Bookkeeping
    <2> QED
      BY <2>1, <2>2, <2>3, <2>4, Zenon DEF Bookkeeping
  <1> QED
    BY <1>2, <1>3, <1>4, <1>6, <1>7, <1>8, <1>9, <1>10, Zenon DEF ProcInv

\* Every step of the kernel keeps the inductive invariant.
LEMMA InvStep == ProcInv /\ [Next]_vars => ProcInv'
  <1> SUFFICES ASSUME ProcInv, [Next]_vars PROVE ProcInv'
    BY Zenon
  <1> USE SlotFacts DEF table, locals, Running, Zombies, Children
  <1>t. TypeOK /\ TypeOK'
    BY TypeStep, Zenon DEF ProcInv
  <1>0. CASE UNCHANGED vars
    BY <1>0, <1>t DEF vars, ProcInv, PidsNameProcesses, UsedIsBeingForked, ParentIsAlive, NoMissedExit, WaitLockHeldRunning, UnusedIsThawed,
         InitHasItsShell, Bookkeeping
  <1>1. CASE kexit_panic
    BY <1>1, <1>t DEF kexit_panic, ProcInv, PidsNameProcesses, UsedIsBeingForked, ParentIsAlive, NoMissedExit, WaitLockHeldRunning, UnusedIsThawed,
         InitHasItsShell, Bookkeeping
  <1>2. ASSUME NEW p \in Procs, ProcNext(p) PROVE ProcInv'
    <2>1. CASE scheduler(p)
      <3>1. Light(p)
        BY <2>1, <1>t, Zenon DEF scheduler, Light, Half, Goto, TypeOK, ProcInv, WaitLockHeldRunning, Bookkeeping, InitHasItsShell
      <3>2. QED
        BY <1>t, <3>1, LightKeeps, Zenon
    <2>2. CASE yield(p)
      <3>1. Light(p)
        BY <2>2, <1>t, Zenon DEF yield, Light, Half, Goto, TypeOK, ProcInv, WaitLockHeldRunning, Bookkeeping, InitHasItsShell
      <3>2. QED
        BY <1>t, <3>1, LightKeeps, Zenon
    <2>3. CASE usertrap(p)
      <3>1. Light(p)
        BY <2>3, <1>t, Zenon DEF usertrap, Light, Half, Goto, TypeOK
      <3>2. QED
        BY <1>t, <3>1, LightKeeps, Zenon
    <2>4. CASE fault(p)
      <3>1. Light(p)
        BY <2>4, <1>t, Zenon DEF fault, Light, Half, Goto, TypeOK
      <3>2. QED
        BY <1>t, <3>1, LightKeeps, Zenon
    <2>5. CASE sysreturn(p)
      <3>1. Light(p)
        BY <2>5, <1>t, Zenon DEF sysreturn, Light, Half, Goto, TypeOK
      <3>2. QED
        BY <1>t, <3>1, LightKeeps, Zenon
    <2>6. CASE sys_exit(p)
      <3>1. Light(p)
        BY <2>6, <1>t, Zenon DEF sys_exit, Light, Half, Goto, TypeOK
      <3>2. QED
        BY <1>t, <3>1, LightKeeps, Zenon
    <2>7. ASSUME NEW n \in 1..MaxForkn, sys_forkn(p, n) PROVE ProcInv'
      <3>1. n > 0
        OBVIOUS
      <3>2. Light(p)
        BY <2>7, <1>t, <3>1, Zenon DEF sys_forkn, Light, Half, Goto, TypeOK
      <3>3. QED
        BY <1>t, <3>2, LightKeeps, Zenon
    <2>8. ASSUME NEW t \in TargetPids \cup {0}, sys_wait(p, t) PROVE ProcInv'
      <3>1. Light(p)
        BY <2>8, <1>t, Zenon DEF sys_wait, Light, Half, Goto, TypeOK
      <3>2. QED
        BY <1>t, <3>1, LightKeeps, Zenon
    <2>9. ASSUME NEW t \in TargetPids, kkill(p, t) PROVE ProcInv'
      <3>1. Light(p)
        <4>1. /\ pc[p] = "kernel" /\ state[p] = "RUNNING" /\ p # InitProc
              /\ pc' = [pc EXCEPT ![p] = "user"] /\ frozen' \subseteq frozen
              /\ UNCHANGED <<pid, parent, chan, nextpid, wait_lock, np, todo, target, shpid>>
          BY <2>9, Zenon DEF kkill, SignalReturns, Goto
        <4>2. state'[p] = "RUNNING" /\ \A q \in Procs :
                state'[q] = state[q] \/ (state[q] = "SLEEPING" /\ state'[q] = "RUNNABLE")
          <5>1. PICK s \in Procs : state' = IF state[s] = "SLEEPING"
                                             THEN [state EXCEPT ![s] = "RUNNABLE"] ELSE state
            BY <2>9, Zenon DEF kkill
          <5>2. \A q \in Procs : q # s => state'[q] = state[q]
            BY <5>1, <1>t, Zenon DEF TypeOK
          <5>3. state'[s] = state[s] \/ (state[s] = "SLEEPING" /\ state'[s] = "RUNNABLE")
            BY <5>1, <1>t, Zenon DEF TypeOK
          <5> QED
            BY <4>1, <5>2, <5>3, Zenon
        <4> QED
          BY <4>1, <4>2, <1>t, Zenon DEF Light, Half, TypeOK
      <3>2. QED
        BY <1>t, <3>1, LightKeeps, Zenon
    <2>10. ASSUME NEW t \in TargetPids, kfreeze(p, t) PROVE ProcInv'
      <3>1. Light(p)
        BY <2>10, <1>t, Zenon DEF kfreeze, SignalReturns, Light, Half, Goto, TypeOK
      <3>2. QED
        BY <1>t, <3>1, LightKeeps, Zenon
    <2>11. ASSUME NEW t \in TargetPids, kthaw(p, t) PROVE ProcInv'
      <3>1. Light(p)
        BY <2>11, <1>t, Zenon DEF kthaw, SignalReturns, Light, Half, Goto, TypeOK
      <3>2. QED
        BY <1>t, <3>1, LightKeeps, Zenon
    <2>12. ASSUME NEW s \in Procs, allocproc(p, s) PROVE ProcInv'
      <3>1. /\ state[p] = "RUNNING" /\ pc[p] = "fork" /\ state[s] = "UNUSED" /\ s # p
            /\ state'[s] = "USED" /\ pid'[s] = nextpid /\ nextpid' = nextpid + 1
            /\ frozen' \subseteq frozen
            /\ np'[p] = s /\ pc'[p] = "fork_link"
            /\ \A q \in Procs \ {s} : state'[q] = state[q] /\ pid'[q] = pid[q]
            /\ \A q \in Procs \ {p} : np'[q] = np[q] /\ pc'[q] = pc[q]
            /\ UNCHANGED <<parent, chan, wait_lock, todo, target, shpid>>
        BY <2>12, <1>t, Zenon DEF allocproc, Goto, TypeOK
      <3>2. (PidsNameProcesses /\ UnusedIsThawed)'
        <4>1. /\ nextpid \in Nat /\ nextpid # 0
              /\ \A q \in Procs : pid[q] \in Nat /\ pid[q] < nextpid /\ pid[q] # nextpid
          BY <1>t DEF ProcInv, TypeOK, PidsNameProcesses
        <4>2. \A q \in Procs : pid'[q] < nextpid'
          BY <3>1, <4>1
        <4>3. \A q \in Procs : pid'[q] = 0 <=> state'[q] = "UNUSED"
          BY <3>1, <4>1 DEF ProcInv, PidsNameProcesses
        <4>4. \A q, t \in Procs : pid'[q] = pid'[t] /\ pid'[q] # 0 => q = t
          BY <3>1, <4>1 DEF ProcInv, PidsNameProcesses
        <4>5. UnusedIsThawed'
          BY <3>1, Zenon DEF ProcInv, UnusedIsThawed
        <4> QED
          BY <4>2, <4>3, <4>4, <4>5, Zenon DEF PidsNameProcesses
      <3>3. WaitLockHeldRunning'
        BY <3>1, <1>t DEF ProcInv, TypeOK, WaitLockHeldRunning
      <3>4. UsedIsBeingForked'
        <4>1. np[p] = 0 /\ \A q \in Procs : np[q] # s
          BY <3>1 DEF ProcInv, UsedIsBeingForked, Bookkeeping
        <4>2. ASSUME NEW t \in Procs, state'[t] = "USED" PROVE \E q \in Procs : np'[q] = t
          BY <3>1, <4>1, <4>2 DEF ProcInv, UsedIsBeingForked
        <4>3. ASSUME NEW q \in Procs, np'[q] # 0
              PROVE  /\ pc'[q] \in {"fork_link", "fork_run"}
                     /\ state'[q] \in {"RUNNING", "RUNNABLE"}
                     /\ state'[np'[q]] = "USED"
                     /\ \A t \in Procs : np'[t] = np'[q] => t = q
          BY <3>1, <4>1, <4>3, <1>t DEF ProcInv, TypeOK, UsedIsBeingForked
        <4> QED
          BY <4>2, <4>3, Zenon DEF UsedIsBeingForked
      <3>5. ParentIsAlive'
        BY <3>1, <1>t DEF ProcInv, TypeOK, ParentIsAlive, Bookkeeping
      <3>6. NoMissedExit'
        BY <3>1, <1>t DEF ProcInv, TypeOK, NoMissedExit, Bookkeeping
      <3>7. InitHasItsShell'
        BY <3>1, <1>t DEF ProcInv, TypeOK, InitHasItsShell, PidsNameProcesses, Bookkeeping
      <3>8. Bookkeeping'
        BY <3>1, <1>t DEF ProcInv, TypeOK, Bookkeeping
      <3> QED
        BY <3>2, <3>3, <3>4, <3>5, <3>6, <3>7, <3>8, <1>t, Zenon DEF ProcInv
    <2>13. ASSUME NEW s \in Procs, allocproc_nomem(p, s) PROVE ProcInv'
      <3>1. /\ state[p] = "RUNNING" /\ pc[p] = "fork" /\ state[s] = "UNUSED" /\ s # p
            /\ pid[s] = 0 /\ parent[s] = 0 /\ nextpid' = nextpid + 1
            /\ frozen' \subseteq frozen /\ UNCHANGED <<state, pid, parent>>
            /\ pc'[p] \in {"exit", "user"}
            /\ \A q \in Procs \ {s} : chan'[q] = chan[q]
            /\ \A q \in Procs \ {p} : pc'[q] = pc[q] /\ todo'[q] = todo[q]
            /\ UNCHANGED <<wait_lock, np, target, shpid>>
        <4>1. state[s] = "UNUSED" /\ state[p] = "RUNNING" /\ pid[s] = 0 /\ parent[s] = 0
          BY <2>13, Zenon DEF allocproc_nomem, ProcInv, PidsNameProcesses, Bookkeeping
        <4>2. UNCHANGED <<state, pid, parent>>
          BY <2>13, <4>1, <1>t DEF allocproc_nomem, freeproc, TypeOK
        <4>3. /\ pc[p] = "fork" /\ nextpid' = nextpid + 1 /\ frozen' \subseteq frozen
              /\ \A q \in Procs \ {s} : chan'[q] = chan[q]
          BY <2>13, <1>t, Zenon DEF allocproc_nomem, freeproc, TypeOK
        <4>4. /\ pc'[p] \in {"exit", "user"}
              /\ \A q \in Procs \ {p} : pc'[q] = pc[q] /\ todo'[q] = todo[q]
              /\ UNCHANGED <<wait_lock, np, target, shpid>>
          BY <2>13, <1>t, Zenon DEF allocproc_nomem, ForkFails, Goto, TypeOK
        <4>5. QED
          BY <4>1, <4>2, <4>3, <4>4, Zenon
      <3>2. (PidsNameProcesses /\ UnusedIsThawed)'
        BY <3>1, <1>t DEF ProcInv, TypeOK, PidsNameProcesses, UnusedIsThawed
      <3>3. WaitLockHeldRunning'
        BY <3>1, <1>t DEF ProcInv, TypeOK, WaitLockHeldRunning
      <3>4. UsedIsBeingForked'
        BY <3>1, <1>t DEF ProcInv, TypeOK, UsedIsBeingForked
      <3>5. ParentIsAlive'
        BY <3>1, <1>t DEF ProcInv, TypeOK, ParentIsAlive
      <3>6. NoMissedExit'
        BY <3>1, <1>t DEF ProcInv, TypeOK, NoMissedExit
      <3>7. InitHasItsShell'
        BY <3>1, <1>t DEF ProcInv, TypeOK, InitHasItsShell
      <3>8. Bookkeeping'
        BY <3>1, <1>t DEF ProcInv, TypeOK, Bookkeeping
      <3> QED
        BY <3>2, <3>3, <3>4, <3>5, <3>6, <3>7, <3>8, <1>t, Zenon DEF ProcInv
    <2>14. CASE allocproc_full(p)
      <3>1. Light(p)
        BY <2>14, <1>t, Zenon DEF allocproc_full, ForkFails, Light, Half, Goto, TypeOK
      <3>2. QED
        BY <1>t, <3>1, LightKeeps, Zenon
    <2>15. CASE kfork_link(p)
      <3>1. /\ state[p] = "RUNNING" /\ pc[p] = "fork_link" /\ np[p] \in Procs /\ state[np[p]] = "USED"
            /\ \A q \in Procs : np[q] = np[p] => q = p
            /\ UNCHANGED <<state, pid, chan, killed, frozen, nextpid, wait_lock, np, todo, target, shpid>>
            /\ parent[np[p]] = 0 /\ parent' = [parent EXCEPT ![np[p]] = p]
            /\ pc'[p] = "fork_run" /\ \A q \in Procs \ {p} : pc'[q] = pc[q]
        <4>1. state[p] = "RUNNING" /\ pc[p] = "fork_link"
          BY <2>15, Zenon DEF kfork_link
        <4>2. np[p] # 0 /\ parent[np[p]] = 0
          BY <4>1, Zenon DEF ProcInv, Bookkeeping
        <4>3. /\ np[p] \in Procs /\ state[np[p]] = "USED"
              /\ \A q \in Procs : np[q] = np[p] => q = p
          BY <4>2, <1>t, Zenon DEF ProcInv, UsedIsBeingForked, TypeOK
        <4>4. QED
          BY <2>15, <4>1, <4>2, <4>3, <1>t, Zenon DEF kfork_link, Goto, TypeOK
      <3>2. (PidsNameProcesses /\ UnusedIsThawed /\ WaitLockHeldRunning)'
        BY <3>1, <1>t DEF ProcInv, TypeOK, PidsNameProcesses, UnusedIsThawed, WaitLockHeldRunning
      <3>3. UsedIsBeingForked'
        BY <3>1, <1>t DEF ProcInv, TypeOK, UsedIsBeingForked
      <3>4. ParentIsAlive'
        BY <3>1, <1>t DEF ProcInv, TypeOK, ParentIsAlive
      <3>5. NoMissedExit'
        BY <3>1, <1>t DEF ProcInv, TypeOK, NoMissedExit
      <3>6. InitHasItsShell'
        BY <3>1, <1>t DEF ProcInv, TypeOK, InitHasItsShell, Bookkeeping
      <3>7. Bookkeeping'
        BY <3>1, <1>t DEF ProcInv, TypeOK, Bookkeeping, UsedIsBeingForked
      <3> QED
        BY <3>2, <3>3, <3>4, <3>5, <3>6, <3>7, <1>t, Zenon DEF ProcInv
    <2>16. CASE kfork_run(p)
      <3> DEFINE c == np[p]
      <3>1. /\ c \in Procs /\ c # p /\ state[c] = "USED" /\ parent[c] = p
            /\ \A q \in Procs : np[q] = c => q = p
        BY <2>16, <1>t, Zenon DEF kfork_run, ProcInv, TypeOK, UsedIsBeingForked, Bookkeeping
      <3>2. /\ state' = [state EXCEPT ![c] = "RUNNABLE"]
            /\ np' = [np EXCEPT ![p] = 0]
            /\ \A q \in Procs \ {p, c} : pc'[q] = pc[q]
            /\ pc'[c] = "user" /\ pc'[p] \in {"fork", "user"}
            /\ pc'[p] = "fork" => todo'[p] > 0
            /\ \A q \in Procs \ {p} : todo'[q] = todo[q]
            /\ UNCHANGED <<pid, parent, chan, killed, frozen, nextpid, wait_lock, target>>
        BY <2>16, <3>1, <1>t DEF kfork_run, TypeOK
      <3>3. pc[p] = "fork_run" /\ state[p] = "RUNNING"
        BY <2>16, Zenon DEF kfork_run
      <3> HIDE DEF c
      <3>4. (PidsNameProcesses /\ NoMissedExit /\ UnusedIsThawed)'
        BY <3>1, <3>2, <3>3, <1>t
        DEF ProcInv, TypeOK, PidsNameProcesses, NoMissedExit, UnusedIsThawed
      <3>5. UsedIsBeingForked'
        BY <3>1, <3>2, <3>3, <1>t DEF ProcInv, TypeOK, UsedIsBeingForked, c
      <3>10. pc[c] \in {"user", "exit"} /\ p # 0
        BY <3>1, Zenon DEF ProcInv, Bookkeeping
      <3>6. ParentIsAlive'
        BY <3>1, <3>2, <3>3, <3>10, <1>t DEF ProcInv, TypeOK, ParentIsAlive
      <3>9. WaitLockHeldRunning'
        BY <3>1, <3>2, <3>3, <3>10, <1>t DEF ProcInv, TypeOK, WaitLockHeldRunning
      <3>7. Bookkeeping'
        BY <3>1, <3>2, <3>3, <1>t DEF ProcInv, TypeOK, Bookkeeping
      <3>8. InitHasItsShell'
        BY SMTT(40), <2>16, <3>1, <3>2, <3>3, <1>t
           DEF kfork_run, ProcInv, TypeOK, InitHasItsShell, c
      <3> QED
        BY <3>4, <3>5, <3>6, <3>7, <3>8, <3>9, <1>t, Zenon DEF ProcInv
    <2>17. CASE kwait_reap(p)
      <3>a. PICK c \in Procs :
               /\ c \in Zombies(p) /\ freeproc(c)
               /\ shpid' = IF p = InitProc /\ pid[c] = shpid THEN 0 ELSE shpid
        BY <2>17, Zenon DEF kwait_reap
      <3>b. /\ state[p] = "RUNNING" /\ pc[p] = "wait" /\ wait_lock = 0
            /\ UNCHANGED <<nextpid, wait_lock, np, todo>>
            /\ pc'[p] = "user" /\ \A q \in Procs \ {p} : pc'[q] = pc[q] /\ target'[q] = target[q]
        BY <2>17, <1>t, Zenon DEF kwait_reap, WaitReturns, Goto, TypeOK
      <3>c. /\ c # p /\ state[c] = "ZOMBIE" /\ parent[c] = p /\ c # InitProc
            /\ pc[c] \in {"user", "exit"}
        BY <3>a, <3>b, Zenon DEF ProcInv, Bookkeeping
      <3>d. np[p] = 0 /\ np[c] = 0
        BY <3>b, <3>c, Zenon DEF ProcInv, Bookkeeping
      <3>e. /\ state'[c] = "UNUSED" /\ pid'[c] = 0 /\ parent'[c] = 0 /\ c \notin frozen'
            /\ frozen' \subseteq frozen
            /\ \A q \in Procs \ {c} : /\ state'[q] = state[q] /\ pid'[q] = pid[q]
                                      /\ parent'[q] = parent[q] /\ chan'[q] = chan[q]
        BY <3>a, <1>t, Zenon DEF freeproc, TypeOK
      <3>2. (PidsNameProcesses /\ UnusedIsThawed)'
        BY SMTT(40), <3>b, <3>e, <1>t DEF ProcInv, TypeOK, PidsNameProcesses, UnusedIsThawed
      <3>3. WaitLockHeldRunning'
        BY <3>b, <3>c, <3>d, <3>e, <1>t DEF ProcInv, TypeOK, WaitLockHeldRunning
      <3>4. UsedIsBeingForked'
        BY SMTT(40), <3>b, <3>c, <3>d, <3>e, <1>t DEF ProcInv, TypeOK, UsedIsBeingForked
      <3>5. ParentIsAlive'
        BY SMTT(40), <3>b, <3>c, <3>d, <3>e, <1>t DEF ProcInv, TypeOK, ParentIsAlive
      <3>6. NoMissedExit'
        BY SMTT(40), <3>b, <3>c, <3>d, <3>e, <1>t DEF ProcInv, TypeOK, NoMissedExit
      <3>7. InitHasItsShell'
        BY <3>a, <3>b, <3>c, <3>d, <3>e, <1>t DEF ProcInv, TypeOK, InitHasItsShell
      <3>8. Bookkeeping'
        BY SMTT(40), <3>b, <3>c, <3>d, <3>e, <1>t DEF ProcInv, TypeOK, Bookkeeping, UsedIsBeingForked, ParentIsAlive
      <3> QED
        BY <3>2, <3>3, <3>4, <3>5, <3>6, <3>7, <3>8, <1>t, Zenon DEF ProcInv
    <2>18. CASE kwait_copyout_fails(p)
      <3>1. Light(p)
        BY <2>18, <1>t, Zenon DEF kwait_copyout_fails, WaitReturns, Light, Half, Goto, TypeOK
      <3>2. QED
        BY <1>t, <3>1, LightKeeps, Zenon
    <2>19. CASE kwait_fails(p)
      <3>1. Light(p)
        BY <2>19, <1>t, Zenon DEF kwait_fails, WaitReturns, Light, Half, Goto, TypeOK
      <3>2. QED
        BY <1>t, <3>1, LightKeeps, Zenon
    <2>20. CASE kwait_scan(p)
      <3>1. /\ state[p] = "RUNNING" /\ pc[p] = "wait" /\ wait_lock = 0 /\ wait_lock' = p
            /\ Zombies(p) = {}
            /\ UNCHANGED <<state, pid, parent, chan, killed, frozen, nextpid, np, todo, target, shpid>>
            /\ pc'[p] = "wait_sleep" /\ \A q \in Procs \ {p} : pc'[q] = pc[q]
        BY <2>20, <1>t, Zenon DEF kwait_scan, Goto, TypeOK
      <3>2. (PidsNameProcesses /\ UnusedIsThawed /\ WaitLockHeldRunning)'
        BY <3>1, <1>t, Zenon
           DEF ProcInv, TypeOK, PidsNameProcesses, UnusedIsThawed, WaitLockHeldRunning
      <3>3. UsedIsBeingForked'
        BY <3>1, <1>t DEF ProcInv, TypeOK, UsedIsBeingForked
      <3>4. ParentIsAlive'
        BY <3>1, <1>t DEF ProcInv, TypeOK, ParentIsAlive
      <3>5. NoMissedExit'
        BY <3>1, <1>t, Zenon DEF ProcInv, TypeOK, NoMissedExit
      <3>6. InitHasItsShell'
        BY <3>1, <1>t, Zenon DEF ProcInv, TypeOK, InitHasItsShell
      <3>7. Bookkeeping'
        BY <3>1, <1>t DEF ProcInv, TypeOK, Bookkeeping
      <3> QED
        BY <3>2, <3>3, <3>4, <3>5, <3>6, <3>7, <1>t, Zenon DEF ProcInv
    <2>21. CASE kwait_sleep(p)
      <3>1. /\ state[p] = "RUNNING" /\ pc[p] = "wait_sleep" /\ wait_lock' = 0
            /\ UNCHANGED <<pid, parent, killed, frozen, nextpid, np, todo, target, shpid>>
            /\ state'[p] = "SLEEPING" /\ pc'[p] = "wait" /\ chan'[p] = p
            /\ \A q \in Procs \ {p} :
                 state'[q] = state[q] /\ pc'[q] = pc[q] /\ chan'[q] = chan[q]
        BY <2>21, <1>t, Zenon DEF kwait_sleep, Goto, TypeOK
      <3>2. (PidsNameProcesses /\ UnusedIsThawed /\ WaitLockHeldRunning)'
        BY <3>1, <1>t DEF ProcInv, TypeOK, PidsNameProcesses, UnusedIsThawed, WaitLockHeldRunning
      <3>3. UsedIsBeingForked'
        BY <3>1, <1>t DEF ProcInv, TypeOK, UsedIsBeingForked
      <3>4. ParentIsAlive'
        BY <3>1, <1>t DEF ProcInv, TypeOK, ParentIsAlive
      <3>5. NoMissedExit'
        BY SMTT(40), <3>1, <1>t DEF ProcInv, TypeOK, NoMissedExit, Bookkeeping
      <3>6. InitHasItsShell'
        BY <3>1, <1>t, Zenon DEF ProcInv, TypeOK, InitHasItsShell
      <3>7. Bookkeeping'
        BY <3>1, <1>t DEF ProcInv, TypeOK, Bookkeeping
      <3> QED
        BY <3>2, <3>3, <3>4, <3>5, <3>6, <3>7, <1>t, Zenon DEF ProcInv
    <2>22. CASE kexit(p)
      <3>1. /\ state[p] = "RUNNING" /\ pc[p] = "exit" /\ wait_lock = 0 /\ p # InitProc
            /\ UNCHANGED <<pid, chan, killed, frozen, nextpid, wait_lock, pc, np, todo, target>>
        BY <2>22, Zenon DEF kexit
      <3>2. /\ state'[p] = "ZOMBIE"
            /\ \A q \in Procs \ {p} :
                 state'[q] = state[q] \/ (state[q] = "SLEEPING" /\ state'[q] = "RUNNABLE")
            /\ \A q \in Procs \ {p} : state'[q] = "SLEEPING" =>
                 /\ chan[q] # parent[p]
                 /\ chan[q] = InitProc => \A c \in Procs : parent[c] # p
        BY <2>22, <1>t, Zenon DEF kexit, wakeup, TypeOK
      <3>3. \A c \in Procs : parent'[c] = IF parent[c] = p THEN InitProc ELSE parent[c]
        BY <2>22, Zenon DEF kexit, reparent
      <3>4. (PidsNameProcesses /\ UnusedIsThawed /\ WaitLockHeldRunning)'
        <4>1. \A q \in Procs : (state'[q] = "UNUSED" <=> state[q] = "UNUSED")
                              /\ (q # p /\ state[q] = "RUNNING" => state'[q] = "RUNNING")
          BY <3>1, <3>2, Zenon
        <4>2. QED
          BY <3>1, <4>1, <1>t, Zenon
          DEF ProcInv, PidsNameProcesses, UnusedIsThawed, WaitLockHeldRunning
      <3>5. UsedIsBeingForked'
        BY SMTT(40), <3>1, <3>2, <1>t DEF ProcInv, TypeOK, UsedIsBeingForked
      <3>6. ParentIsAlive'
        BY SMTT(40), <3>1, <3>2, <3>3, <1>t DEF ProcInv, TypeOK, ParentIsAlive, Bookkeeping
      <3>7. NoMissedExit'
        BY SMTT(40), <3>1, <3>2, <3>3, <1>t DEF ProcInv, TypeOK, NoMissedExit, Bookkeeping
      <3>8. Bookkeeping'
        BY SMTT(40), <3>1, <3>2, <3>3, <1>t
        DEF ProcInv, TypeOK, Bookkeeping, WaitLockHeldRunning, UsedIsBeingForked
      <3>9. InitHasItsShell'
        BY <2>22, <3>1, <3>3, <1>t, Zenon DEF kexit, ProcInv, TypeOK, InitHasItsShell
      <3> QED
        BY <3>4, <3>5, <3>6, <3>7, <3>8, <3>9, <1>t, Zenon DEF ProcInv
    <2> QED
      BY SMTT(40), <1>2, <2>1, <2>2, <2>3, <2>4, <2>5, <2>6, <2>7, <2>8, <2>9, <2>10, <2>11, <2>12, <2>13, <2>14, <2>15, <2>16, <2>17, <2>18, <2>19, <2>20, <2>21, <2>22
      DEF ProcNext, Syscall, KernelStep
  <1> QED
    BY <1>0, <1>1, <1>2, Zenon DEF Next

\* userinit() establishes it.
LEMMA InvInit == Init => ProcInv
  <1> SUFFICES ASSUME Init PROVE ProcInv
    BY Zenon
  <1> USE ProcAssumption, SlotFacts
  <1>1. TypeOK
    <2>1. state \in [Procs -> States] /\ pc \in [Procs -> Labels]
      BY Zenon DEF Init, States, Labels
    <2>2. pid \in [Procs -> Nat] /\ chan \in [Procs -> Nat] /\ target \in [Procs -> Nat]
      BY Zenon DEF Init
    <2>3. /\ parent \in [Procs -> 0..NPROC] /\ np \in [Procs -> 0..NPROC]
          /\ todo \in [Procs -> 0..MaxForkn]
      BY DEF Init
    <2>4. /\ killed \subseteq Procs /\ frozen \subseteq Procs /\ nextpid \in Nat
          /\ wait_lock \in 0..NPROC /\ shpid \in Nat /\ panicked \in BOOLEAN
      BY Zenon DEF Init
    <2> QED
      BY <2>1, <2>2, <2>3, <2>4, Zenon DEF TypeOK
  <1>2. PidsNameProcesses /\ UnusedIsThawed /\ WaitLockHeldRunning
    BY DEF Init, PidsNameProcesses, UnusedIsThawed, WaitLockHeldRunning
  <1>3. UsedIsBeingForked /\ ParentIsAlive
    BY Zenon DEF Init, UsedIsBeingForked, ParentIsAlive
  <1>4. NoMissedExit /\ InitHasItsShell /\ Bookkeeping
    BY Zenon DEF Init, NoMissedExit, InitHasItsShell, Bookkeeping
  <1> QED
    BY <1>1, <1>2, <1>3, <1>4, Zenon DEF ProcInv

-----------------------------------------------------------------------------
(* Kernel mutexes *)

\* The inductive invariant: a waiter sleeps on the address of an entry that
\* is locked.
MutexInv ==
  /\ MTypeOK
  /\ NoMissedUnlock
  /\ \A p \in Procs :
       state[p] = "SLEEPING" /\ pc[p] = "mlock" => chan[p] = Address(mid[p])

\* Slots are positive numbers, addresses of entries are other numbers, and
\* different entries have different addresses.
LEMMA AddressFacts ==
  /\ Procs \subseteq Nat /\ InitProc \in Procs
  /\ 0 \in Mutexes
  /\ \A i \in Mutexes : Address(i) \in Nat
  /\ \A i, j \in Mutexes : Address(i) = Address(j) => i = j
  BY ProcAssumption, KMutexAssumption DEF Procs, InitProc, Mutexes, Address

\* A step of the process table keeps the invariant: it makes nobody sleep in
\* mutex_lock and leaves the mutex table alone.
LEMMA ProcStepKeeps ==
  ASSUME MutexInv, Next, UNCHANGED <<kmutex_table, mid>> PROVE MutexInv'
  <1> USE ProcAssumption, AddressFacts
      DEF MutexInv, MTypeOK, NoMissedUnlock, States, Labels, table, locals,
          kmutex_table, Goto
  <1>1. CASE kexit_panic
    BY <1>1, Zenon DEF kexit_panic
  <1>2. ASSUME NEW p \in Procs, ProcNext(p) PROVE MutexInv'
    <2>1. CASE scheduler(p)
      BY <2>1, Zenon DEF scheduler
    <2>2. CASE yield(p)
      BY <2>2, Zenon DEF yield
    <2>3. CASE usertrap(p)
      BY <2>3, Zenon DEF usertrap
    <2>4. CASE fault(p)
      BY <2>4, Zenon DEF fault
    <2>5. CASE sysreturn(p)
      BY <2>5, Zenon DEF sysreturn
    <2>6. CASE sys_exit(p)
      BY <2>6, Zenon DEF sys_exit
    <2>7. CASE allocproc_full(p)
      BY <2>7, Zenon DEF allocproc_full, ForkFails
    <2>8. CASE kfork_link(p)
      BY <2>8, Zenon DEF kfork_link
    <2>9. CASE kfork_run(p)
      BY <2>9, Zenon DEF kfork_run
    <2>10. CASE kwait_reap(p)
      BY <2>10 DEF kwait_reap, WaitReturns, freeproc, Zombies, Children
    <2>11. CASE kwait_copyout_fails(p)
      BY <2>11, Zenon DEF kwait_copyout_fails, WaitReturns
    <2>12. CASE kwait_fails(p)
      BY <2>12, Zenon DEF kwait_fails, WaitReturns
    <2>13. CASE kwait_scan(p)
      BY <2>13, Zenon DEF kwait_scan
    <2>14. CASE kwait_sleep(p)
      BY <2>14, Zenon DEF kwait_sleep
    <2>15. CASE kexit(p)
      BY <2>15, Zenon DEF kexit, wakeup
    <2>16. ASSUME NEW s \in Procs, allocproc(p, s) PROVE MutexInv'
      BY <2>16 DEF allocproc
    <2>17. ASSUME NEW s \in Procs, allocproc_nomem(p, s) PROVE MutexInv'
      BY <2>17 DEF allocproc_nomem, ForkFails, freeproc
    <2>18. ASSUME NEW n \in 1..MaxForkn, sys_forkn(p, n) PROVE MutexInv'
      BY <2>18, Zenon DEF sys_forkn
    <2>19. ASSUME NEW t \in TargetPids \cup {0}, sys_wait(p, t) PROVE MutexInv'
      BY <2>19, Zenon DEF sys_wait
    <2>20. ASSUME NEW t \in TargetPids, kkill(p, t) PROVE MutexInv'
      BY <2>20 DEF kkill, SignalReturns
    <2>21. ASSUME NEW t \in TargetPids, kfreeze(p, t) \/ kthaw(p, t) PROVE MutexInv'
      BY <2>21 DEF kfreeze, kthaw, SignalReturns
    <2> QED
      BY <1>2, <2>1, <2>2, <2>3, <2>4, <2>5, <2>6, <2>7, <2>8, <2>9, <2>10, <2>11, <2>12, <2>13, <2>14, <2>15, <2>16, <2>17, <2>18, <2>19, <2>20, <2>21, Zenon
         DEF ProcNext, Syscall, KernelStep
  <1> QED
    BY <1>1, <1>2, Zenon DEF Next

\* Every step keeps the invariant.
LEMMA MutexStepKeeps == MutexInv /\ [MNext]_mvars => MutexInv'
  <1> SUFFICES ASSUME MutexInv, [MNext]_mvars PROVE MutexInv'
    BY Zenon
  <1> USE ProcAssumption, AddressFacts
      DEF MutexInv, MTypeOK, NoMissedUnlock, States, Labels, table, locals,
          kmutex_table, Goto
  <1>0. CASE UNCHANGED mvars
    BY <1>0, Zenon DEF mvars, vars
  <1>1. CASE Next /\ UNCHANGED <<kmutex_table, mid>>
    BY <1>1, ProcStepKeeps, Zenon
  <1>2. ASSUME NEW p \in Procs, sys_mutex_create(p) PROVE MutexInv'
    BY <1>2 DEF sys_mutex_create, MutexCall
  <1>3. ASSUME NEW p \in Procs, NEW i \in Mutexes, sys_mutex_trylock(p, i)
        PROVE  MutexInv'
    BY <1>3 DEF sys_mutex_trylock, MutexCall
  <1>4. ASSUME NEW p \in Procs, NEW i \in Mutexes, sys_mutex_lock(p, i)
        PROVE  MutexInv'
    BY <1>4, Zenon DEF sys_mutex_lock, SleepOnMutex
  <1>5. ASSUME NEW p \in Procs, NEW i \in Mutexes, sys_mutex_unlock(p, i)
        PROVE  MutexInv'
    BY <1>5 DEF sys_mutex_unlock, MutexCall, wakeup
  <1>6. ASSUME NEW p \in Procs, MutexStep(p) PROVE MutexInv'
    <2>1. CASE mutex_lock_killed(p)
      BY <2>1, Zenon DEF mutex_lock_killed
    <2>2. CASE mutex_lock_take(p)
      BY <2>2 DEF mutex_lock_take
    <2>3. CASE mutex_lock_again(p)
      BY <2>3, Zenon DEF mutex_lock_again, SleepOnMutex
    <2> QED
      BY <1>6, <2>1, <2>2, <2>3, Zenon DEF MutexStep
  <1> QED
    BY <1>0, <1>1, <1>2, <1>3, <1>4, <1>5, <1>6, Zenon DEF MNext, MutexSyscall

\* No entry is handed out when the kernel starts.
LEMMA MutexInit == MInit => MutexInv
  BY ProcAssumption, KMutexAssumption, AddressFacts
     DEF MInit, Init, MutexInv, MTypeOK, NoMissedUnlock, States, Labels

\* The mutex calls keep the invariant of the process table: they sleep on an
\* address that is no process, and they neither take nor keep wait_lock across
\* steps.
LEMMA MutexKeepsTable ==
  ASSUME ProcInv, MutexInv, NEW p \in Procs, MutexSyscall(p) \/ MutexStep(p)
  PROVE  ProcInv'
  <1> USE SlotFacts DEF table, locals, Running, Goto
  <1>0. \A i \in Mutexes : Address(i) \in Nat /\ Address(i) \notin Procs
    BY ProcAssumption, KMutexAssumption DEF Procs, Mutexes, Address
  <1>1. Light(p) /\ TypeOK'
    <2> USE DEF ProcInv, TypeOK, MutexInv, MTypeOK, States, Labels, Light, Half
    <2>1. CASE sys_mutex_create(p)
      BY <2>1, Zenon DEF sys_mutex_create, MutexCall
    <2>2. ASSUME NEW i \in Mutexes, sys_mutex_trylock(p, i) PROVE Light(p) /\ TypeOK'
      BY <2>2, Zenon DEF sys_mutex_trylock, MutexCall
    <2>3. ASSUME NEW i \in Mutexes, sys_mutex_lock(p, i) PROVE Light(p) /\ TypeOK'
      BY <1>0, <2>3, Zenon DEF sys_mutex_lock, SleepOnMutex
    <2>4. ASSUME NEW i \in Mutexes, sys_mutex_unlock(p, i) PROVE Light(p) /\ TypeOK'
      BY <2>4, Zenon DEF sys_mutex_unlock, MutexCall, wakeup
    <2>5. CASE mutex_lock_killed(p)
      BY <2>5, Zenon DEF mutex_lock_killed
    <2>6. CASE mutex_lock_take(p)
      BY <2>6, Zenon DEF mutex_lock_take
    <2>7. CASE mutex_lock_again(p)
      <3>1. mid[p] \in Mutexes
        BY Zenon
      <3>2. QED
        <4>1. /\ state[p] = "RUNNING" /\ pc[p] = "mlock"
              /\ state' = [state EXCEPT ![p] = "SLEEPING"] /\ pc' = [pc EXCEPT ![p] = "mlock"]
              /\ chan' = [chan EXCEPT ![p] = Address(mid[p])]
              /\ UNCHANGED <<pid, parent, killed, frozen, nextpid, wait_lock, locals, panicked>>
          BY <2>7, Zenon DEF mutex_lock_again, SleepOnMutex
        <4>2. TypeOK'
          BY <1>0, <3>1, <4>1, Zenon
        <4>3. state'[p] = "SLEEPING" /\ pc'[p] = "mlock" /\ chan'[p] \notin Procs
          BY <1>0, <3>1, <4>1, Zenon
        <4>4. \A q \in Procs \ {p} : pc'[q] = pc[q] /\ chan'[q] = chan[q] /\ state'[q] = state[q]
          BY <4>1, Zenon
        <4>5. QED
          BY <4>1, <4>2, <4>3, <4>4, Zenon
    <2> QED
      BY <2>1, <2>2, <2>3, <2>4, <2>5, <2>6, <2>7, Zenon DEF MutexSyscall, MutexStep
  <1> QED
    BY <1>1, LightKeeps, Zenon

\* The inductive invariant holds in every state.
THEOREM MutexInvariant == MSpec => []MutexInv
  BY MutexInit, MutexStepKeeps, PTL DEF MSpec

\* A waiter in mutex_lock never misses the wakeup of mutex_unlock, whoever
\* forks, exits, waits or kills meanwhile under the same wait_lock.
THEOREM NoMissedMutexWakeup == MSpec => []NoMissedUnlock
  BY MutexInvariant, PTL DEF MutexInv

\* Only the owner unlocks a mutex and nobody takes over a locked one
\* (sys_mutex_unlock, sys_mutex_create).
THEOREM MutexExclusion == MSpec => OnlyOwnerUnlocks
  <1> DEFINE Kept ==
        \A i \in locked :
          \/ i \in locked' /\ owner_pid'[i] = owner_pid[i]
          \/ /\ i \notin locked'
             /\ \E p \in Procs : state[p] = "RUNNING" /\ pid[p] = owner_pid[i]
  <1>1. MutexInv /\ [MNext]_mvars => [Kept]_mvars
    <2> SUFFICES ASSUME MTypeOK, MNext PROVE Kept
      BY Zenon DEF MutexInv
    <2> USE DEF MTypeOK, kmutex_table
    <2>1. CASE Next /\ UNCHANGED <<kmutex_table, mid>>
      BY <2>1, Zenon
    <2>2. ASSUME NEW p \in Procs, sys_mutex_create(p) PROVE Kept
      BY <2>2 DEF sys_mutex_create
    <2>3. ASSUME NEW p \in Procs, NEW i \in Mutexes, sys_mutex_trylock(p, i)
          PROVE  Kept
      BY <2>3, Zenon DEF sys_mutex_trylock
    <2>4. ASSUME NEW p \in Procs, NEW i \in Mutexes, sys_mutex_lock(p, i)
          PROVE  Kept
      BY <2>4, Zenon DEF sys_mutex_lock, SleepOnMutex
    <2>5. ASSUME NEW p \in Procs, NEW i \in Mutexes, sys_mutex_unlock(p, i)
          PROVE  Kept
      BY <2>5, Zenon DEF sys_mutex_unlock, MutexCall, Running
    <2>6. ASSUME NEW p \in Procs, MutexStep(p) PROVE Kept
      BY <2>6 DEF MutexStep, mutex_lock_killed, mutex_lock_take,
                  mutex_lock_again, SleepOnMutex
    <2> QED
      BY <2>1, <2>2, <2>3, <2>4, <2>5, <2>6, Zenon DEF MNext, MutexSyscall
  <1> QED
    BY <1>1, MutexInvariant, PTL DEF MSpec, OnlyOwnerUnlocks

-----------------------------------------------------------------------------
(* The process table *)

\* The inductive invariant holds in every state the kernel reaches, without the
\* mutex calls and with them.
THEOREM ProcInvariant == Spec \/ MSpec => []ProcInv
  <1>1. Spec => []ProcInv
    BY InvInit, InvStep, PTL DEF Spec
  <1>2. MInit => ProcInv
    BY InvInit, Zenon DEF MInit
  <1>3. ProcInv /\ MutexInv /\ [MNext]_mvars => ProcInv'
    BY InvStep, MutexKeepsTable, Zenon DEF MNext, mvars
  <1>4. MSpec => []ProcInv
    BY <1>2, <1>3, MutexInvariant, PTL DEF MSpec
  <1> QED
    BY <1>1, <1>4, PTL

\* The variables of the process table keep their types.
THEOREM ProcTypes == Spec \/ MSpec => []TypeOK
  BY ProcInvariant, PTL DEF ProcInv

\* A pid names at most one process, whatever is forked, killed and reaped
\* (allocpid, freeproc).
THEOREM PidsAreUnique == Spec \/ MSpec => []PidsNameProcesses
  BY ProcInvariant, PTL DEF ProcInv

\* fork never leaves a half made process behind (kfork, kthread_create).
THEOREM NoHalfMadeProcess == Spec \/ MSpec => []UsedIsBeingForked
  BY ProcInvariant, PTL DEF ProcInv

\* Whatever exits and forks in between, a process always has a live parent
\* that can wait for it (reparent, kfork).
THEOREM NoLostChild == Spec \/ MSpec => []ParentIsAlive
  BY ProcInvariant, PTL DEF ProcInv

\* sleep() under wait_lock never misses the wakeup() of a child's exit.
THEOREM NoMissedWakeup == Spec \/ MSpec => []NoMissedExit
  BY ProcInvariant, PTL DEF ProcInv

\* wait_lock is never held by a process that is off the processor.
THEOREM WaitLockDiscipline == Spec \/ MSpec => []WaitLockHeldRunning
  BY ProcInvariant, PTL DEF ProcInv

\* init never runs out of children to wait for (user/init.c).
THEOREM InitKeepsItsShell == Spec \/ MSpec => []InitHasItsShell
  BY ProcInvariant, PTL DEF ProcInv

\* A freeze never outlives the process it was meant for (freeproc, allocproc).
THEOREM FreezeIsReset == Spec \/ MSpec => []UnusedIsThawed
  BY ProcInvariant, PTL DEF ProcInv
=============================================================================
