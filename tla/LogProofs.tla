------------------------------ MODULE LogProofs ------------------------------
(***************************************************************************)
(* Proofs about the write-ahead log (Log): for any number of processes,    *)
(* blocks and log blocks the log never overflows, nobody sleeps in         *)
(* begin_op() without a reason, and the log implements an atomic disk,     *)
(* whatever the moment of a crash.                                         *)
(***************************************************************************)
EXTENDS Log, FiniteSetTheorems, TLAPS

\* The operations between begin_op() and end_op().
Ops == {p \in Procs : pc[p] = "op"}

BootStages == {"boot", "recover", "recover_erase"}
CommitStages == {"write_log", "write_head", "install", "erase", "done"}

\* Who may be where: log.outstanding counts the operations, none of them is
\* under way during a commit or a recovery, and one process commits.
ControlInv ==
  /\ outstanding = Cardinality(Ops)
  /\ committing <=> stage \in CommitStages
  /\ \A p \in Procs : pc[p] = "op" => stage = "run"
  /\ \A p \in Procs : pc[p] = "commit" => stage \in CommitStages
  /\ \A p, q \in Procs : pc[p] = "commit" /\ pc[q] = "commit" => p = q
  /\ stage \in BootStages => \A p \in Procs : pc[p] = "idle"

\* What an operation has logged is in the transaction, and the buffer it holds
\* still fits into its share.
ShareInv ==
  /\ \A p \in Procs : wrote[p] \subseteq LogSet
  /\ \A p \in Procs : pc[p] # "op" => wrote[p] = {} /\ held[p] = None
  /\ \A p \in Procs : held[p] # None =>
       Cardinality(wrote[p] \cup {held[p]}) <= MaxWrites

\* The header on disk and the loops of commit and recovery.
HeadInv ==
  /\ \A i, j \in DOMAIN dhead : dhead[i] = dhead[j] => i = j
  /\ stage \in {"run", "write_log", "write_head", "done"} => dhead = <<>>
  /\ stage \in {"install", "erase", "recover", "recover_erase"} => dhead = lh
  /\ stage \in {"boot", "done"} => lh = <<>>
  /\ stage = "run" /\ outstanding = 0 => lh = <<>>
  /\ stage \in {"write_log", "install", "recover"} => tail <= Len(lh)
  /\ stage = "write_head" => lh # <<>>
  /\ stage \notin {"write_log", "install", "recover"} => tail = 1

\* The copies of a block: in the log, at home, in the cache.  A buffer that is
\* neither pinned nor held is clean, so that evicting it loses nothing.
DataInv ==
  /\ stage = "write_log" => \A i \in 1..(tail - 1) : dlog[i] = bread(lh[i])
  /\ stage \in {"write_head", "install", "erase"} =>
       \A i \in DOMAIN lh : dlog[i] = bread(lh[i])
  /\ stage \in {"install", "recover"} =>
       \A i \in 1..(tail - 1) : disk[lh[i]] = dlog[i]
  /\ stage \in {"erase", "recover_erase"} =>
       \A i \in DOMAIN lh : disk[lh[i]] = dlog[i]
  /\ stage \in {"run", "write_log", "write_head"} => pinned = LogSet
  /\ stage = "install" => pinned \subseteq {lh[i] : i \in tail..Len(lh)}
  /\ stage \in {"erase", "done"} \cup BootStages => pinned = {}
  /\ \A b \in Blocks :
       b \notin pinned /\ (\A p \in Procs : held[p] # b)
         => cache[b] \in {None, disk[b]}

LogInv ==
  NeverPanics /\ NoMissedSpace /\ ControlInv /\ ShareInv /\ HeadInv /\ DataInv
-----------------------------------------------------------------------------
(* The space in the log *)

\* The sets that are counted are finite.
LEMMA CountsAreFinite ==
  /\ IsFiniteSet(Ops) /\ Cardinality(Ops) \in Nat
  /\ IsFiniteSet(Unused) /\ Cardinality(Unused) \in Nat
  /\ \A S \in SUBSET Blocks : IsFiniteSet(S) /\ Cardinality(S) \in Nat
<1>1. IsFiniteSet(Procs) /\ IsFiniteSet(Blocks) /\ MAXOPBLOCKS \in Int
  BY LogAssumption
<1>2. IsFiniteSet(Procs \X (1..MAXOPBLOCKS))
  <2>1. IsFiniteSet(1..MAXOPBLOCKS)
    BY <1>1, FS_Interval
  <2> QED
    BY <1>1, <2>1, FS_Product, Zenon
<1>3. Ops \in SUBSET Procs /\ Unused \in SUBSET (Procs \X (1..MAXOPBLOCKS))
  BY Zenon DEF Ops, Unused
<1>4. IsFiniteSet(Ops) /\ IsFiniteSet(Unused)
  BY <1>1, <1>2, <1>3, FS_Subset, Zenon
<1>5. \A S \in SUBSET Blocks : IsFiniteSet(S)
  BY <1>1, FS_Subset, Zenon
<1> QED
  BY <1>4, <1>5, FS_CardinalityType, Zenon

\* A step that adds nothing to the transaction and to the shares of the
\* operations keeps the reservation.
LEMMA ReservedStays ==
  ASSUME Reserved, TypeOK, Unused' \subseteq Unused,
         Len(lh') \in Nat, Len(lh') <= Len(lh)
  PROVE  Reserved'
<1>1. Cardinality(Unused') <= Cardinality(Unused) /\ Cardinality(Unused') \in Nat
  <2>1. IsFiniteSet(Unused) /\ Unused' \in SUBSET Unused
    BY CountsAreFinite, Zenon
  <2>2. IsFiniteSet(Unused') /\ Cardinality(Unused') <= Cardinality(Unused)
    BY <2>1, FS_Subset, Zenon
  <2> QED
    BY <2>2, FS_CardinalityType, Zenon
<1>2. Len(lh) \in Nat /\ Cardinality(Unused) \in Nat /\ LOGBLOCKS \in Nat
  BY CountsAreFinite, LogAssumption DEF TypeOK
<1> HIDE DEF Unused
<1> QED
  BY <1>1, <1>2 DEF Reserved

\* begin_op() goes on only when a full share is free.
LEMMA BeginFits ==
  ASSUME TypeOK, outstanding = Cardinality(Ops), NEW p \in Procs, begin_op(p)
  PROVE  Reserved' /\ Ops' = Ops \cup {p} /\ outstanding' = Cardinality(Ops')
<1> DEFINE need == (outstanding + 1) * MAXOPBLOCKS
<1>1. Ops' = Ops \cup {p} /\ p \notin Ops
  BY Zenon DEF begin_op, Ops, TypeOK, PCs
<1>2. outstanding' = Cardinality(Ops') /\ outstanding' = outstanding + 1
        /\ IsFiniteSet(Ops')
  BY <1>1, CountsAreFinite, FS_AddElement, Zenon DEF begin_op, TypeOK
<1>3. IsFiniteSet(1..MAXOPBLOCKS) /\ Cardinality(1..MAXOPBLOCKS) = MAXOPBLOCKS
  BY LogAssumption, FS_Interval
<1>4. IsFiniteSet(Ops' \X (1..MAXOPBLOCKS))
        /\ Cardinality(Ops' \X (1..MAXOPBLOCKS)) = need
  <2>1. IsFiniteSet(Ops' \X (1..MAXOPBLOCKS))
          /\ Cardinality(Ops' \X (1..MAXOPBLOCKS))
               = Cardinality(Ops') * Cardinality(1..MAXOPBLOCKS)
    BY <1>2, <1>3, FS_Product, Zenon
  <2> QED
    BY <1>2, <1>3, <2>1, Zenon
<1>5. Unused' \in SUBSET (Ops' \X (1..MAXOPBLOCKS))
  BY Zenon DEF Unused, Ops
<1>6. IsFiniteSet(Unused') /\ Cardinality(Unused') <= need
  BY <1>4, <1>5, FS_Subset
<1>7. Cardinality(Unused') \in Nat
  BY <1>6, FS_CardinalityType, Zenon
<1>8. need \in Nat /\ ~(Len(lh) + need > LOGBLOCKS) /\ lh' = lh
  <2>1. outstanding + 1 \in Nat /\ MAXOPBLOCKS \in Nat
    BY LogAssumption DEF TypeOK
  <2>2. need \in Nat
    BY <2>1
  <2> QED
    BY <2>2, Zenon DEF begin_op, MustWait
<1>9. Len(lh) \in Nat /\ LOGBLOCKS \in Nat
  BY LogAssumption DEF TypeOK
<1> HIDE DEF need, Unused
<1>10. Reserved'
  BY <1>6, <1>7, <1>8, <1>9 DEF Reserved
<1> QED
  BY <1>1, <1>2, <1>10, Zenon

\* An operation that holds a buffer has a part of its share left, so that the
\* log is not full; logging a new block takes that part.
LEMMA LogWriteFits ==
  ASSUME LogInv, NEW p \in Procs, log_write(p)
  PROVE  /\ ~panicked' /\ pc[p] = "op" /\ held[p] \in Blocks
         /\ Len(lh) < LOGBLOCKS
         /\ Reserved'
<1> DEFINE b == held[p]
           n == Cardinality(wrote[p])
<1>1. b \in Blocks /\ pc[p] = "op" /\ wrote[p] \in SUBSET Blocks
        /\ p \in Ops
  BY Zenon DEF LogInv, NeverPanics, TypeOK, ShareInv, log_write, Ops
<1>2. IsFiniteSet(wrote[p]) /\ n \in Nat /\ IsFiniteSet(wrote[p] \cup {b})
        /\ Cardinality(wrote[p] \cup {b}) = IF b \in wrote[p] THEN n ELSE n + 1
  BY <1>1, CountsAreFinite, FS_AddElement, Zenon
<1>3. Cardinality(wrote[p] \cup {b}) <= MaxWrites
  BY <1>1, Zenon DEF LogInv, ShareInv, log_write
<1>4. n <= MaxWrites /\ (b \notin wrote[p] => n + 1 <= MaxWrites)
        /\ n + 1 \in 1..MAXOPBLOCKS
  BY <1>2, <1>3, LogAssumption
<1>5. <<p, n + 1>> \in Unused
  BY <1>1, <1>2, <1>4 DEF Unused
<1>6. Cardinality(Unused) >= 1
  BY <1>5, CountsAreFinite, FS_EmptySet
<1>7. Len(lh) \in Nat /\ LOGBLOCKS \in Nat /\ Cardinality(Unused) \in Nat
  BY CountsAreFinite, LogAssumption DEF LogInv, NeverPanics, TypeOK
<1>8. Len(lh) < LOGBLOCKS /\ Len(lh) + Cardinality(Unused) <= LOGBLOCKS
  <2> HIDE DEF Unused
  <2> QED
    BY <1>6, <1>7 DEF LogInv, NeverPanics, Reserved
<1>9. outstanding >= 1 /\ outstanding \in Nat
  BY <1>1, CountsAreFinite, FS_EmptySet DEF LogInv, ControlInv
<1>10. panicked' = FALSE
  <2>1. ~(Len(lh) >= LOGBLOCKS) /\ ~(outstanding < 1)
    BY <1>7, <1>8, <1>9
  <2> QED
    BY <2>1, Zenon DEF log_write
<1>11. CASE b \in LogSet
  <2>1. lh' = lh /\ pc' = pc
    BY <1>11, Zenon DEF log_write
  <2>2. n <= Cardinality(wrote'[p]) /\ \A q \in Procs \ {p} : wrote'[q] = wrote[q]
    BY <1>1, <1>2 DEF log_write, LogInv, NeverPanics, TypeOK
  <2>3. Cardinality(wrote'[p]) \in Nat
    BY <1>1, <1>2, FS_CardinalityType, Zenon DEF log_write, LogInv, NeverPanics, TypeOK
  <2>4. Unused' \subseteq Unused
    BY <1>2, <2>1, <2>2, <2>3 DEF Unused
  <2>5. Reserved'
    BY <2>1, <2>4, <1>7, ReservedStays DEF LogInv, NeverPanics
  <2> QED
    BY <1>1, <1>8, <1>10, <2>5, Zenon
<1>12. CASE b \notin LogSet
  <2>1. b \notin wrote[p]
    BY <1>12, Zenon DEF LogInv, ShareInv
  <2>2. lh' = Append(lh, b) /\ Len(lh') = Len(lh) + 1 /\ pc' = pc
    BY <1>1, <1>10, <1>12 DEF log_write, LogInv, NeverPanics, TypeOK
  <2>3. wrote'[p] = wrote[p] \cup {b} /\ \A q \in Procs \ {p} : wrote'[q] = wrote[q]
    BY <1>1, Zenon DEF log_write, LogInv, NeverPanics, TypeOK
  <2>4. Cardinality(wrote'[p]) = n + 1
    BY <1>2, <2>1, <2>3, Zenon
  <2>5. Unused' = Unused \ {<<p, n + 1>>}
    <3>1. \A q \in Procs, i \in 1..MAXOPBLOCKS :
            i > Cardinality(wrote'[q]) <=>
              i > Cardinality(wrote[q]) /\ <<q, i>> # <<p, n + 1>>
      <4> SUFFICES ASSUME NEW q \in Procs, NEW i \in 1..MAXOPBLOCKS
                   PROVE  i > Cardinality(wrote'[q]) <=>
                            i > Cardinality(wrote[q]) /\ <<q, i>> # <<p, n + 1>>
        BY Zenon
      <4>1. CASE q = p
        BY <1>2, <2>4, <4>1
      <4>2. CASE q # p
        BY <2>3, <4>2, Zenon
      <4> QED
        BY <4>1, <4>2, Zenon
    <3> QED
      BY <2>2, <3>1 DEF Unused
  <2>6. Cardinality(Unused') = Cardinality(Unused) - 1
    BY <1>5, <2>5, CountsAreFinite, FS_RemoveElement, Zenon
  <2>7. Reserved'
    <3> HIDE DEF Unused
    <3> QED
      BY <1>7, <1>8, <2>2, <2>6 DEF Reserved
  <2> QED
    BY <1>1, <1>8, <1>10, <2>7
<1> QED
  BY <1>11, <1>12, Zenon

-----------------------------------------------------------------------------
(* Each step keeps the invariant *)

\* A step that only moves processes which are in no operation.
LEMMA DataFrame ==
  ASSUME DataInv, UNCHANGED <<ondisk, buffers, lh, held, stage, tail>>
  PROVE  DataInv'
BY DEF DataInv, ondisk, buffers, bread, LogSet

\* The log starts out empty and clean.
LEMMA LogInitially == ASSUME Init PROVE LogInv
<1>1. Ops = {} /\ Unused = {} /\ Len(lh) = 0 /\ LogSet = {}
  BY DEF Init, Ops, Unused, LogSet
<1>2. Cardinality(Ops) = 0 /\ Cardinality(Unused) = 0
  BY <1>1, FS_EmptySet, Zenon
<1>3. TypeOK
  <2>1. dlog \in [1..LOGBLOCKS -> Vals]
    BY Zenon DEF Init
  <2>2. pc \in [Procs -> PCs] /\ stage \in Stages
    BY Zenon DEF Init, PCs, Stages
  <2>3. committing \in BOOLEAN /\ panicked \in BOOLEAN
    BY Zenon DEF Init
  <2>4. dhead \in Seq(Blocks) /\ lh \in Seq(Blocks) /\ Len(dhead) = 0
    BY DEF Init
  <2> QED
    BY <1>1, <2>1, <2>2, <2>3, <2>4, LogAssumption DEF Init, TypeOK
<1>4. Reserved
  BY <1>1, <1>2, LogAssumption DEF Reserved
<1>5. NeverPanics
  BY <1>3, <1>4, Zenon DEF NeverPanics, Init
<1>6. NoMissedSpace
  BY Zenon DEF NoMissedSpace, Init
<1>7. ControlInv
  <2>1. stage \notin CommitStages
    BY Zenon DEF Init, CommitStages
  <2>2. committing <=> stage \in CommitStages
    BY <2>1, Zenon DEF Init
  <2> QED
    BY <1>2, <2>2, Zenon DEF Init, ControlInv
<1>8. ShareInv
  BY Zenon DEF Init, ShareInv
<1>9. HeadInv
  BY DEF Init, HeadInv
<1>10. DataInv
  BY Zenon DEF Init, DataInv, BootStages
<1> QED
  BY <1>5, <1>6, <1>7, <1>8, <1>9, <1>10, Zenon DEF LogInv

\* A call arrives, or goes to sleep in begin_op().
LEMMA WaitKeeps ==
  ASSUME LogInv, NEW p \in Procs, syscall(p) \/ begin_op_sleep(p)
  PROVE  LogInv'
<1> DEFINE rest == <<ondisk, buffers, header, held, wrote, stage, tail, panicked>>
<1>1. PICK s \in {"begin", "sleep"} :
        /\ pc[p] \in {"idle", "begin"} /\ pc' = [pc EXCEPT ![p] = s]
        /\ s = "sleep" => MustWait
        /\ stage \notin BootStages
        /\ UNCHANGED rest
  <2>1. CASE syscall(p)
    BY <2>1, Zenon DEF syscall, Booted, BootStages
  <2>2. CASE begin_op_sleep(p)
    BY <2>2, Zenon DEF begin_op_sleep, LogInv, ControlInv
  <2> QED
    BY <2>1, <2>2, Zenon
<1>2. \A q \in Procs : /\ (pc'[q] = "op") = (pc[q] = "op")
                       /\ (pc'[q] = "commit") = (pc[q] = "commit")
                       /\ pc'[q] = "sleep" => pc[q] = "sleep" \/ MustWait
                       /\ pc'[q] \in PCs
  BY <1>1, Zenon DEF LogInv, NeverPanics, TypeOK, PCs
<1>3. Ops' = Ops /\ Unused' = Unused
  BY <1>1, <1>2, Zenon DEF Ops, Unused
<1>4. TypeOK'
  BY <1>1, Zenon DEF LogInv, NeverPanics, TypeOK, PCs, ondisk, buffers, header
<1>5. NeverPanics'
  BY <1>1, <1>3, <1>4, Zenon DEF LogInv, NeverPanics, Reserved, header
<1>6. NoMissedSpace'
  BY <1>1, <1>2, Zenon DEF LogInv, NoMissedSpace, MustWait, header
<1>7. ControlInv'
  BY <1>1, <1>2, <1>3, Zenon DEF LogInv, ControlInv, header
<1>8. ShareInv'
  BY <1>1, <1>2 DEF LogInv, ShareInv, LogSet, header
<1>9. HeadInv'
  BY <1>1, Zenon DEF LogInv, HeadInv, header, ondisk
<1>10. DataInv'
  BY <1>1, DataFrame, Zenon DEF LogInv, header
<1> QED
  BY <1>5, <1>6, <1>7, <1>8, <1>9, <1>10, Zenon DEF LogInv

\* begin_op() succeeds between commits only, and finds a full share free.
LEMMA BeginKeeps ==
  ASSUME LogInv, NEW p \in Procs, begin_op(p)
  PROVE  LogInv'
<1>1. stage = "run"
  <2>1. stage \notin BootStages /\ stage \notin CommitStages
    BY Zenon DEF LogInv, ControlInv, begin_op, MustWait
  <2> QED
    BY <2>1, Zenon DEF LogInv, NeverPanics, TypeOK, Stages, BootStages, CommitStages
<1>2. /\ Reserved' /\ outstanding' = Cardinality(Ops')
      /\ outstanding' = outstanding + 1 /\ outstanding \in Nat
  BY BeginFits, Zenon DEF LogInv, NeverPanics, ControlInv, begin_op, TypeOK
<1>3. \A q \in Procs : pc'[q] = IF q = p THEN "op" ELSE pc[q]
  BY Zenon DEF begin_op, LogInv, NeverPanics, TypeOK
<1>4. UNCHANGED <<ondisk, buffers, lh, committing, held, stage, tail, panicked>>
  BY Zenon DEF begin_op
<1>5. TypeOK'
  <2>1. pc' \in [Procs -> PCs] /\ wrote' \in [Procs -> SUBSET Blocks]
    BY Zenon DEF begin_op, LogInv, NeverPanics, TypeOK, PCs
  <2> QED
    BY <1>2, <1>4, <2>1 DEF LogInv, NeverPanics, TypeOK, ondisk, buffers
<1>6. NeverPanics'
  BY <1>2, <1>4, <1>5, Zenon DEF LogInv, NeverPanics
<1>7. NoMissedSpace'
  <2>1. \A q \in Procs : pc'[q] = "sleep" => MustWait
    BY <1>3, Zenon DEF LogInv, NoMissedSpace
  <2> QED
    BY <2>1, Zenon DEF begin_op, NoMissedSpace
<1>8. ControlInv'
  <2>1. stage' = "run" /\ stage' \notin BootStages /\ stage' \notin CommitStages
    BY <1>1, <1>4, Zenon DEF BootStages, CommitStages
  <2> QED
    BY <1>1, <1>2, <1>3, <1>4, <2>1, Zenon DEF LogInv, ControlInv
<1>9. ShareInv'
  <2>1. \A q \in Procs : wrote'[q] = IF q = p THEN {} ELSE wrote[q]
    BY Zenon DEF begin_op, LogInv, NeverPanics, TypeOK
  <2>2. held[p] = None /\ LogSet' = LogSet
    BY <1>4, Zenon DEF begin_op, LogInv, ShareInv, LogSet
  <2> QED
    BY <1>3, <1>4, <2>1, <2>2, Zenon DEF LogInv, ShareInv
<1>10. HeadInv'
  BY <1>1, <1>2, <1>4 DEF LogInv, HeadInv, ondisk
<1>11. DataInv'
  BY <1>4, DataFrame, Zenon DEF LogInv
<1> QED
  BY <1>6, <1>7, <1>8, <1>9, <1>10, <1>11, Zenon DEF LogInv

\* A change of a buffer's data makes it dirty; it is held.
LEMMA UpdateKeeps ==
  ASSUME LogInv, NEW p \in Procs, NEW b \in Blocks, NEW v \in Vals,
         update(p, b, v)
  PROVE  LogInv'
<1>1. stage = "run" /\ pc[p] = "op"
  BY Zenon DEF update, LogInv, ControlInv
<1>2. UNCHANGED <<ondisk, pinned, header, pc, wrote, stage, tail, panicked>>
  BY Zenon DEF update
<1>3. \A q \in Procs : held'[q] = IF q = p THEN b ELSE held[q]
  BY Zenon DEF update, LogInv, NeverPanics, TypeOK
<1>4. \A x \in Blocks : x # b => cache'[x] = cache[x]
  BY Zenon DEF update, LogInv, NeverPanics, TypeOK
<1>5. Ops' = Ops /\ Unused' = Unused /\ LogSet' = LogSet
  BY <1>2, Zenon DEF Ops, Unused, LogSet, header
<1>6. TypeOK'
  <2>1. cache' \in [Blocks -> Vals \cup {None}]
          /\ held' \in [Procs -> Blocks \cup {None}]
    BY Zenon DEF update, LogInv, NeverPanics, TypeOK
  <2> QED
    BY <1>2, <2>1, Zenon DEF LogInv, NeverPanics, TypeOK, ondisk, header
<1>7. NeverPanics'
  BY <1>2, <1>5, <1>6, Zenon DEF LogInv, NeverPanics, Reserved, header
<1>8. NoMissedSpace'
  BY <1>2, Zenon DEF LogInv, NoMissedSpace, MustWait, header
<1>9. ControlInv'
  BY <1>2, <1>5, Zenon DEF LogInv, ControlInv, header
<1>10. ShareInv'
  <2>1. Cardinality(wrote'[p] \cup {held'[p]}) <= MaxWrites
    BY <1>2, <1>3, Zenon DEF update
  <2> QED
    BY <1>1, <1>2, <1>3, <1>5, <2>1, Zenon DEF LogInv, ShareInv
<1>11. HeadInv'
  BY <1>2, Zenon DEF LogInv, HeadInv, header, ondisk
<1>12. DataInv'
  <2>1. held[p] = None /\ None \notin Blocks
    BY LogAssumption, Zenon DEF update
  <2>2. ASSUME NEW x \in Blocks, x \notin pinned', \A q \in Procs : held'[q] # x
        PROVE  cache'[x] \in {None, disk'[x]}
    <3>1. x # b /\ \A q \in Procs : held[q] # x
      BY <1>3, <2>1, <2>2, Zenon
    <3> QED
      BY <1>2, <1>4, <2>2, <3>1, Zenon DEF LogInv, DataInv, ondisk
  <2>3. pinned' = LogSet' /\ stage' = "run"
    BY <1>1, <1>2, <1>5, Zenon DEF LogInv, DataInv
  <2> QED
    BY <2>2, <2>3, Zenon DEF DataInv, BootStages
<1> QED
  BY <1>7, <1>8, <1>9, <1>10, <1>11, <1>12, Zenon DEF LogInv

\* log_write(): the held block joins the transaction, or is in it already.
LEMMA LogWriteKeeps ==
  ASSUME LogInv, NEW p \in Procs, log_write(p)
  PROVE  LogInv'
<1> DEFINE b == held[p]
<1>1. /\ ~panicked' /\ pc[p] = "op" /\ b \in Blocks
      /\ Len(lh) < LOGBLOCKS /\ Reserved'
  BY LogWriteFits, Zenon
<1>2. stage = "run" /\ tail = 1
  BY <1>1, Zenon DEF LogInv, ControlInv, HeadInv
<1>3. UNCHANGED <<ondisk, cache, outstanding, committing, pc, stage, tail>>
  BY Zenon DEF log_write
<1>4. \/ b \in LogSet /\ lh' = lh /\ pinned' = pinned
      \/ b \notin LogSet /\ lh' = Append(lh, b) /\ pinned' = pinned \cup {b}
  BY <1>1, Zenon DEF log_write
<1>5. lh \in Seq(Blocks) /\ (\A i, j \in DOMAIN lh : lh[i] = lh[j] => i = j)
        /\ LOGBLOCKS \in Nat
  BY LogAssumption, Zenon DEF LogInv, NeverPanics, TypeOK
<1>6. /\ lh' \in Seq(Blocks) /\ Len(lh') <= LOGBLOCKS /\ Len(lh') >= Len(lh)
      /\ \A i, j \in DOMAIN lh' : lh'[i] = lh'[j] => i = j
      /\ LogSet' = LogSet \cup {b}
  <2>1. CASE lh' = lh /\ b \in LogSet
    BY <1>1, <1>5, <2>1 DEF LogSet
  <2>2. CASE lh' = Append(lh, b) /\ b \notin LogSet
    <3>1. /\ lh' \in Seq(Blocks) /\ Len(lh') = Len(lh) + 1
          /\ DOMAIN lh' = 1..(Len(lh) + 1) /\ DOMAIN lh = 1..Len(lh)
          /\ lh'[Len(lh) + 1] = b /\ \A i \in DOMAIN lh : lh'[i] = lh[i]
      BY <1>1, <1>5, <2>2
    <3>2. \A i \in DOMAIN lh : lh[i] # b
      BY <2>2, Zenon DEF LogSet
    <3>3. \A i, j \in DOMAIN lh' : lh'[i] = lh'[j] => i = j
      BY <1>5, <3>1, <3>2
    <3>4. LogSet' = LogSet \cup {b}
      BY <1>5, <3>1 DEF LogSet
    <3> QED
      BY <1>1, <1>5, <3>1, <3>3, <3>4
  <2> QED
    BY <1>4, <2>1, <2>2, Zenon
<1>7. \A q \in Procs : held'[q] = IF q = p THEN None ELSE held[q]
  BY Zenon DEF log_write, LogInv, NeverPanics, TypeOK
<1>8. \A q \in Procs : wrote'[q] = IF q = p THEN wrote[p] \cup {b} ELSE wrote[q]
  BY Zenon DEF log_write, LogInv, NeverPanics, TypeOK
<1>9. TypeOK'
  <2>1. held' \in [Procs -> Blocks \cup {None}]
    BY Zenon DEF log_write, LogInv, NeverPanics, TypeOK
  <2>2. wrote' \in [Procs -> SUBSET Blocks]
    BY <1>1, Zenon DEF log_write, LogInv, NeverPanics, TypeOK
  <2>3. pinned' \subseteq Blocks
    BY <1>1, <1>4, Zenon DEF LogInv, NeverPanics, TypeOK
  <2>4. panicked' \in BOOLEAN
    BY Zenon DEF log_write
  <2>5. tail' \in Nat \ {0} /\ tail' <= Len(lh') + 1
    BY <1>2, <1>3, <1>6
  <2> QED
    BY <1>3, <1>6, <2>1, <2>2, <2>3, <2>4, <2>5, Zenon
       DEF LogInv, NeverPanics, TypeOK, ondisk
<1>10. NeverPanics'
  BY <1>1, <1>9, Zenon DEF NeverPanics
<1>11. NoMissedSpace'
  <2> DEFINE need == (outstanding + 1) * MAXOPBLOCKS
  <2>1. need \in Int /\ Len(lh) \in Int /\ Len(lh') \in Int
    BY <1>5, <1>6, LogAssumption DEF LogInv, NeverPanics, TypeOK
  <2>2. Len(lh) + need > LOGBLOCKS => Len(lh') + need > LOGBLOCKS
    <3> HIDE DEF need
    <3> QED
      BY <1>5, <1>6, <2>1
  <2> QED
    BY <1>3, <2>2, Zenon DEF LogInv, NoMissedSpace, MustWait
<1>12. ControlInv'
  <2>1. Ops' = Ops
    BY <1>3, Zenon DEF Ops
  <2> QED
    BY <1>3, <2>1, Zenon DEF LogInv, ControlInv
<1>13. ShareInv'
  BY <1>1, <1>3, <1>6, <1>7, <1>8, Zenon DEF LogInv, ShareInv
<1>14. HeadInv'
  <2>1. outstanding # 0
    BY <1>1, CountsAreFinite, FS_EmptySet DEF LogInv, ControlInv, Ops
  <2> QED
    BY <1>2, <1>3, <2>1, Zenon DEF LogInv, HeadInv, ondisk
<1>15. DataInv'
  <2>1. pinned' = LogSet' /\ stage' = "run"
    BY <1>2, <1>3, <1>4, <1>6, Zenon DEF LogInv, DataInv
  <2>2. ASSUME NEW x \in Blocks, x \notin pinned', \A q \in Procs : held'[q] # x
        PROVE  cache'[x] \in {None, disk'[x]}
    <3>1. x # b /\ x \notin pinned
      BY <1>4, <1>6, <2>1, <2>2, Zenon
    <3>2. \A q \in Procs : held[q] # x
      BY <1>7, <2>2, <3>1, Zenon
    <3> QED
      BY <1>3, <3>1, <3>2, Zenon DEF LogInv, DataInv, ondisk
  <2> QED
    BY <2>1, <2>2, Zenon DEF DataInv, BootStages
<1> QED
  BY <1>10, <1>11, <1>12, <1>13, <1>14, <1>15 DEF LogInv

\* end_op(), first half: the last operation starts the commit of a clean
\* transaction, another one leaves nobody asleep.
LEMMA EndKeeps ==
  ASSUME LogInv, NEW p \in Procs, end_op(p)
  PROVE  LogInv'
<1>1. stage = "run" /\ pc[p] = "op" /\ p \in Ops /\ tail = 1
  BY Zenon DEF end_op, LogInv, ControlInv, HeadInv, Ops
<1>2. ~committing /\ panicked' = FALSE
  <2>1. stage \notin CommitStages
    BY <1>1, Zenon DEF CommitStages
  <2>2. committing = FALSE
    BY <2>1, Zenon DEF LogInv, ControlInv, NeverPanics, TypeOK
  <2> QED
    BY <2>2, Zenon DEF end_op
<1>3. UNCHANGED <<ondisk, buffers, lh, held>>
  BY Zenon DEF end_op
<1>4. \A q \in Procs : wrote'[q] = IF q = p THEN {} ELSE wrote[q]
  BY Zenon DEF end_op, LogInv, NeverPanics, TypeOK
<1>5. \A q \in Procs : /\ pc'[q] = "op" <=> q # p /\ pc[q] = "op"
                       /\ pc'[q] \in PCs
                       /\ pc'[q] = "sleep" => outstanding' = 0
                       /\ pc'[q] = "commit" => q = p /\ outstanding' = 0
  <2>1. \A q \in Procs : pc[q] # "commit" /\ pc[q] \in PCs
    BY <1>1, Zenon DEF LogInv, ControlInv, CommitStages, NeverPanics, TypeOK
  <2>2. CASE outstanding' = 0
    BY <2>1, <2>2, Zenon DEF end_op, LogInv, NeverPanics, TypeOK, PCs
  <2>3. CASE outstanding' # 0
    BY <2>1, <2>3, Zenon DEF end_op, wakeup, LogInv, NeverPanics, TypeOK, PCs
  <2> QED
    BY <2>2, <2>3, Zenon
<1>6. Ops' = Ops \ {p} /\ Unused' \subseteq Unused /\ LogSet' = LogSet
  BY <1>3, <1>4, <1>5, Zenon DEF Ops, Unused, LogSet
<1>7. outstanding' = Cardinality(Ops') /\ outstanding' \in Nat
        /\ (outstanding' = 0 => Ops' = {})
  <2>1. Cardinality(Ops) \in Nat /\ Cardinality(Ops') = Cardinality(Ops) - 1
          /\ IsFiniteSet(Ops')
    BY <1>1, <1>6, CountsAreFinite, FS_RemoveElement, Zenon
  <2>2. Cardinality(Ops') \in Nat
    BY <2>1, FS_CardinalityType, Zenon
  <2> QED
    BY <2>1, <2>2, FS_EmptySet, Zenon DEF end_op, LogInv, ControlInv
<1>8. /\ stage' \in {"run", "write_log", "done"} /\ tail' = 1
      /\ stage' = "run" <=> outstanding' # 0
      /\ stage' = "done" => lh = <<>>
      /\ stage' = "write_log" => lh # <<>>
  BY <1>1, Zenon DEF end_op
<1>9. committing' \in BOOLEAN /\ (committing' <=> outstanding' = 0)
  <2>1. CASE outstanding' = 0
    BY <2>1, Zenon DEF end_op
  <2>2. CASE outstanding' # 0
    BY <1>2, <2>2, Zenon DEF end_op, LogInv, NeverPanics, TypeOK
  <2> QED
    BY <2>1, <2>2, Zenon
<1>10. TypeOK'
  <2>1. wrote' \in [Procs -> SUBSET Blocks]
    BY Zenon DEF end_op, LogInv, NeverPanics, TypeOK
  <2>2. pc' \in [Procs -> PCs]
    <3>1. pc' = [q \in Procs |-> pc'[q]]
      BY Zenon DEF end_op, wakeup, LogInv, NeverPanics, TypeOK
    <3> QED
      BY <1>5, <3>1, Zenon
  <2>3. panicked' \in BOOLEAN
    BY <1>2, Zenon
  <2> QED
    BY <1>1, <1>3, <1>7, <1>8, <1>9, <2>1, <2>2, <2>3, Zenon
       DEF LogInv, NeverPanics, TypeOK, Stages, ondisk, buffers
<1>11. NeverPanics'
  <2>1. Len(lh') \in Nat /\ Len(lh') <= Len(lh)
    BY <1>3 DEF LogInv, NeverPanics, TypeOK
  <2>2. Reserved'
    BY <1>6, <2>1, ReservedStays, Zenon DEF LogInv, NeverPanics
  <2> QED
    BY <1>2, <1>10, <2>2, Zenon DEF NeverPanics
<1>12. NoMissedSpace'
  BY <1>5, <1>9, Zenon DEF NoMissedSpace, MustWait
<1>13. ControlInv'
  <2>1. stage' \notin BootStages
    BY <1>8, Zenon DEF BootStages
  <2>2. stage' \in CommitStages <=> outstanding' = 0
    BY <1>8, Zenon DEF CommitStages
  <2>3. \A q \in Procs : pc'[q] = "op" => stage' = "run"
    BY <1>7, <1>8, Zenon DEF Ops
  <2> QED
    BY <1>5, <1>7, <1>9, <2>1, <2>2, <2>3, Zenon DEF ControlInv
<1>14. ShareInv'
  <2>1. held[p] = None
    BY Zenon DEF end_op
  <2> QED
    BY <1>3, <1>4, <1>5, <1>6, <2>1, Zenon DEF LogInv, ShareInv
<1>15. HeadInv'
  <2>1. lh # <<>> => 1 <= Len(lh)
    BY DEF LogInv, NeverPanics, TypeOK
  <2> QED
    BY <1>1, <1>3, <1>8, <2>1, Zenon DEF LogInv, HeadInv, ondisk
<1>16. DataInv'
  <2>1. pinned' = LogSet' /\ (lh = <<>> => LogSet' = {})
    BY <1>1, <1>3, <1>6 DEF LogInv, DataInv, LogSet, buffers
  <2>2. \A b \in Blocks :
          b \notin pinned' /\ (\A q \in Procs : held'[q] # b)
            => cache'[b] \in {None, disk'[b]}
    BY <1>3, Zenon DEF LogInv, DataInv, ondisk, buffers
  <2>3. 1..(tail' - 1) = {}
    BY <1>8
  <2> QED
    BY <1>8, <2>1, <2>2, <2>3, Zenon DEF DataInv, BootStages
<1> QED
  BY <1>11, <1>12, <1>13, <1>14, <1>15, <1>16 DEF LogInv

\* A step of commit or recovery after which the processes stand where they
\* stood: the space and the shares are not touched.
LEMMA CommitFrame ==
  ASSUME LogInv, UNCHANGED <<opvars, outstanding, committing, panicked>>,
         stage \in CommitStages \cup BootStages,
         stage' \in CommitStages <=> stage \in CommitStages,
         stage' \in BootStages => stage \in BootStages,
         Len(lh') \in Nat, Len(lh') <= LOGBLOCKS
  PROVE  /\ Reserved' /\ NoMissedSpace' /\ ControlInv' /\ ShareInv'
         /\ \A p \in Procs : pc[p] # "op" /\ held[p] = None
<1>1. \A p \in Procs : pc[p] # "op" /\ pc'[p] # "op" /\ held[p] = None
        /\ wrote[p] = {}
  BY Zenon DEF LogInv, ControlInv, ShareInv, CommitStages, BootStages, opvars
<1>2. Ops' = Ops /\ Unused' = {}
  BY <1>1, Zenon DEF Ops, Unused, opvars
<1>3. Reserved'
  BY <1>2, FS_EmptySet, LogAssumption DEF Reserved
<1>4. NoMissedSpace'
  <2>1. CASE stage \in CommitStages
    BY <2>1, Zenon DEF LogInv, ControlInv, NoMissedSpace, MustWait
  <2>2. CASE stage \in BootStages
    BY <2>2, Zenon DEF LogInv, ControlInv, NoMissedSpace, opvars
  <2> QED
    BY <2>1, <2>2, Zenon
<1>5. ControlInv'
  BY <1>1, <1>2, Zenon DEF LogInv, ControlInv, opvars
<1>6. ShareInv'
  BY <1>1, Zenon DEF ShareInv, opvars
<1> QED
  BY <1>1, <1>3, <1>4, <1>5, <1>6, Zenon

\* The loops of write_log() and install_trans() stay inside the transaction.
LEMMA LoopStays ==
  ASSUME LogInv, stage \in {"write_log", "install", "recover"}, NEW s,
         s # stage, NextTail(stage, s)
  PROVE  /\ tail \in 1..Len(lh) /\ tail \in 1..LOGBLOCKS
         /\ lh[tail] \in Blocks
         /\ Len(lh) \in Nat
         /\ stage' \in {stage, s} /\ tail' \in Nat \ {0} /\ tail' <= Len(lh)
         /\ stage' = stage => tail' = tail + 1
         /\ stage' = s => tail' = 1 /\ tail = Len(lh)
<1>1. lh \in Seq(Blocks) /\ tail \in Nat \ {0} /\ tail <= Len(lh)
        /\ Len(lh) <= LOGBLOCKS /\ LOGBLOCKS \in Nat
  BY LogAssumption, Zenon DEF LogInv, NeverPanics, TypeOK, HeadInv
<1> QED
  BY <1>1 DEF NextTail

\* write_log() copies one more block of the transaction into the log.
LEMMA WriteLogKeeps ==
  ASSUME LogInv, write_log
  PROVE  LogInv'
<1>1. stage = "write_log" /\ NextTail(stage, "write_head")
        /\ UNCHANGED <<disk, dhead, buffers, header, opvars, panicked>>
  BY Zenon DEF write_log
<1>2. /\ tail \in 1..Len(lh) /\ tail \in 1..LOGBLOCKS /\ lh[tail] \in Blocks
      /\ Len(lh) \in Nat
      /\ stage' \in {"write_log", "write_head"}
      /\ tail' \in Nat \ {0} /\ tail' <= Len(lh)
      /\ stage' = "write_log" => tail' = tail + 1
      /\ stage' = "write_head" => tail' = 1 /\ tail = Len(lh)
  BY <1>1, LoopStays, Zenon
<1>3. \A i \in 1..LOGBLOCKS : dlog'[i] = IF i = tail THEN bread(lh[tail]) ELSE dlog[i]
  BY Zenon DEF write_log, LogInv, NeverPanics, TypeOK
<1>4. Reserved' /\ NoMissedSpace' /\ ControlInv' /\ ShareInv'
  <2>1. stage \in CommitStages /\ stage' \in CommitStages /\ stage' \notin BootStages
    BY <1>1, <1>2, Zenon DEF CommitStages, BootStages
  <2>2. Len(lh') \in Nat /\ Len(lh') <= LOGBLOCKS
    BY <1>1, <1>2, Zenon DEF LogInv, NeverPanics, TypeOK, header
  <2> QED
    BY <1>1, <2>1, <2>2, CommitFrame, Zenon DEF header
<1>5. TypeOK'
  <2>1. bread(lh[tail]) \in Vals
    BY <1>2, Zenon DEF bread, LogInv, NeverPanics, TypeOK
  <2>2. dlog' \in [1..LOGBLOCKS -> Vals]
    BY <2>1, Zenon DEF write_log, LogInv, NeverPanics, TypeOK
  <2> QED
    BY <1>1, <1>2, <2>2
       DEF LogInv, NeverPanics, TypeOK, Stages, buffers, header, opvars
<1>6. HeadInv'
  BY <1>1, <1>2 DEF LogInv, HeadInv, header
<1>7. DataInv'
  <2>1. \A i \in 1..tail : dlog'[i] = bread(lh[i])
    <3>1. \A i \in 1..(tail - 1) : dlog[i] = bread(lh[i])
      BY <1>1, Zenon DEF LogInv, DataInv
    <3>2. \A i \in 1..tail : i \in 1..LOGBLOCKS /\ (i # tail => i \in 1..(tail - 1))
      BY <1>2, LogAssumption
    <3> QED
      BY <1>3, <3>1, <3>2, Zenon
  <2>2. \A i \in 1..tail : dlog'[i] = bread(lh[i])'
    BY <1>1, <2>1, Zenon DEF bread, buffers, header
  <2>3. pinned' = LogSet' /\ LogSet' = LogSet
    BY <1>1 DEF LogInv, DataInv, LogSet, buffers, header
  <2>4. \A b \in Blocks :
          b \notin pinned' /\ (\A q \in Procs : held'[q] # b)
            => cache'[b] \in {None, disk'[b]}
    BY <1>1, Zenon DEF LogInv, DataInv, buffers, opvars
  <2>5. CASE stage' = "write_log"
    BY <1>2, <2>2, <2>3, <2>4, <2>5 DEF DataInv, BootStages
  <2>6. CASE stage' = "write_head"
    <3>1. lh' = lh /\ \A i \in DOMAIN lh : i \in 1..tail
      BY <1>1, <1>2, <2>6 DEF header, LogInv, NeverPanics, TypeOK
    <3> QED
      BY <2>2, <2>3, <2>4, <2>6, <3>1, Zenon DEF DataInv, BootStages
  <2> QED
    BY <1>2, <2>5, <2>6, Zenon
<1> QED
  BY <1>1, <1>4, <1>5, <1>6, <1>7, Zenon DEF LogInv, NeverPanics

\* write_head() commits a transaction that is in the log as a whole.
LEMMA WriteHeadKeeps ==
  ASSUME LogInv, write_head
  PROVE  LogInv'
<1>1. /\ stage = "write_head" /\ stage' = "install" /\ dhead' = lh
      /\ UNCHANGED <<disk, dlog, buffers, header, opvars, tail, panicked>>
  BY Zenon DEF write_head
<1>2. Reserved' /\ NoMissedSpace' /\ ControlInv' /\ ShareInv'
  <2>1. stage \in CommitStages /\ stage' \in CommitStages /\ stage' \notin BootStages
    BY <1>1, Zenon DEF CommitStages, BootStages
  <2>2. Len(lh') \in Nat /\ Len(lh') <= LOGBLOCKS
    BY <1>1 DEF LogInv, NeverPanics, TypeOK, header
  <2> QED
    BY <1>1, <2>1, <2>2, CommitFrame, Zenon DEF header
<1>3. TypeOK'
  BY <1>1, Zenon DEF LogInv, NeverPanics, TypeOK, Stages, buffers, header, opvars
<1>4. HeadInv'
  BY <1>1 DEF LogInv, HeadInv, NeverPanics, TypeOK, header
<1>5. DataInv'
  <2>1. tail' = 1 /\ pinned = {lh[i] : i \in 1..Len(lh)}
    BY <1>1 DEF LogInv, HeadInv, DataInv, LogSet, NeverPanics, TypeOK
  <2> QED
    BY <1>1, <2>1 DEF LogInv, DataInv, BootStages, bread, buffers, header, opvars
<1> QED
  BY <1>1, <1>2, <1>3, <1>4, <1>5, Zenon DEF LogInv, NeverPanics

\* install_trans() brings one more block home.
LEMMA InstallKeeps ==
  ASSUME LogInv, install_trans \/ recover_install
  PROVE  LogInv'
<1> DEFINE b == lh[tail]
<1>1. PICK s \in {"erase", "recover_erase"} :
        /\ stage = IF s = "erase" THEN "install" ELSE "recover"
        /\ NextTail(stage, s)
  BY Zenon DEF install_trans, recover_install, Install
<1>2. /\ disk' = [disk EXCEPT ![b] = dlog[tail]]
      /\ cache' = [cache EXCEPT ![b] = dlog[tail]]
      /\ pinned' = pinned \ {b}
      /\ UNCHANGED <<dlog, dhead, header, opvars, panicked>>
  BY Zenon DEF install_trans, recover_install, Install
<1>3. /\ tail \in 1..Len(lh) /\ tail \in 1..LOGBLOCKS /\ b \in Blocks
      /\ Len(lh) \in Nat
      /\ stage' \in {stage, s} /\ tail' \in Nat \ {0} /\ tail' <= Len(lh)
      /\ stage' = stage => tail' = tail + 1
      /\ stage' = s => tail' = 1 /\ tail = Len(lh)
  BY <1>1, LoopStays, Zenon
<1>4. dlog[tail] \in Vals
  BY <1>3, Zenon DEF LogInv, NeverPanics, TypeOK
<1>5. Reserved' /\ NoMissedSpace' /\ ControlInv' /\ ShareInv'
  <2>1. /\ stage \in CommitStages \cup BootStages
        /\ stage' \in CommitStages <=> stage \in CommitStages
        /\ stage' \in BootStages => stage \in BootStages
    BY <1>1, <1>3, Zenon DEF CommitStages, BootStages
  <2>2. Len(lh') \in Nat /\ Len(lh') <= LOGBLOCKS
    BY <1>2, <1>3, Zenon DEF LogInv, NeverPanics, TypeOK, header
  <2> QED
    BY <1>2, <2>1, <2>2, CommitFrame, Zenon DEF header
<1>6. TypeOK'
  <2>1. disk' \in [Blocks -> Vals] /\ cache' \in [Blocks -> Vals \cup {None}]
    BY <1>2, <1>4, Zenon DEF LogInv, NeverPanics, TypeOK
  <2> QED
    BY <1>1, <1>2, <1>3, <2>1 DEF LogInv, NeverPanics, TypeOK, Stages, header, opvars
<1>7. HeadInv'
  BY <1>1, <1>2, <1>3, Zenon DEF LogInv, HeadInv, header
<1>8. /\ disk'[b] = dlog[tail] /\ cache'[b] = dlog[tail] /\ dlog[tail] # None
      /\ \A x \in Blocks \ {b} : disk'[x] = disk[x] /\ cache'[x] = cache[x]
  BY <1>2, <1>3, <1>4, LogAssumption, Zenon DEF LogInv, NeverPanics, TypeOK
<1>9. \A i \in DOMAIN lh : lh[i] \in Blocks /\ (i # tail => lh[i] # b)
  BY <1>3 DEF LogInv, NeverPanics, TypeOK
<1>10. DataInv'
  <2>1. \A i \in 1..tail : disk'[lh[i]] = dlog[i]
    BY <1>1, <1>3, <1>8, <1>9 DEF LogInv, DataInv
  <2>2. stage = "install" => \A i \in DOMAIN lh : dlog[i] = bread(lh[i])'
    <3> SUFFICES ASSUME stage = "install", NEW i \in DOMAIN lh
                 PROVE  dlog[i] = bread(lh[i])'
      BY Zenon
    <3>1. dlog[i] = bread(lh[i])
      BY Zenon DEF LogInv, DataInv
    <3>2. CASE i = tail
      BY <1>2, <1>8, <3>2, Zenon DEF bread, header
    <3>3. CASE i # tail
      BY <1>2, <1>8, <1>9, <3>1, <3>3, Zenon DEF bread, header
    <3> QED
      BY <3>2, <3>3, Zenon
  <2>3. stage = "install" => pinned' \subseteq {lh[i] : i \in (tail + 1)..Len(lh)}
    BY <1>2, <1>3 DEF LogInv, DataInv
  <2>4. stage = "recover" => pinned' = {}
    BY <1>2, Zenon DEF LogInv, DataInv, BootStages
  <2>5. \A x \in Blocks :
          x \notin pinned' /\ (\A q \in Procs : held'[q] # x)
            => cache'[x] \in {None, disk'[x]}
    BY <1>2, <1>8, Zenon DEF LogInv, DataInv, opvars
  <2>6. lh' = lh /\ dlog' = dlog
    BY <1>2, Zenon DEF header
  <2>7. CASE stage' = stage
    BY <1>1, <1>3, <2>1, <2>2, <2>3, <2>4, <2>5, <2>6, <2>7 DEF DataInv, BootStages
  <2>8. CASE stage' = s
    <3>1. pinned' = {}
      BY <1>1, <1>3, <2>3, <2>4, <2>8
    <3>2. \A i \in DOMAIN lh : i \in 1..tail
      BY <1>3, <2>8 DEF LogInv, NeverPanics, TypeOK
    <3> QED
      BY <1>1, <2>1, <2>2, <2>5, <2>6, <2>8, <3>1, <3>2, Zenon DEF DataInv, BootStages
  <2> QED
    BY <1>3, <2>7, <2>8, Zenon
<1> QED
  BY <1>2, <1>5, <1>6, <1>7, <1>10, Zenon DEF LogInv, NeverPanics

\* The header is cleared once every block is at home.
LEMMA EraseKeeps ==
  ASSUME LogInv, erase_head \/ recover_erase
  PROVE  LogInv'
<1>1. PICK s \in {"done", "run"} :
        /\ stage = IF s = "done" THEN "erase" ELSE "recover_erase"
        /\ stage' = s
  BY Zenon DEF erase_head, recover_erase, Erase
<1>2. /\ lh' = <<>> /\ dhead' = <<>>
      /\ UNCHANGED <<disk, dlog, buffers, outstanding, committing, opvars, tail,
                     panicked>>
  BY Zenon DEF erase_head, recover_erase, Erase
<1>3. tail = 1 /\ Len(lh') = 0 /\ LogSet' = {} /\ DOMAIN lh' = {}
  BY <1>1, <1>2 DEF LogInv, HeadInv, LogSet
<1>4. Reserved' /\ NoMissedSpace' /\ ControlInv' /\ ShareInv'
  <2>1. /\ stage \in CommitStages \cup BootStages
        /\ stage' \in CommitStages <=> stage \in CommitStages
        /\ stage' \in BootStages => stage \in BootStages
    BY <1>1, Zenon DEF CommitStages, BootStages
  <2>2. Len(lh') \in Nat /\ Len(lh') <= LOGBLOCKS
    BY <1>3, LogAssumption
  <2> QED
    BY <1>2, <2>1, <2>2, CommitFrame, Zenon
<1>5. TypeOK'
  <2>1. lh' \in Seq(Blocks) /\ dhead' \in Seq(Blocks) /\ Len(dhead') = 0
    BY <1>2
  <2> QED
    BY <1>1, <1>2, <1>3, <2>1, LogAssumption
       DEF LogInv, NeverPanics, TypeOK, Stages, buffers, opvars
<1>6. HeadInv'
  BY <1>1, <1>2, <1>3, Zenon DEF LogInv, HeadInv
<1>7. DataInv'
  <2>1. pinned' = {}
    BY <1>1, <1>2, Zenon DEF LogInv, DataInv, BootStages, buffers
  <2>2. \A x \in Blocks :
          x \notin pinned' /\ (\A q \in Procs : held'[q] # x)
            => cache'[x] \in {None, disk'[x]}
    BY <1>2, Zenon DEF LogInv, DataInv, buffers, opvars
  <2> QED
    BY <1>1, <1>3, <2>1, <2>2, Zenon DEF DataInv, BootStages
<1> QED
  BY <1>2, <1>4, <1>5, <1>6, <1>7, Zenon DEF LogInv, NeverPanics

\* end_op(), second half: the commit is over and everybody is awake.
LEMMA DoneKeeps ==
  ASSUME LogInv, NEW p \in Procs, end_op_done(p)
  PROVE  LogInv'
<1>1. stage = "done" /\ stage' = "run" /\ pc[p] = "commit" /\ committing' = FALSE
        /\ UNCHANGED <<ondisk, buffers, lh, outstanding, held, wrote, tail, panicked>>
  BY Zenon DEF end_op_done
<1>2. \A q \in Procs : pc[q] # "op" /\ pc[q] \in PCs /\ (pc[q] = "commit" => q = p)
  BY <1>1, Zenon DEF LogInv, ControlInv, NeverPanics, TypeOK
<1>3. /\ pc' \in [Procs -> PCs]
      /\ \A q \in Procs : pc'[q] \notin {"op", "sleep", "commit"}
  BY <1>2, Zenon DEF end_op_done, wakeup, LogInv, NeverPanics, TypeOK, PCs
<1>4. Ops' = Ops /\ Unused' = Unused /\ LogSet' = LogSet
  BY <1>1, <1>2, <1>3, Zenon DEF Ops, Unused, LogSet
<1>5. TypeOK'
  <2>1. committing' \in BOOLEAN
    BY <1>1, Zenon
  <2> QED
    BY <1>1, <1>3, <2>1, Zenon DEF LogInv, NeverPanics, TypeOK, Stages, ondisk, buffers
<1>6. NeverPanics'
  BY <1>1, <1>4, <1>5, Zenon DEF LogInv, NeverPanics, Reserved
<1>7. NoMissedSpace'
  BY <1>3, Zenon DEF NoMissedSpace
<1>8. ControlInv'
  <2>1. stage' \notin CommitStages /\ stage' \notin BootStages
    BY <1>1, Zenon DEF CommitStages, BootStages
  <2>2. committing' <=> stage' \in CommitStages
    BY <1>1, <2>1, Zenon
  <2> QED
    BY <1>1, <1>3, <1>4, <2>1, <2>2, Zenon DEF LogInv, ControlInv
<1>9. ShareInv'
  BY <1>1, <1>2, <1>4, Zenon DEF LogInv, ShareInv
<1>10. HeadInv'
  BY <1>1, Zenon DEF LogInv, HeadInv, ondisk
<1>11. DataInv'
  <2>1. pinned' = LogSet'
    BY <1>1, <1>4 DEF LogInv, DataInv, HeadInv, LogSet, buffers
  <2>2. \A x \in Blocks :
          x \notin pinned' /\ (\A q \in Procs : held'[q] # x)
            => cache'[x] \in {None, disk'[x]}
    BY <1>1, Zenon DEF LogInv, DataInv, buffers, ondisk
  <2> QED
    BY <1>1, <2>1, <2>2, Zenon DEF DataInv, BootStages
<1> QED
  BY <1>6, <1>7, <1>8, <1>9, <1>10, <1>11 DEF LogInv

\* Evicting a buffer that is neither pinned nor held changes no block.
LEMMA EvictKeeps ==
  ASSUME LogInv, NEW b \in Blocks, evict(b)
  PROVE  LogInv' /\ \A x \in Blocks : bread(x)' = bread(x)
<1>1. UNCHANGED <<ondisk, pinned, header, opvars, stage, tail, panicked>>
  BY Zenon DEF evict
<1>2. cache[b] = disk[b] /\ cache'[b] = None
        /\ \A x \in Blocks \ {b} : cache'[x] = cache[x]
  BY Zenon DEF evict, LogInv, DataInv, NeverPanics, TypeOK
<1>3. \A x \in Blocks : bread(x)' = bread(x)
  BY <1>1, <1>2, Zenon DEF bread, ondisk
<1>4. Ops' = Ops /\ Unused' = Unused /\ LogSet' = LogSet
  BY <1>1, Zenon DEF Ops, Unused, LogSet, opvars, header
<1>5. TypeOK'
  <2>1. cache' \in [Blocks -> Vals \cup {None}]
    BY Zenon DEF evict, LogInv, NeverPanics, TypeOK
  <2> QED
    BY <1>1, <2>1, Zenon DEF LogInv, NeverPanics, TypeOK, ondisk, opvars, header
<1>6. NeverPanics'
  BY <1>1, <1>4, <1>5, Zenon DEF LogInv, NeverPanics, Reserved, header
<1>7. NoMissedSpace' /\ ControlInv'
  BY <1>1, <1>4, Zenon DEF LogInv, NoMissedSpace, MustWait, ControlInv, header, opvars
<1>8. ShareInv'
  BY <1>1, <1>4, Zenon DEF LogInv, ShareInv, opvars
<1>9. HeadInv'
  BY <1>1, Zenon DEF LogInv, HeadInv, header, ondisk
<1>10. DataInv'
  <2>1. \A i \in DOMAIN lh : lh[i] \in Blocks
    BY DEF LogInv, NeverPanics, TypeOK
  <2>2. stage = "write_log" => \A i \in 1..(tail - 1) : i \in DOMAIN lh
    BY DEF LogInv, NeverPanics, TypeOK, HeadInv
  <2>3. \A i \in DOMAIN lh : bread(lh[i])' = bread(lh[i])
    BY <1>1, <1>3, <2>1, Zenon DEF header, bread
  <2>4. \A x \in Blocks :
          x \notin pinned' /\ (\A q \in Procs : held'[q] # x)
            => cache'[x] \in {None, disk'[x]}
    BY <1>1, <1>2, Zenon DEF LogInv, DataInv, opvars, ondisk
  <2>5. lh' = lh /\ dlog' = dlog /\ disk' = disk
    BY <1>1, Zenon DEF header, ondisk
  <2>6. /\ stage' = "write_log" => \A i \in 1..(tail' - 1) : dlog'[i] = bread(lh[i])'
        /\ stage' \in {"write_head", "install", "erase"} =>
             \A i \in DOMAIN lh' : dlog'[i] = bread(lh[i])'
    BY <1>1, <2>2, <2>3, <2>5, Zenon DEF LogInv, DataInv
  <2> QED
    BY <1>1, <1>4, <2>4, <2>5, <2>6 DEF LogInv, DataInv
<1> QED
  BY <1>3, <1>6, <1>7, <1>8, <1>9, <1>10, Zenon DEF LogInv

\* A crash forgets everything but the disk.
LEMMA CrashKeeps ==
  ASSUME LogInv, crash
  PROVE  LogInv'
<1>1. Ops' = {} /\ Unused' = {} /\ Len(lh') = 0 /\ LogSet' = {}
  BY DEF crash, Ops, Unused, LogSet
<1>2. Cardinality(Ops') = 0 /\ Cardinality(Unused') = 0
  BY <1>1, FS_EmptySet, Zenon
<1>3. TypeOK'
  <2>1. pc' \in [Procs -> PCs] /\ stage' \in Stages
    BY Zenon DEF crash, PCs, Stages
  <2>2. committing' \in BOOLEAN /\ panicked' \in BOOLEAN
    BY Zenon DEF crash
  <2>3. lh' \in Seq(Blocks) /\ UNCHANGED <<disk, dlog, dhead>>
    BY DEF crash, ondisk
  <2> QED
    BY <1>1, <2>1, <2>2, <2>3, LogAssumption DEF crash, TypeOK, LogInv, NeverPanics
<1>4. Reserved'
  BY <1>1, <1>2, LogAssumption DEF Reserved
<1>5. NeverPanics'
  BY <1>3, <1>4, Zenon DEF NeverPanics, crash
<1>6. NoMissedSpace'
  BY Zenon DEF NoMissedSpace, crash
<1>7. ControlInv'
  <2>1. stage' \notin CommitStages
    BY Zenon DEF crash, CommitStages
  <2>2. committing' <=> stage' \in CommitStages
    BY <2>1, Zenon DEF crash
  <2> QED
    BY <1>2, <2>2, Zenon DEF crash, ControlInv
<1>8. ShareInv'
  BY Zenon DEF crash, ShareInv
<1>9. HeadInv'
  BY Zenon DEF crash, HeadInv, LogInv, ondisk
<1>10. DataInv'
  BY Zenon DEF crash, DataInv, BootStages
<1> QED
  BY <1>5, <1>6, <1>7, <1>8, <1>9, <1>10, Zenon DEF LogInv

\* recover_from_log() reads the header.
LEMMA ReadHeadKeeps ==
  ASSUME LogInv, read_head
  PROVE  LogInv'
<1>1. /\ stage = "boot" /\ lh' = dhead
      /\ UNCHANGED <<ondisk, buffers, outstanding, committing, opvars, tail, panicked>>
  BY Zenon DEF read_head
<1>2. /\ stage' \in {"recover", "recover_erase"}
      /\ stage' = "recover" <=> dhead # <<>>
  BY Zenon DEF read_head
<1>3. dhead \in Seq(Blocks) /\ Len(dhead) <= LOGBLOCKS /\ tail = 1
        /\ (dhead # <<>> => 1 <= Len(dhead)) /\ LOGBLOCKS \in Nat
        /\ (dhead = <<>> => DOMAIN dhead = {})
  BY <1>1, LogAssumption DEF LogInv, NeverPanics, TypeOK, HeadInv
<1>4. Reserved' /\ NoMissedSpace' /\ ControlInv' /\ ShareInv'
  <2>1. /\ stage \in BootStages /\ stage' \in BootStages
        /\ stage \notin CommitStages /\ stage' \notin CommitStages
    BY <1>1, <1>2, Zenon DEF CommitStages, BootStages
  <2>2. Len(lh') \in Nat /\ Len(lh') <= LOGBLOCKS
    BY <1>1, <1>3
  <2> QED
    BY <1>1, <2>1, <2>2, CommitFrame, Zenon
<1>5. TypeOK'
  BY <1>1, <1>2, <1>3
     DEF LogInv, NeverPanics, TypeOK, HeadInv, Stages, buffers, opvars, ondisk
<1>6. HeadInv'
  BY <1>1, <1>2, <1>3, Zenon DEF LogInv, HeadInv, ondisk
<1>7. DataInv'
  <2>1. pinned' = {} /\ 1..(tail' - 1) = {}
    BY <1>1, <1>3 DEF LogInv, DataInv, BootStages, buffers
  <2>2. \A x \in Blocks :
          x \notin pinned' /\ (\A q \in Procs : held'[q] # x)
            => cache'[x] \in {None, disk'[x]}
    BY <1>1, Zenon DEF LogInv, DataInv, buffers, opvars, ondisk
  <2> QED
    BY <1>1, <1>2, <1>3, <2>1, <2>2, Zenon DEF DataInv, BootStages
<1> QED
  BY <1>1, <1>4, <1>5, <1>6, <1>7, Zenon DEF LogInv, NeverPanics

\* A stuttering step.
LEMMA StutterKeeps ==
  ASSUME LogInv, UNCHANGED vars
  PROVE  LogInv'
<1>1. UNCHANGED <<ondisk, buffers, header, opvars, stage, tail, panicked>>
  BY Zenon DEF vars
<1>2. Ops' = Ops /\ Unused' = Unused /\ LogSet' = LogSet
  BY <1>1, Zenon DEF Ops, Unused, LogSet, opvars, header
<1>3. TypeOK'
  BY <1>1, Zenon DEF LogInv, NeverPanics, TypeOK, ondisk, buffers, opvars, header
<1>4. NeverPanics'
  BY <1>1, <1>2, <1>3, Zenon DEF LogInv, NeverPanics, Reserved, header
<1>5. NoMissedSpace' /\ ControlInv'
  BY <1>1, <1>2, Zenon DEF LogInv, NoMissedSpace, MustWait, ControlInv, header, opvars
<1>6. ShareInv' /\ HeadInv'
  BY <1>1, <1>2, Zenon DEF LogInv, ShareInv, HeadInv, opvars, header, ondisk
<1>7. DataInv'
  BY <1>1, DataFrame, Zenon DEF LogInv, header, opvars
<1> QED
  BY <1>4, <1>5, <1>6, <1>7, Zenon DEF LogInv

LEMMA LogStep == ASSUME LogInv, [Next]_vars PROVE LogInv'
<1>1. ASSUME NEW p \in Procs, OpStep(p) PROVE LogInv'
  BY <1>1, WaitKeeps, BeginKeeps, UpdateKeeps, LogWriteKeeps, EndKeeps, Zenon DEF OpStep
<1>2. ASSUME CommitStep PROVE LogInv'
  BY Zenon, <1>2, WriteLogKeeps, WriteHeadKeeps, InstallKeeps, EraseKeeps, DoneKeeps,
     ReadHeadKeeps DEF CommitStep
<1>3. ASSUME NEW b \in Blocks, evict(b) PROVE LogInv'
  BY <1>3, EvictKeeps, Zenon
<1> QED
  BY <1>1, <1>2, <1>3, CrashKeeps, StutterKeeps, Zenon DEF Next

\* The inductive invariant of the log: space, shares, the header on disk and
\* the copies of every block, through commits, crashes and recoveries.
THEOREM LogInvariant == Spec => []LogInv
<1>1. Init => LogInv
  BY LogInitially, Zenon
<1>2. LogInv /\ [Next]_vars => LogInv'
  BY LogStep, Zenon
<1> QED
  BY <1>1, <1>2, PTL DEF Spec

\* The log never overflows and log_write() and end_op() never panic, however
\* many operations run at once: begin_op() reserves enough.
THEOREM LogNeverPanics == Spec => []NeverPanics
<1>1. LogInv => NeverPanics
  BY Zenon DEF LogInv
<1> QED
  BY <1>1, LogInvariant, PTL

\* Nobody sleeps in begin_op() while there is space and no commit: each
\* wakeup() of end_op() comes in time.
THEOREM LogWakesSleepers == Spec => []NoMissedSpace
<1>1. LogInv => NoMissedSpace
  BY Zenon DEF LogInv
<1> QED
  BY <1>1, LogInvariant, PTL

-----------------------------------------------------------------------------
(* The refinement *)

\* What recovery makes of a disk d with the log l and the header h.
Recovered(d, l, h) ==
  [b \in Blocks |-> IF \E i \in DOMAIN h : h[i] = b
                      THEN l[CHOOSE i \in DOMAIN h : h[i] = b] ELSE d[b]]

\* Recovery takes a block from the log if the header names it.
LEMMA RecoveredBlocks ==
  ASSUME NEW d, NEW l, NEW h, \A i, j \in DOMAIN h : h[i] = h[j] => i = j
  PROVE  /\ \A b \in Blocks :
              (\A i \in DOMAIN h : h[i] # b) => Recovered(d, l, h)[b] = d[b]
         /\ \A i \in DOMAIN h : h[i] \in Blocks => Recovered(d, l, h)[h[i]] = l[i]
<1>1. ASSUME NEW i \in DOMAIN h, h[i] \in Blocks
      PROVE  Recovered(d, l, h)[h[i]] = l[i]
  <2> DEFINE k == CHOOSE j \in DOMAIN h : h[j] = h[i]
  <2>1. k \in DOMAIN h /\ h[k] = h[i]
    BY Zenon
  <2>2. k = i
    BY <2>1, Zenon
  <2> QED
    BY <1>1, <2>2, Zenon DEF Recovered
<1> QED
  BY <1>1, Zenon DEF Recovered

\* With an empty header the disk is what recovery finds.
LEMMA RecoveredEmpty ==
  ASSUME NEW d \in [Blocks -> Vals], NEW l PROVE Recovered(d, l, <<>>) = d
BY DEF Recovered

\* Two disks recover to the same when they agree outside the header.
LEMMA RecoveredSame ==
  ASSUME NEW d, NEW e, NEW l, NEW h,
         \A b \in Blocks : (\A i \in DOMAIN h : h[i] # b) => d[b] = e[b]
  PROVE  Recovered(d, l, h) = Recovered(e, l, h)
BY Zenon DEF Recovered

LEMMA StableIsRecovered ==
  /\ Stable = Recovered(disk, dlog, dhead)
  /\ Stable' = Recovered(disk', dlog', dhead')
BY Zenon DEF Stable, Recovered

\* The blocks as the file system sees them.
Buffered == [b \in Blocks |-> bread(b)]

LEMMA MemoryIs ==
  /\ Memory = IF stage \in BootStages THEN Stable ELSE Buffered
  /\ Memory' = IF stage' \in BootStages THEN Stable' ELSE Buffered'
BY Zenon DEF Memory, BootStages, Buffered

\* A buffer that is neither pinned nor held shows what is on the disk.
LEMMA CleanBread ==
  ASSUME LogInv, NEW b \in Blocks, b \notin pinned, \A p \in Procs : held[p] # b
  PROVE  bread(b) = disk[b]
BY Zenon DEF LogInv, DataInv, bread

\* A step of the running system that leaves the disk and the blocks alone.
LEMMA RunningStep ==
  ASSUME UNCHANGED <<ondisk, cache>>,
         stage \notin BootStages, stage' \notin BootStages
  PROVE  UNCHANGED <<Memory, Stable>>
<1>1. Stable' = Stable
  BY StableIsRecovered, Zenon DEF ondisk
<1>2. Buffered' = Buffered
  BY Zenon DEF Buffered, bread, ondisk
<1> QED
  BY <1>1, <1>2, MemoryIs, Zenon

AbstractStep == A!ANext \/ UNCHANGED <<Memory, Stable, Ops>>

\* begin_op, the updates and end_op are those of the abstract disk; waiting and
\* logging are not seen.
LEMMA OpRefines ==
  ASSUME LogInv, LogInv', NEW p \in Procs, OpStep(p)
  PROVE  AbstractStep
<1>1. CASE syscall(p) \/ begin_op_sleep(p)
  <2>1. stage \notin BootStages /\ stage' = stage /\ UNCHANGED <<ondisk, cache>>
    BY <1>1, Zenon
       DEF syscall, begin_op_sleep, Booted, BootStages, buffers, LogInv, ControlInv
  <2>2. Ops' = Ops
    BY <1>1, Zenon DEF syscall, begin_op_sleep, Ops, LogInv, NeverPanics, TypeOK
  <2> QED
    BY <2>1, <2>2, RunningStep, Zenon DEF AbstractStep
<1>2. CASE begin_op(p)
  <2>1. stage \notin BootStages /\ stage' = stage /\ UNCHANGED <<ondisk, cache>>
    BY <1>2, Zenon DEF begin_op, BootStages, buffers, LogInv, ControlInv
  <2>2. Ops' = Ops \cup {p} /\ p \notin Ops
    BY <1>2 DEF begin_op, Ops, LogInv, NeverPanics, TypeOK, PCs
  <2>3. A!Begin(p)
    BY <2>1, <2>2, RunningStep, Zenon DEF A!Begin, Ops
  <2> QED
    BY <2>3, Zenon DEF AbstractStep, A!ANext
<1>3. ASSUME NEW b \in Blocks, NEW v \in Vals, update(p, b, v)
      PROVE  AbstractStep
  <2>1. stage = "run" /\ stage' = stage /\ UNCHANGED <<disk, dlog, dhead>> /\ p \in Ops
          /\ pc' = pc
    BY <1>3, Zenon DEF update, LogInv, ControlInv, ondisk, Ops
  <2>2. stage \notin BootStages /\ stage' \notin BootStages
    BY <2>1, Zenon DEF BootStages
  <2>3. Stable' = Stable /\ Ops' = Ops
    BY <2>1, StableIsRecovered, Zenon DEF Ops
  <2>4. \A x \in Blocks : bread(x)' = IF x = b THEN v ELSE bread(x)
    BY <1>3, <2>1, LogAssumption, Zenon DEF update, bread, LogInv, NeverPanics, TypeOK
  <2>5. Buffered' = [Buffered EXCEPT ![b] = v]
    BY <2>4, Zenon DEF Buffered
  <2>6. A!Update(p, b, v)
    BY <2>1, <2>2, <2>3, <2>5, MemoryIs, Zenon DEF A!Update, Ops
  <2> QED
    BY <2>6, Zenon DEF AbstractStep, A!ANext
<1>4. CASE log_write(p)
  <2>1. stage = "run" /\ stage' = stage /\ UNCHANGED <<ondisk, cache, pc>>
    BY <1>4, LogWriteFits, Zenon DEF log_write, LogInv, ControlInv
  <2>2. stage \notin BootStages /\ Ops' = Ops
    BY <2>1, Zenon DEF BootStages, Ops
  <2> QED
    BY <2>1, <2>2, RunningStep, Zenon DEF AbstractStep
<1>5. CASE end_op(p)
  <2>1. stage = "run" /\ p \in Ops /\ UNCHANGED <<ondisk, cache>>
    BY <1>5, Zenon DEF end_op, LogInv, ControlInv, buffers, Ops
  <2>2. stage \notin BootStages /\ stage' \notin BootStages
    BY <1>5, <2>1, Zenon DEF BootStages, end_op
  <2>3. Ops' = Ops \ {p}
    BY <1>5 DEF end_op, wakeup, Ops, LogInv, NeverPanics, TypeOK
  <2>4. A!End(p)
    BY <2>1, <2>2, <2>3, RunningStep, Zenon DEF A!End, Ops
  <2> QED
    BY <2>4, Zenon DEF AbstractStep, A!ANext
<1> QED
  BY <1>1, <1>2, <1>3, <1>4, <1>5, Zenon DEF OpStep

\* write_log() writes what no header names.
LEMMA WriteLogRefines ==
  ASSUME LogInv, write_log
  PROVE  UNCHANGED <<Memory, Stable, Ops>>
<1>1. /\ stage = "write_log" /\ stage' \in {"write_log", "write_head"}
      /\ UNCHANGED <<disk, dhead, buffers, header, opvars, panicked>>
  BY Zenon DEF write_log, NextTail
<1>2. stage \notin BootStages /\ stage' \notin BootStages /\ dhead = <<>>
        /\ disk \in [Blocks -> Vals]
  BY <1>1, Zenon DEF BootStages, LogInv, HeadInv, NeverPanics, TypeOK
<1>3. Stable' = Stable
  BY <1>1, <1>2, StableIsRecovered, RecoveredEmpty, Zenon
<1>4. Buffered' = Buffered /\ Ops' = Ops
  BY <1>1, Zenon DEF Buffered, bread, buffers, Ops, opvars
<1> QED
  BY <1>2, <1>3, <1>4, MemoryIs, Zenon

\* The write of the header is the moment of the commit: all of the
\* transaction becomes stable, between operations.
LEMMA WriteHeadRefines ==
  ASSUME LogInv, LogInv', write_head
  PROVE  A!Commit
<1>1. /\ stage = "write_head" /\ stage' = "install" /\ dhead' = lh
      /\ UNCHANGED <<disk, dlog, buffers, header, opvars, tail, panicked>>
  BY Zenon DEF write_head
<1>2. stage \notin BootStages /\ stage' \notin BootStages
        /\ \A p \in Procs : pc[p] # "op" /\ held[p] = None
  BY <1>1, Zenon DEF BootStages, LogInv, ControlInv, ShareInv
<1>3. Ops = {} /\ Ops' = {} /\ Buffered' = Buffered
  BY <1>1, <1>2, Zenon DEF Ops, opvars, Buffered, bread, buffers
<1>4. /\ Stable' = Recovered(disk, dlog, lh)
      /\ \A i, j \in DOMAIN lh : lh[i] = lh[j] => i = j
  BY <1>1, StableIsRecovered, Zenon DEF LogInv, NeverPanics, TypeOK
<1> DEFINE rec == Recovered(disk, dlog, lh)
<1>5. /\ \A b \in Blocks : (\A i \in DOMAIN lh : lh[i] # b) => rec[b] = disk[b]
      /\ \A i \in DOMAIN lh : lh[i] \in Blocks => rec[lh[i]] = dlog[i]
  BY <1>4, RecoveredBlocks
<1> HIDE DEF rec
<1>6. ASSUME NEW b \in Blocks PROVE rec[b] = bread(b)
  <2>1. CASE \E i \in DOMAIN lh : lh[i] = b
    <3>1. PICK i \in DOMAIN lh : lh[i] = b
      BY <2>1, Zenon
    <3>2. rec[b] = dlog[i]
      BY <1>5, <3>1, Zenon
    <3> QED
      BY <1>1, <3>1, <3>2, Zenon DEF LogInv, DataInv
  <2>2. CASE \A i \in DOMAIN lh : lh[i] # b
    <3>1. b \notin pinned /\ \A p \in Procs : held[p] # b
      BY <1>1, <1>2, <2>2, LogAssumption DEF LogInv, DataInv, LogSet
    <3> QED
      BY <1>5, <2>2, <3>1, CleanBread, Zenon
  <2> QED
    BY <2>1, <2>2, Zenon
<1>7. Stable' = Buffered
  <2>1. rec = [b \in Blocks |-> rec[b]]
    BY Zenon DEF rec, Recovered
  <2>2. Stable' = rec
    BY <1>4, Zenon DEF rec
  <2> QED
    BY <1>6, <2>1, <2>2, Zenon DEF Buffered
<1> QED
  BY <1>2, <1>3, <1>7, MemoryIs, Zenon DEF A!Commit, Ops

\* install_trans() changes only blocks the header names, to what recovery
\* would make of them.
LEMMA InstallRefines ==
  ASSUME LogInv, install_trans \/ recover_install
  PROVE  UNCHANGED <<Memory, Stable, Ops>>
<1> DEFINE b == lh[tail]
<1>1. PICK s \in {"erase", "recover_erase"} :
        /\ stage = IF s = "erase" THEN "install" ELSE "recover"
        /\ NextTail(stage, s)
  BY DEF install_trans, recover_install, Install
<1>2. /\ disk' = [disk EXCEPT ![b] = dlog[tail]]
      /\ cache' = [cache EXCEPT ![b] = dlog[tail]]
      /\ UNCHANGED <<dlog, dhead, header, opvars, panicked>>
  BY Zenon DEF install_trans, recover_install, Install
<1>3. tail \in DOMAIN lh /\ b \in Blocks /\ stage' \in {stage, s} /\ dhead = lh
        /\ tail \in 1..LOGBLOCKS
  <2>1. tail \in 1..Len(lh) /\ tail \in 1..LOGBLOCKS /\ b \in Blocks /\ stage' \in {stage, s}
    BY <1>1, LoopStays, Zenon
  <2> QED
    BY <1>1, <2>1 DEF LogInv, NeverPanics, TypeOK, HeadInv
<1>4. \A x \in Blocks \ {b} : disk'[x] = disk[x] /\ cache'[x] = cache[x]
  BY <1>2, Zenon DEF LogInv, NeverPanics, TypeOK
<1>5. Stable' = Stable
  <2>1. \A x \in Blocks : (\A i \in DOMAIN dhead : dhead[i] # x) => disk'[x] = disk[x]
    BY <1>3, <1>4, Zenon
  <2>2. Recovered(disk', dlog, dhead) = Recovered(disk, dlog, dhead)
    BY <2>1, RecoveredSame
  <2> QED
    BY <1>2, <2>2, StableIsRecovered, Zenon
<1>6. Ops' = Ops
  BY <1>2, Zenon DEF Ops, opvars
<1>7. CASE s = "erase"
  <2>1. stage \notin BootStages /\ stage' \notin BootStages /\ stage = "install"
    BY <1>1, <1>3, <1>7, Zenon DEF BootStages
  <2>2. bread(b) = dlog[tail] /\ dlog[tail] # None
    <3>1. \A i \in DOMAIN lh : dlog[i] = bread(lh[i])
      BY <2>1, Zenon DEF LogInv, DataInv
    <3>2. dlog[tail] \in Vals /\ None \notin Vals
      BY <1>3, LogAssumption, Zenon DEF LogInv, NeverPanics, TypeOK
    <3> QED
      BY <1>3, <3>1, <3>2, Zenon
  <2>3. cache'[b] = dlog[tail]
    BY <1>2, <1>3, Zenon DEF LogInv, NeverPanics, TypeOK
  <2>4. \A x \in Blocks : bread(x)' = bread(x)
    BY <1>4, <2>2, <2>3, Zenon DEF bread
  <2>5. Buffered' = Buffered
    BY <2>4, Zenon DEF Buffered
  <2> QED
    BY <1>5, <1>6, <2>1, <2>5, MemoryIs, Zenon
<1>8. CASE s = "recover_erase"
  <2>1. stage \in BootStages /\ stage' \in BootStages
    BY <1>1, <1>3, <1>8, Zenon DEF BootStages
  <2> QED
    BY <1>5, <1>6, <2>1, MemoryIs, Zenon
<1> QED
  BY <1>7, <1>8, Zenon

\* Once every block is at home the header is not needed any more.
LEMMA EraseRefines ==
  ASSUME LogInv, LogInv', erase_head \/ recover_erase
  PROVE  UNCHANGED <<Memory, Stable, Ops>>
<1>1. PICK s \in {"done", "run"} :
        /\ stage = IF s = "done" THEN "erase" ELSE "recover_erase"
        /\ stage' = s
  BY Zenon DEF erase_head, recover_erase, Erase
<1>2. /\ dhead' = <<>>
      /\ UNCHANGED <<disk, dlog, buffers, outstanding, committing, opvars, tail,
                     panicked>>
  BY Zenon DEF erase_head, recover_erase, Erase
<1>3. dhead = lh /\ disk \in [Blocks -> Vals]
        /\ \A i \in DOMAIN lh : lh[i] \in Blocks /\ disk[lh[i]] = dlog[i]
  BY <1>1 DEF LogInv, HeadInv, DataInv, NeverPanics, TypeOK
<1>4. Stable = disk
  <2>1. \A i, j \in DOMAIN dhead : dhead[i] = dhead[j] => i = j
    BY Zenon DEF LogInv, HeadInv
  <2> DEFINE rec == Recovered(disk, dlog, dhead)
  <2>2. /\ \A b \in Blocks : (\A i \in DOMAIN dhead : dhead[i] # b) => rec[b] = disk[b]
        /\ \A i \in DOMAIN dhead : dhead[i] \in Blocks => rec[dhead[i]] = dlog[i]
    BY <2>1, RecoveredBlocks
  <2>3. Stable = rec /\ rec = [b \in Blocks |-> rec[b]]
    BY StableIsRecovered, Zenon DEF Recovered
  <2> HIDE DEF rec
  <2>4. \A b \in Blocks : rec[b] = disk[b]
    BY <1>3, <2>2
  <2> QED
    BY <1>3, <2>3, <2>4, Zenon
<1>5. Stable' = disk
  BY <1>2, <1>3, StableIsRecovered, RecoveredEmpty, Zenon
<1>6. Buffered' = Buffered /\ Ops' = Ops
  BY <1>2, Zenon DEF Buffered, bread, buffers, Ops, opvars
<1>7. CASE s = "done"
  <2>1. stage \notin BootStages /\ stage' \notin BootStages
    BY <1>1, <1>7, Zenon DEF BootStages
  <2> QED
    BY <1>4, <1>5, <1>6, <2>1, MemoryIs, Zenon
<1>8. CASE s = "run"
  <2>1. stage \in BootStages /\ stage' \notin BootStages
    BY <1>1, <1>8, Zenon DEF BootStages
  <2>2. pinned = {} /\ \A p \in Procs : held[p] = None
    BY <2>1, Zenon DEF LogInv, DataInv, ControlInv, ShareInv, BootStages
  <2>3. \A b \in Blocks : bread(b) = disk[b]
    BY <2>2, CleanBread, LogAssumption, Zenon
  <2>4. Buffered = disk
    BY <1>3, <2>3, Zenon DEF Buffered
  <2> QED
    BY <1>4, <1>5, <1>6, <2>1, <2>4, MemoryIs, Zenon
<1> QED
  BY <1>7, <1>8, Zenon

\* The end of the commit, an eviction and the reading of the header are not
\* seen; a crash is the crash of the abstract disk.
LEMMA OthersRefine ==
  ASSUME LogInv, LogInv',
         \/ \E p \in Procs : end_op_done(p)
         \/ read_head \/ crash \/ \E b \in Blocks : evict(b)
  PROVE  AbstractStep
<1>1. ASSUME NEW p \in Procs, end_op_done(p) PROVE AbstractStep
  <2>1. stage \notin BootStages /\ stage' \notin BootStages
          /\ UNCHANGED <<ondisk, cache>>
    BY <1>1, Zenon DEF end_op_done, BootStages, buffers
  <2>2. Ops' = Ops
    BY <1>1, Zenon DEF end_op_done, wakeup, Ops, LogInv, NeverPanics, TypeOK
  <2> QED
    BY <2>1, <2>2, RunningStep, Zenon DEF AbstractStep
<1>2. CASE read_head
  <2>1. stage \in BootStages /\ stage' \in BootStages /\ UNCHANGED <<ondisk, pc>>
    BY <1>2, Zenon DEF read_head, BootStages, opvars
  <2>2. Stable' = Stable /\ Ops' = Ops
    BY <2>1, StableIsRecovered, Zenon DEF ondisk, Ops
  <2> QED
    BY <2>1, <2>2, MemoryIs, Zenon DEF AbstractStep
<1>3. CASE crash
  <2>1. stage' \in BootStages /\ UNCHANGED ondisk /\ Ops' = {}
    BY <1>3, Zenon DEF crash, BootStages, Ops
  <2>2. Stable' = Stable
    BY <2>1, StableIsRecovered, Zenon DEF ondisk
  <2>3. A!Crash
    BY <2>1, <2>2, MemoryIs, Zenon DEF A!Crash, Ops
  <2> QED
    BY <2>3, Zenon DEF AbstractStep, A!ANext
<1>4. ASSUME NEW b \in Blocks, evict(b) PROVE AbstractStep
  <2>1. stage' = stage /\ UNCHANGED <<ondisk, pc>>
    BY <1>4, Zenon DEF evict, opvars
  <2>2. Stable' = Stable /\ Ops' = Ops
    BY <2>1, StableIsRecovered, Zenon DEF ondisk, Ops
  <2>3. Buffered' = Buffered
    BY <1>4, EvictKeeps, Zenon DEF Buffered
  <2> QED
    BY <2>1, <2>2, <2>3, MemoryIs, Zenon DEF AbstractStep
<1> QED
  BY <1>1, <1>2, <1>3, <1>4, Zenon

LEMMA StepRefines ==
  ASSUME LogInv, LogInv', [Next]_vars
  PROVE  AbstractStep
<1>1. ASSUME NEW p \in Procs, OpStep(p) PROVE AbstractStep
  BY <1>1, OpRefines, Zenon
<1>2. ASSUME CommitStep PROVE AbstractStep
  <2>1. CASE write_log \/ install_trans \/ recover_install \/ erase_head \/ recover_erase
    BY <2>1, WriteLogRefines, InstallRefines, EraseRefines, Zenon DEF AbstractStep
  <2>2. CASE write_head
    BY <2>2, WriteHeadRefines, Zenon DEF AbstractStep, A!ANext
  <2>3. CASE read_head \/ \E p \in Procs : end_op_done(p)
    BY <2>3, OthersRefine, Zenon
  <2> QED
    BY <1>2, <2>1, <2>2, <2>3, Zenon DEF CommitStep
<1>3. CASE UNCHANGED vars
  <2>1. UNCHANGED <<disk, dlog, dhead, cache, pc, stage>>
    BY <1>3, Zenon DEF vars, ondisk, buffers, opvars
  <2>2. UNCHANGED <<Memory, Stable, Ops>>
    BY <2>1, Zenon DEF Memory, Stable, Ops, bread
  <2> QED
    BY <2>2, Zenon DEF AbstractStep
<1> QED
  BY <1>1, <1>2, <1>3, OthersRefine, Zenon DEF Next

\* After the last end_op() has returned, what the file system sees is what a
\* crash would leave: nothing that was written can be lost.
THEOREM IdleLogIsDurable == Spec => []IdleIsDurable
<1>1. LogInv => IdleIsDurable
  <2> SUFFICES ASSUME LogInv, stage = "run", outstanding = 0
               PROVE  Memory = Stable
    BY Zenon DEF IdleIsDurable
  <2>1. lh = <<>> /\ dhead = <<>> /\ disk \in [Blocks -> Vals] /\ stage \notin BootStages
    BY Zenon DEF LogInv, HeadInv, NeverPanics, TypeOK, BootStages
  <2>2. Ops = {}
    BY CountsAreFinite, FS_EmptySet, Zenon DEF LogInv, ControlInv
  <2>3. pinned = {} /\ \A p \in Procs : held[p] = None
    BY <2>1, <2>2 DEF LogInv, DataInv, ShareInv, LogSet, Ops
  <2>4. \A b \in Blocks : bread(b) = disk[b]
    BY <2>3, CleanBread, LogAssumption, Zenon
  <2>5. Buffered = disk
    BY <2>1, <2>4, Zenon DEF Buffered
  <2>6. Stable = disk
    BY <2>1, StableIsRecovered, RecoveredEmpty, Zenon
  <2> QED
    BY <2>1, <2>5, <2>6, MemoryIs, Zenon
<1> QED
  BY <1>1, LogInvariant, PTL

\* The log implements an atomic disk, for any number of processes and blocks:
\* a crash at any step of an operation, of a commit or of a recovery takes
\* every block back to the last commit, and no commit cuts an operation.
THEOREM LogRefinesAtomicDisk == Spec => ImplementsAtomicDisk
<1>1. Init => A!AInit
  <2> SUFFICES ASSUME Init PROVE A!AInit
    BY Zenon
  <2>1. stage \in BootStages /\ dhead = <<>> /\ disk \in [Blocks -> Vals] /\ Ops = {}
    BY Zenon DEF Init, BootStages, Ops
  <2>2. Stable = disk
    BY <2>1, StableIsRecovered, RecoveredEmpty, Zenon
  <2> QED
    BY <2>1, <2>2, MemoryIs, Zenon DEF A!AInit, Ops
<1>2. LogInv /\ LogInv' /\ [Next]_vars => [A!ANext]_(A!avars)
  <2> SUFFICES ASSUME LogInv, LogInv', [Next]_vars PROVE [A!ANext]_(A!avars)
    BY Zenon
  <2>1. AbstractStep
    BY StepRefines, Zenon
  <2> QED
    BY <2>1, Zenon DEF AbstractStep, A!avars, Ops
<1> QED
  BY <1>1, <1>2, LogInvariant, PTL DEF Spec, ImplementsAtomicDisk, A!ASpec
=============================================================================
