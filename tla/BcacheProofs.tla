---------------------------- MODULE BcacheProofs ----------------------------
(***************************************************************************)
(* Proofs about the block cache, its sleep locks and the disk driver, for  *)
(* any number of processes, buffers, blocks and descriptors: a block has   *)
(* one buffer, nobody waits in vain for the disk, and the two together     *)
(* implement BlockStore.                                                   *)
(***************************************************************************)
EXTENDS Bcache, FiniteSetTheorems, WellFoundedInduction, TLAPS

-----------------------------------------------------------------------------
(* Numbers *)

\* A set of numbers up to n that is not empty has a greatest element.
LEMMA GreatestExists ==
  ASSUME NEW n \in Nat, NEW S \in SUBSET (0..n), S # {}
  PROVE  \E i \in S : \A j \in S : i >= j
  <1> DEFINE Above(i) == {j \in S : j > i}
             T == {Above(i) : i \in S}
  <1>1. IsFiniteSet(S) /\ S \subseteq Int
    <2>1. IsFiniteSet(0..n)
      BY FS_Interval, 0 \in Int, n \in Int, Zenon
    <2>2. IsFiniteSet(S)
      BY <2>1, FS_Subset, Zenon
    <2>3. QED
      BY <2>2
  <1>2. \A i \in S : Above(i) \in SUBSET S /\ IsFiniteSet(Above(i))
    BY <1>1, FS_Subset, Zenon
  <1>3. T \subseteq FiniteSubsetsOf(S) /\ T # {}
    BY <1>2, Zenon DEF FiniteSubsetsOf
  <1>4. ASSUME NEW i \in S, NEW j \in S, j > i
        PROVE  Above(j) \subseteq Above(i) /\ j \in Above(i) /\ j \notin Above(j)
    <2>1. ~(j > j) /\ \A k \in S : k > j => k > i
      BY <1>1, <1>4
    <2>2. QED
      BY <1>4, <2>1, Zenon
  <1> HIDE DEF T
  <1>5. PICK x \in T : \A y \in T : ~(<<y, x>> \in StrictSubsetOrdering(S))
    BY <1>3, FS_StrictSubsetOrderingWellFounded, WFMin, Zenon
  <1>6. PICK i \in S : x = Above(i)
    BY Zenon DEF T
  <1>7. ASSUME NEW j \in S, j > i PROVE FALSE
    <2>1. Above(j) \in T
      BY Zenon DEF T
    <2>2. <<Above(j), x>> \in StrictSubsetOrdering(S)
      BY <1>2, <1>4, <1>6, <1>7, Zenon DEF StrictSubsetOrdering
    <2>3. QED
      BY <1>5, <2>1, <2>2, Zenon
  <1>8. QED
    BY <1>1, <1>7

\* ... and a least one.
LEMMA LeastExists ==
  ASSUME NEW n \in Nat, NEW S \in SUBSET (0..n), S # {}
  PROVE  \E i \in S : \A j \in S : i <= j
  <1> DEFINE T == {n - i : i \in S}
  <1>1. T \in SUBSET (0..n) /\ T # {}
    <2>1. \A i \in S : n - i \in 0..n
      OBVIOUS
    <2>2. QED
      BY <2>1, Zenon
  <1> HIDE DEF T
  <1>2. PICK x \in T : \A y \in T : x >= y
    BY <1>1, GreatestExists, Zenon
  <1>3. PICK i \in S : x = n - i
    BY Zenon DEF T
  <1>4. \A j \in S : n - j \in T
    BY Zenon DEF T
  <1>5. \A j \in S : n - i >= n - j
    BY <1>2, <1>3, <1>4, Zenon
  <1>6. QED
    BY <1>5

-----------------------------------------------------------------------------
(* The list of buffers and their users *)

\* Every buffer is on the list.
ListHasAll ==
  /\ lru \in [1..Cardinality(Bufs) -> Bufs]
  /\ \A b \in Bufs : \E i \in 1..Cardinality(Bufs) : lru[i] = b

\* The number of buffers is a number.
LEMMA BufsAreFinite == Cardinality(Bufs) \in Nat
  BY VirtioAssumption, FS_CardinalityType, Zenon

\* binit() puts every buffer on the list.
LEMMA ListInitially ==
  ASSUME lru = CHOOSE l \in Bijection(1..Cardinality(Bufs), Bufs) : TRUE
  PROVE  ListHasAll
  <1>1. ExistsBijection(1..Cardinality(Bufs), Bufs)
    BY VirtioAssumption, FS_CardinalityType, Zenon
  <1>2. lru \in Bijection(1..Cardinality(Bufs), Bufs)
    BY <1>1, Zenon DEF ExistsBijection
  <1>3. QED
    BY <1>2, Zenon DEF Bijection, Injection, Surjection, ListHasAll

\* The scan from head.prev finds a buffer.
LEMMA LeastRecentFound ==
  ASSUME ListHasAll, NEW s \in SUBSET Bufs, s # {}
  PROVE  LeastRecent(s) \in s
  <1> DEFINE T == {i \in DOMAIN lru : lru[i] \in s}
  <1>1. T \in SUBSET (0..Cardinality(Bufs)) /\ T # {}
    BY BufsAreFinite DEF ListHasAll
  <1>2. PICK i \in T : \A j \in T : i >= j
    BY <1>1, BufsAreFinite, GreatestExists, Zenon
  <1>3. Max(T) \in T
    BY <1>2, Zenon DEF Max
  <1>4. QED
    BY <1>3, Zenon DEF LeastRecent

\* brelse() moves a buffer and loses none.
LEMMA ToFrontKeepsAll ==
  ASSUME ListHasAll, NEW b \in Bufs, lru' = ToFront(b) PROVE ListHasAll'
  <1> DEFINE n == Cardinality(Bufs)
             i == CHOOSE i \in DOMAIN lru : lru[i] = b
  <1>1. i \in 1..n /\ lru[i] = b /\ n \in Nat /\ DOMAIN lru = 1..n
    BY BufsAreFinite, Zenon DEF ListHasAll
  <1>2. lru' = [j \in 1..n |-> IF j = 1 THEN b ELSE IF j <= i THEN lru[j - 1] ELSE lru[j]]
    BY <1>1, Zenon DEF ToFront
  <1> HIDE DEF i
  <1>3. lru' \in [1..n -> Bufs]
    BY <1>1, <1>2 DEF ListHasAll
  <1>4. ASSUME NEW c \in Bufs PROVE \E j \in 1..n : lru'[j] = c
    <2>1. PICK k \in 1..n : lru[k] = c
      BY Zenon DEF ListHasAll
    <2>2. CASE k = i
      BY <1>1, <1>2, <2>1, <2>2, 1 \in 1..n, Zenon
    <2>3. CASE k < i
      BY <1>1, <1>2, <2>1, <2>3, k + 1 \in 1..n
    <2>4. CASE k > i
      BY <1>1, <1>2, <2>1, <2>4
    <2>5. QED
      BY <1>1, <2>2, <2>3, <2>4
  <1>5. QED
    BY <1>3, <1>4, Zenon DEF ListHasAll

\* The processes between bget() and the end of brelse() for a buffer.
Users(b) == {p \in Procs : buf[p] = b}

\* Their number is a number.
LEMMA UsersAreFinite ==
  ASSUME buf \in [Procs -> Bufs \cup {None}], NEW c \in Bufs
  PROVE  IsFiniteSet(Users(c)) /\ Cardinality(Users(c)) \in Nat
  BY VirtioAssumption, FS_Subset, FS_CardinalityType, Zenon DEF Users

\* A step that leaves the buffers of the processes alone leaves the users of
\* every buffer alone.
LEMMA UsersStay ==
  ASSUME UNCHANGED buf, NEW c \in Bufs
  PROVE  Cardinality(Users(c))' = Cardinality(Users(c))
  BY Zenon DEF Users

\* A process that comes to b adds one to it, ...
LEMMA UserComes ==
  ASSUME buf \in [Procs -> Bufs \cup {None}], NEW p \in Procs, NEW b \in Bufs,
         buf[p] = None, buf' = [buf EXCEPT ![p] = b], NEW c \in Bufs
  PROVE  Cardinality(Users(c))' = Cardinality(Users(c)) + (IF c = b THEN 1 ELSE 0)
  <1> None \notin Bufs
    BY VirtioAssumption, Zenon
  <1>1. CASE c = b
    <2>1. Users(c)' = Users(c) \cup {p} /\ p \notin Users(c)
      BY <1>1, Zenon DEF Users
    <2>2. QED
      BY <1>1, <2>1, UsersAreFinite, FS_AddElement, Zenon
  <1>2. CASE c # b
    <2>1. Users(c)' = Users(c)
      BY <1>2, Zenon DEF Users
    <2>2. QED
      BY <1>2, <2>1, UsersAreFinite
  <1>3. QED
    BY <1>1, <1>2, Zenon

\* ... and one that goes takes one from it.
LEMMA UserGoes ==
  ASSUME buf \in [Procs -> Bufs \cup {None}], NEW p \in Procs,
         buf[p] \in Bufs, buf' = [buf EXCEPT ![p] = None], NEW c \in Bufs
  PROVE  Cardinality(Users(c))' = Cardinality(Users(c)) - (IF c = buf[p] THEN 1 ELSE 0)
  <1> None \notin Bufs
    BY VirtioAssumption, Zenon
  <1>1. CASE c = buf[p]
    <2>1. Users(c)' = Users(c) \ {p} /\ p \in Users(c)
      BY <1>1, Zenon DEF Users
    <2>2. IsFiniteSet(Users(c)) /\ Cardinality(Users(c)) \in Nat
      BY UsersAreFinite, Zenon
    <2>3. Cardinality(Users(c) \ {p}) = Cardinality(Users(c)) - 1
      BY <2>1, <2>2, FS_RemoveElement, Zenon
    <2>4. QED
      BY <1>1, <2>1, <2>3, Zenon
  <1>2. CASE c # buf[p]
    <2>1. Users(c)' = Users(c)
      BY <1>2, Zenon DEF Users
    <2>2. QED
      BY <1>2, <2>1, UsersAreFinite
  <1>3. QED
    BY <1>1, <1>2, Zenon

-----------------------------------------------------------------------------
(* The inductive invariant of the cache *)

Labels == {"idle", "lock", "lock_sleep", "rw", "desc_sleep", "rw_sleep", "rw_wait",
           "hold", "put"}

\* Between acquiresleep() and releasesleep().
Holding == {"rw", "desc_sleep", "rw_sleep", "rw_wait", "hold"}

\* The reference counts are the users and the pins.
Counted ==
  /\ refcnt \in [Bufs -> Int]
  /\ \A b \in Bufs :
       refcnt[b] = Cardinality(Users(b)) + (IF b \in pinned THEN 1 ELSE 0)

\* A sleep lock is held by the process that is between acquiresleep() and
\* releasesleep(), and who waits for it waits for that process.
LocksHeld ==
  /\ \A p \in Procs :
       /\ pc[p] = "idle" <=> buf[p] = None
       /\ pc[p] \in Holding => owner[buf[p]] = p
       /\ pc[p] = "lock_sleep" => owner[buf[p]] # None
  /\ \A b \in Bufs :
       owner[b] # None => buf[owner[b]] = b /\ pc[owner[b]] \in Holding

CacheInv ==
  /\ pc \in [Procs -> Labels] /\ buf \in [Procs -> Bufs \cup {None}]
  /\ owner \in [Bufs -> Procs \cup {None}]
  /\ pinned \subseteq Bufs /\ blockno \in [Bufs -> Blocks \cup {None}]
  /\ ListHasAll /\ OneBufferPerBlock /\ Counted /\ LocksHeld

\* binit() establishes it.
LEMMA CacheInitially == Init => CacheInv
  <1> SUFFICES ASSUME Init PROVE CacheInv
    BY Zenon
  <1> USE VirtioAssumption DEF Init, VInit
  <1>1. Counted
    <2>1. \A b \in Bufs : Users(b) = {}
      BY Zenon DEF Users
    <2>2. \A b \in Bufs : Cardinality(Users(b)) = 0
      BY <2>1, FS_EmptySet, Zenon
    <2>3. refcnt = [b \in Bufs |-> 0] /\ pinned = {}
      BY Zenon
    <2>4. QED
      BY <2>2, <2>3 DEF Counted
  <1>2. ListHasAll
    BY ListInitially, Zenon
  <1>3. OneBufferPerBlock /\ LocksHeld
    BY Zenon DEF OneBufferPerBlock, LocksHeld, Holding
  <1>4. QED
    BY <1>1, <1>2, <1>3, Zenon DEF CacheInv, Labels

\* The counts stay right when nothing they count changes.
LEMMA CountsStay ==
  ASSUME Counted, UNCHANGED <<buf, refcnt, pinned>> PROVE Counted'
  BY UsersStay, Zenon DEF Counted

\* The list and the block numbers stay right when they do not change.
LEMMA CacheFrame ==
  ASSUME CacheInv, UNCHANGED <<buf, blockno, lru>>,
         pc' \in [Procs -> Labels], owner' \in [Bufs -> Procs \cup {None}],
         pinned' \subseteq Bufs, Counted', LocksHeld'
  PROVE  CacheInv'
  <1>1. ListHasAll'
    BY Zenon DEF CacheInv, ListHasAll
  <1>2. OneBufferPerBlock'
    BY Zenon DEF CacheInv, OneBufferPerBlock
  <1>3. QED
    BY <1>1, <1>2, Zenon DEF CacheInv

\* The locks stay with their holders while processes move about between
\* acquiresleep() and releasesleep(), or before acquiresleep().
LEMMA LocksStay ==
  ASSUME CacheInv, UNCHANGED <<buf, owner>>, pc' \in [Procs -> Labels],
         \A p \in Procs :
           \/ pc'[p] = pc[p]
           \/ pc[p] \in Holding /\ pc'[p] \in Holding
           \/ pc[p] = "lock" /\ pc'[p] = "lock_sleep" /\ owner[buf[p]] # None
           \/ pc[p] = "lock_sleep" /\ pc'[p] = "lock"
  PROVE  LocksHeld'
  <1> USE DEF CacheInv, Labels, Holding
  <1>1. ASSUME NEW p \in Procs
        PROVE  /\ (pc[p] = "idle" <=> buf[p] = None)'
               /\ (pc[p] \in Holding => owner[buf[p]] = p)'
               /\ (pc[p] = "lock_sleep" => owner[buf[p]] # None)'
    <2>1. /\ pc[p] = "idle" <=> buf[p] = None
          /\ pc[p] \in Holding => owner[buf[p]] = p
          /\ pc[p] = "lock_sleep" => owner[buf[p]] # None
      BY Zenon DEF LocksHeld
    <2>2. QED
      BY <2>1, Zenon
  <1>2. ASSUME NEW b \in Bufs, owner[b] # None
        PROVE  buf[owner[b]] = b /\ pc'[owner[b]] \in Holding
    <2>1. owner[b] \in Procs /\ buf[owner[b]] = b /\ pc[owner[b]] \in Holding
      BY <1>2 DEF LocksHeld
    <2>2. QED
      BY <2>1, Zenon
  <1>3. QED
    BY <1>1, <1>2, Zenon DEF LocksHeld

\* A step of the driver, of the device or of the interrupt handler moves processes
\* about between acquiresleep() and releasesleep() and does nothing else to the
\* cache.
LEMMA DriverKeeps ==
  ASSUME CacheInv, Driver, UNCHANGED cvars PROVE CacheInv'
  <1>1. /\ UNCHANGED <<buf, blockno>>
        /\ pc' \in [Procs -> Labels]
        /\ \A p \in Procs : \/ pc'[p] = pc[p]
                            \/ pc[p] \in Holding /\ pc'[p] \in Holding
    <2> USE DEF CacheInv, Labels, Holding, Wake
    <2>1. ASSUME NEW p \in Procs, rw_no_desc(p) PROVE <1>1!:
      BY <2>1, Zenon DEF rw_no_desc
    <2>2. ASSUME NEW p \in Procs, rw_submit(p) PROVE <1>1!:
      BY <2>2, Zenon DEF rw_submit
    <2>3. ASSUME NEW p \in Procs, rw_again(p) PROVE <1>1!:
      BY <2>3, Zenon DEF rw_again
    <2>4. ASSUME NEW d \in Desc, device(d) PROVE <1>1!:
      BY <2>4, Zenon DEF device
    <2>5. CASE intr_ack
      BY <2>5, Zenon DEF intr_ack
    <2>6. CASE intr_used
      BY <2>6, Zenon DEF intr_used
    <2>7. QED
      BY <2>1, <2>2, <2>3, <2>4, <2>5, <2>6, Zenon DEF Driver
  <1>2. LocksHeld'
    BY <1>1, LocksStay, Zenon DEF cvars
  <1>3. QED
    BY <1>1, <1>2, CountsStay, CacheFrame, Zenon DEF CacheInv, cvars

\* A process that enters bget() has no lock yet.
LEMMA EnterKeepsLocks ==
  ASSUME CacheInv, NEW p \in Procs, NEW b \in Bufs, buf[p] = None,
         buf' = [buf EXCEPT ![p] = b], pc' = [pc EXCEPT ![p] = "lock"], UNCHANGED owner
  PROVE  LocksHeld' /\ pc' \in [Procs -> Labels]
  <1> None \notin Procs /\ None \notin Bufs
    BY VirtioAssumption, Zenon
  <1>1. pc' \in [Procs -> Labels]
    BY Zenon DEF CacheInv, Labels
  <1>2. \A c \in Bufs : owner[c] # p
    BY DEF CacheInv, LocksHeld, Holding
  <1>3. QED
    BY <1>1, <1>2 DEF CacheInv, LocksHeld, Labels, Holding

\* A process that enters bget() and finds its block cached.
LEMMA CachedKeeps ==
  ASSUME CacheInv, NEW p \in Procs, NEW k \in Blocks, bget_cached(p, k) PROVE CacheInv'
  <1>1. PICK b \in Cached(k) : /\ refcnt' = [refcnt EXCEPT ![b] = @ + 1]
                               /\ buf' = [buf EXCEPT ![p] = b]
    BY Zenon DEF bget_cached
  <1>2. b \in Bufs /\ buf[p] = None
    BY <1>1, Zenon DEF Cached, bget_cached, CacheInv, LocksHeld
  <1>3. pc' = [pc EXCEPT ![p] = "lock"] /\ UNCHANGED <<blockno, lru, owner, pinned>>
    BY Zenon DEF bget_cached, Goto
  <1>4. Counted'
    <2>1. buf \in [Procs -> Bufs \cup {None}] /\ Counted
      BY Zenon DEF CacheInv
    <2>2. ASSUME NEW c \in Bufs
          PROVE  refcnt'[c] = Cardinality(Users(c))' + (IF c \in pinned THEN 1 ELSE 0)
      <3>1. /\ Cardinality(Users(c)) \in Nat
            /\ Cardinality(Users(c))' =
                 Cardinality(Users(c)) + (IF c = b THEN 1 ELSE 0)
        BY <1>1, <1>2, <2>1, UserComes, UsersAreFinite, Zenon
      <3>2. QED
        BY <1>1, <1>2, <2>1, <3>1 DEF Counted
    <2>3. refcnt' \in [Bufs -> Int]
      BY <1>1, <1>2, <2>1 DEF Counted
    <2>4. QED
      BY <1>3, <2>2, <2>3, Zenon DEF Counted
  <1>5. LocksHeld' /\ pc' \in [Procs -> Labels]
    BY <1>1, <1>2, <1>3, EnterKeepsLocks, Zenon
  <1>6. ListHasAll' /\ OneBufferPerBlock'
    BY <1>3, Zenon DEF CacheInv, ListHasAll, OneBufferPerBlock
  <1>7. buf' \in [Procs -> Bufs \cup {None}]
    BY <1>1, <1>2, Zenon DEF CacheInv
  <1>8. QED
    BY <1>3, <1>4, <1>5, <1>6, <1>7, Zenon DEF CacheInv

\* A process that recycles a buffer: nobody uses it, so nobody holds its lock.
LEMMA RecycleKeeps ==
  ASSUME CacheInv, NEW p \in Procs, NEW k \in Blocks, bget_recycle(p, k) PROVE CacheInv'
  <1> DEFINE b == LeastRecent(Unused)
  <1>1. b \in Bufs /\ refcnt[b] = 0
    <2>1. b \in Unused
      BY LeastRecentFound, Zenon DEF bget_recycle, Unused, CacheInv
    <2>2. QED
      BY <2>1, Zenon DEF Unused
  <1>2. /\ blockno' = [blockno EXCEPT ![b] = k] /\ refcnt' = [refcnt EXCEPT ![b] = 1]
        /\ buf' = [buf EXCEPT ![p] = b] /\ pc' = [pc EXCEPT ![p] = "lock"]
        /\ UNCHANGED <<lru, owner, pinned>> /\ Cached(k) = {}
    BY Zenon DEF bget_recycle, Goto
  <1>3. buf[p] = None
    BY Zenon DEF bget_recycle, CacheInv, LocksHeld
  <1> HIDE DEF b
  <1>4. Counted'
    <2>1. buf \in [Procs -> Bufs \cup {None}] /\ Counted
      BY Zenon DEF CacheInv
    <2>2. Cardinality(Users(b)) = 0 /\ b \notin pinned
      <3>1. Cardinality(Users(b)) \in Nat
        BY <1>1, <2>1, UsersAreFinite, Zenon
      <3>2. QED
        BY <1>1, <2>1, <3>1 DEF Counted
    <2>3. ASSUME NEW c \in Bufs
          PROVE  refcnt'[c] = Cardinality(Users(c))' + (IF c \in pinned THEN 1 ELSE 0)
      <3>1. /\ Cardinality(Users(c)) \in Nat
            /\ Cardinality(Users(c))' =
                 Cardinality(Users(c)) + (IF c = b THEN 1 ELSE 0)
        BY <1>1, <1>2, <1>3, <2>1, UserComes, UsersAreFinite, Zenon
      <3>2. QED
        BY <1>1, <1>2, <2>1, <2>2, <3>1 DEF Counted
    <2>4. refcnt' \in [Bufs -> Int]
      BY <1>1, <1>2, <2>1 DEF Counted
    <2>5. QED
      BY <1>2, <2>3, <2>4, Zenon DEF Counted
  <1>5. LocksHeld' /\ pc' \in [Procs -> Labels]
    BY <1>1, <1>2, <1>3, EnterKeepsLocks, Zenon
  <1>6. OneBufferPerBlock'
    BY <1>1, <1>2, VirtioAssumption, Zenon DEF CacheInv, OneBufferPerBlock, Cached
  <1>7. ListHasAll'
    BY <1>2, Zenon DEF CacheInv, ListHasAll
  <1>8. buf' \in [Procs -> Bufs \cup {None}] /\ blockno' \in [Bufs -> Blocks \cup {None}]
    BY <1>1, <1>2, Zenon DEF CacheInv
  <1>9. QED
    BY <1>2, <1>4, <1>5, <1>6, <1>7, <1>8, Zenon DEF CacheInv

\* A process that returns its buffer.
LEMMA BrelseKeeps ==
  ASSUME CacheInv, NEW p \in Procs, brelse(p) PROVE CacheInv'
  <1>1. buf[p] \in Bufs
    BY DEF brelse, CacheInv, LocksHeld
  <1>2. /\ refcnt' = [refcnt EXCEPT ![buf[p]] = @ - 1]
        /\ lru' = ToFront(buf[p]) \/ lru' = lru
        /\ buf' = [buf EXCEPT ![p] = None] /\ pc' = [pc EXCEPT ![p] = "idle"]
        /\ pc[p] = "put" /\ UNCHANGED <<blockno, owner, pinned>>
    BY Zenon DEF brelse, Goto
  <1>3. Counted'
    <2>1. buf \in [Procs -> Bufs \cup {None}] /\ Counted
      BY Zenon DEF CacheInv
    <2>2. ASSUME NEW c \in Bufs
          PROVE  refcnt'[c] = Cardinality(Users(c))' + (IF c \in pinned THEN 1 ELSE 0)
      <3>1. /\ Cardinality(Users(c)) \in Nat
            /\ Cardinality(Users(c))' =
                 Cardinality(Users(c)) - (IF c = buf[p] THEN 1 ELSE 0)
        BY <1>1, <1>2, <2>1, UserGoes, UsersAreFinite, Zenon
      <3>2. QED
        BY <1>1, <1>2, <2>1, <3>1 DEF Counted
    <2>3. refcnt' \in [Bufs -> Int]
      BY <1>1, <1>2, <2>1 DEF Counted
    <2>4. QED
      BY <1>2, <2>2, <2>3, Zenon DEF Counted
  <1>4. LocksHeld' /\ pc' \in [Procs -> Labels]
    <2>1. None \notin Procs /\ None \notin Bufs
      BY VirtioAssumption, Zenon
    <2>2. pc' \in [Procs -> Labels]
      BY <1>2, Zenon DEF CacheInv, Labels
    <2>3. \A c \in Bufs : owner[c] # p
      BY <1>2, <2>1 DEF CacheInv, LocksHeld, Holding
    <2>4. QED
      BY <1>2, <2>1, <2>2, <2>3 DEF CacheInv, LocksHeld, Labels, Holding
  <1>5. ListHasAll'
    BY <1>1, <1>2, ToFrontKeepsAll, Zenon DEF CacheInv, ListHasAll
  <1>6. OneBufferPerBlock'
    BY <1>2, Zenon DEF CacheInv, OneBufferPerBlock
  <1>7. buf' \in [Procs -> Bufs \cup {None}]
    BY <1>2, Zenon DEF CacheInv
  <1>8. QED
    BY <1>2, <1>3, <1>4, <1>5, <1>6, <1>7, Zenon DEF CacheInv

\* acquiresleep() and releasesleep().
LEMMA LockKeeps ==
  ASSUME CacheInv, NEW p \in Procs, acquiresleep(p) \/ brelse_unlock(p) PROVE CacheInv'
  <1> None \notin Procs /\ None \notin Bufs
    BY VirtioAssumption, Zenon
  <1>1. buf[p] \in Bufs /\ owner \in [Bufs -> Procs \cup {None}] /\ pc \in [Procs -> Labels]
    <2>1. pc[p] \in {"lock", "hold"}
      BY Zenon DEF acquiresleep, brelse_unlock
    <2>2. QED
      BY <2>1 DEF CacheInv, LocksHeld
  <1>2. UNCHANGED <<buf, blockno, refcnt, lru, pinned>> /\ Counted'
    BY CountsStay, Zenon DEF acquiresleep, brelse_unlock, CacheInv
  <1>3. CASE acquiresleep(p)
    <2>1. /\ owner[buf[p]] = None /\ owner' = [owner EXCEPT ![buf[p]] = p]
          /\ pc[p] = "lock" /\ \E l \in {"hold", "rw"} : pc' = [pc EXCEPT ![p] = l]
      BY <1>3, Zenon DEF acquiresleep, Goto
    <2>2. owner' \in [Bufs -> Procs \cup {None}] /\ pc' \in [Procs -> Labels]
      BY <1>1, <2>1, Zenon DEF Labels
    <2>3. LocksHeld'
      <3>1. \A b \in Bufs : owner'[b] # None => /\ buf'[owner'[b]] = b
                                               /\ pc'[owner'[b]] \in Holding
        BY <1>1, <1>2, <2>1 DEF CacheInv, LocksHeld, Holding
      <3>2. \A q \in Procs : /\ pc'[q] = "idle" <=> buf'[q] = None
                             /\ pc'[q] \in Holding => owner'[buf'[q]] = q
                             /\ pc'[q] = "lock_sleep" => owner'[buf'[q]] # None
        BY <1>1, <1>2, <2>1 DEF CacheInv, LocksHeld, Labels, Holding
      <3>3. QED
        BY <3>1, <3>2, Zenon DEF LocksHeld
    <2>4. QED
      BY <1>2, <2>2, <2>3, CacheFrame, Zenon DEF CacheInv
  <1>4. CASE brelse_unlock(p)
    <2>1. /\ owner' = [owner EXCEPT ![buf[p]] = None] /\ pc[p] = "hold"
          /\ pc' = [q \in Procs |-> IF q = p THEN "put"
                                    ELSE IF buf[q] = buf[p] /\ pc[q] = "lock_sleep"
                                    THEN "lock" ELSE pc[q]]
      BY <1>4, Zenon DEF brelse_unlock, Wake
    <2>2. owner' \in [Bufs -> Procs \cup {None}] /\ pc' \in [Procs -> Labels]
      BY <1>1, <2>1, Zenon DEF Labels
    <2>3. LocksHeld'
      <3>1. owner[buf[p]] = p
        BY <2>1, Zenon DEF CacheInv, LocksHeld, Holding
      <3>2. \A b \in Bufs : owner'[b] # None => /\ buf'[owner'[b]] = b
                                               /\ pc'[owner'[b]] \in Holding
        BY <1>1, <1>2, <2>1, <3>1 DEF CacheInv, LocksHeld, Holding
      <3>3. \A q \in Procs : /\ pc'[q] = "idle" <=> buf'[q] = None
                             /\ pc'[q] \in Holding => owner'[buf'[q]] = q
                             /\ pc'[q] = "lock_sleep" => owner'[buf'[q]] # None
        BY <1>1, <1>2, <2>1, <3>1 DEF CacheInv, LocksHeld, Labels, Holding
      <3>4. QED
        BY <3>2, <3>3 DEF LocksHeld
    <2>4. QED
      BY <1>2, <2>2, <2>3, CacheFrame DEF CacheInv
  <1>5. QED
    BY <1>3, <1>4, Zenon

\* The steps of a process with a reference that take and give no lock.
LEMMA UserKeeps ==
  ASSUME CacheInv, NEW p \in Procs,
         \/ acquiresleep_wait(p) \/ rw_return(p)
         \/ (\E v \in Vals : modify(p, v))
         \/ bwrite(p) \/ kill_wakes(p)
  PROVE  CacheInv'
  <1> USE DEF Goto, Wake, vvars, cvars
  <1>1. UNCHANGED <<buf, blockno, owner, refcnt, lru, pinned>>
    BY Zenon DEF acquiresleep_wait, rw_return, rw_done, modify, bwrite, kill_wakes
  <1>2. /\ pc' \in [Procs -> Labels]
        /\ \A q \in Procs :
             \/ pc'[q] = pc[q]
             \/ pc[q] \in Holding /\ pc'[q] \in Holding
             \/ pc[q] = "lock" /\ pc'[q] = "lock_sleep" /\ owner[buf[q]] # None
             \/ pc[q] = "lock_sleep" /\ pc'[q] = "lock"
    <2>1. pc \in [Procs -> Labels]
      BY Zenon DEF CacheInv
    <2> USE DEF Labels, Holding
    <2>2. CASE acquiresleep_wait(p)
      BY <2>1, <2>2, Zenon DEF acquiresleep_wait
    <2>3. CASE rw_return(p)
      BY <2>1, <2>3, Zenon DEF rw_return, rw_done
    <2>4. ASSUME NEW v \in Vals, modify(p, v) PROVE <1>2!:
      BY <2>1, <2>4, Zenon DEF modify
    <2>5. CASE bwrite(p)
      BY <2>1, <2>5, Zenon DEF bwrite
    <2>6. CASE kill_wakes(p)
      BY <2>1, <2>6, Zenon DEF kill_wakes
    <2>7. QED
      BY <2>2, <2>3, <2>4, <2>5, <2>6, Zenon
  <1>3. LocksHeld'
    BY <1>1, <1>2, LocksStay, Zenon
  <1>4. Counted'
    BY <1>1, CountsStay, Zenon DEF CacheInv
  <1>5. QED
    BY <1>1, <1>2, <1>3, <1>4, CacheFrame, Zenon DEF CacheInv

\* log_write() and install_trans() count the log's pin.
LEMMA PinKeeps ==
  ASSUME CacheInv, NEW p \in Procs, bpin(p) \/ bunpin(p) PROVE CacheInv'
  <1>1. /\ UNCHANGED <<pc, buf, blockno, owner, lru>>
        /\ pc \in [Procs -> Labels] /\ owner \in [Bufs -> Procs \cup {None}]
    BY Zenon DEF bpin, bunpin, vvars, CacheInv
  <1>2. LocksHeld'
    BY <1>1, LocksStay, Zenon
  <1>3. buf[p] \in Bufs /\ pinned' \subseteq Bufs
    BY DEF bpin, bunpin, CacheInv, LocksHeld
  <1>4. Counted'
    <2>1. Counted /\ \A c \in Bufs : Cardinality(Users(c)) \in Nat
      BY UsersAreFinite, Zenon DEF CacheInv
    <2>2. \A c \in Bufs : Cardinality(Users(c))' = Cardinality(Users(c))
      BY <1>1, UsersStay, Zenon
    <2>3. CASE bpin(p)
      <3>1. /\ buf[p] \notin pinned /\ pinned' = pinned \cup {buf[p]}
            /\ refcnt' = [refcnt EXCEPT ![buf[p]] = @ + 1]
        BY <2>3, Zenon DEF bpin
      <3>2. QED
        BY <1>3, <2>1, <2>2, <3>1 DEF Counted
    <2>4. CASE bunpin(p)
      <3>1. /\ buf[p] \in pinned /\ pinned' = pinned \ {buf[p]}
            /\ refcnt' = [refcnt EXCEPT ![buf[p]] = @ - 1]
        BY <2>4, Zenon DEF bunpin
      <3>2. QED
        BY <1>3, <2>1, <2>2, <3>1 DEF Counted
    <2>5. QED
      BY <2>3, <2>4, Zenon
  <1>5. QED
    BY <1>1, <1>2, <1>3, <1>4, CacheFrame, Zenon

\* The invariant is inductive.
THEOREM CacheInvariant == Spec => []CacheInv
  <1>1. ASSUME CacheInv, [Next]_vars PROVE CacheInv'
    <2>1. CASE Driver /\ UNCHANGED cvars
      BY <1>1, <2>1, DriverKeeps, Zenon
    <2>2. ASSUME NEW p \in Procs, NEW k \in Blocks,
                 bget_cached(p, k) \/ bget_recycle(p, k)
          PROVE  CacheInv'
      BY <1>1, <2>2, CachedKeeps, RecycleKeeps, Zenon
    <2>3. CASE UNCHANGED <<vvars, refcnt, lru, owner, pinned>>
      <3>1. LocksHeld' /\ Counted'
        BY <1>1, <2>3, LocksStay, CountsStay, Zenon DEF CacheInv, vvars
      <3>2. QED
        BY <1>1, <2>3, <3>1, CacheFrame, Zenon DEF CacheInv, vvars
    <2>4. ASSUME NEW p \in Procs, NEW k \in Blocks, bget_panic(p, k) PROVE CacheInv'
      BY <2>3, <2>4, Zenon DEF bget_panic
    <2>5. CASE UNCHANGED vars
      BY <2>3, <2>5, Zenon DEF vars, cvars
    <2>6. QED
      BY <1>1, <2>1, <2>2, <2>4, <2>5, UserKeeps, LockKeeps, PinKeeps, BrelseKeeps, Zenon
         DEF Next
  <1>2. QED
    BY <1>1, CacheInitially, PTL DEF Spec

\* For any number of buffers and processes no block is ever in two buffers, although
\* bget() recycles a buffer for a block it did not find and takes the buffer's own
\* lock later.
THEOREM BlocksAreCachedOnce == Spec => []OneBufferPerBlock
  <1>1. CacheInv => OneBufferPerBlock
    BY Zenon DEF CacheInv
  <1>2. QED
    BY <1>1, CacheInvariant, PTL

\* The reference counts of bget(), brelse(), bpin() and bunpin() are exact, so bget()
\* never recycles a buffer in use and panics only when all of them are.
THEOREM ReferencesAreCounted == Spec => []RefcntIsUsers
  <1>1. CacheInv => RefcntIsUsers
    BY Zenon DEF CacheInv, Counted, RefcntIsUsers, Users
  <1>2. QED
    BY <1>1, CacheInvariant, PTL

\* Two processes between acquiresleep() and releasesleep() have different buffers.
HoldersDiffer ==
  \A p, q \in Procs : pc[p] \in Holding /\ pc[q] \in Holding /\ buf[p] = buf[q] => p = q

\* acquiresleep() excludes: whoever reads, writes or changes a buffer is alone with it.
THEOREM SleepLocksExclude == Spec => []HoldersDiffer
  <1>1. CacheInv => HoldersDiffer
    BY DEF CacheInv, LocksHeld, HoldersDiffer
  <1>2. QED
    BY <1>1, CacheInvariant, PTL

-----------------------------------------------------------------------------
(* Nobody waits in vain for the disk. *)

\* In virtio_disk_rw() with a request at the device.
Waiting == {"rw_sleep", "rw_wait"}

\* The heads of the chains in use.
Heads == {d \in Desc : info[d] # None}

\* The chains in use have three descriptors, none of them free, and share none.
ChainsApart ==
  /\ free \in SUBSET Desc
  /\ next \in [Desc -> Desc \cup {None}]
  /\ info \in [Desc -> Bufs \cup {None}]
  /\ \A d \in Heads : Chain(d) \in SUBSET (Desc \ free)
  /\ \A d, e \in Heads : d # e => Chain(d) \cap Chain(e) = {}

\* Each chain belongs to the process that waits for it: the one that holds the
\* buffer, and no other chain has that buffer.
ChainsOwned ==
  /\ \A d \in Heads : owner[info[d]] \in Procs /\ pc[owner[info[d]]] \in Waiting
  /\ \A d, e \in Heads : info[d] = info[e] => d = e
  /\ \A p \in Procs : pc[p] \in Waiting => \E d \in Heads : info[d] = buf[p]

\* The rings hold the chains whose buffers are busy, each of them once, and a
\* finished one has an interrupt to come.
RingsRight ==
  /\ avail \subseteq Heads /\ used \subseteq Heads /\ avail \cap used = {}
  /\ \A d \in Heads : info[d] \in busy <=> d \in avail \cup used
  /\ used # {} => irq = TRUE \/ handler = "acked"
  /\ \A p \in Procs : pc[p] = "rw_sleep" => buf[p] \in busy
  /\ \A p \in Procs : pc[p] = "desc_sleep" => Cardinality(free) < 3

DiskInv == ChainsApart /\ ChainsOwned /\ RingsRight

-----------------------------------------------------------------------------
(* Descriptors *)

\* alloc_desc() returns one of the free descriptors.
LEMMA AllocFinds ==
  ASSUME NEW s \in SUBSET Desc, s # {} PROVE alloc_desc(s) \in s
  <1>1. s \in SUBSET (0..NUM)
    BY VirtioAssumption DEF Desc
  <1>2. \E i \in s : \A j \in s : i <= j
    BY <1>1, VirtioAssumption, LeastExists, Zenon
  <1>3. QED
    BY <1>2, Zenon DEF alloc_desc

\* The number of descriptors of a set is a number that grows with the set.
LEMMA DescCount ==
  ASSUME NEW s \in SUBSET Desc, NEW t \in SUBSET s
  PROVE  /\ Cardinality(s) \in Nat /\ Cardinality(t) \in Nat
         /\ Cardinality(t) <= Cardinality(s)
         /\ IsFiniteSet(s)
  <1>1. IsFiniteSet(Desc)
    BY VirtioAssumption, FS_Interval, 0 \in Int, NUM - 1 \in Int, Zenon DEF Desc
  <1>2. IsFiniteSet(s)
    BY <1>1, FS_Subset, Zenon
  <1>3. QED
    BY <1>2, FS_Subset, FS_CardinalityType, Zenon

\* alloc3_desc() gets three descriptors when there are three.
LEMMA ThreeFree ==
  ASSUME free \in SUBSET Desc, Cardinality(free) >= 3
  PROVE  \E d0, d1, d2 \in free :
           /\ d0 = alloc_desc(free) /\ d1 = alloc_desc(free \ {d0})
           /\ d2 = alloc_desc(free \ {d0, d1})
           /\ d0 # d1 /\ d0 # d2 /\ d1 # d2
  <1> DEFINE d0 == alloc_desc(free)
             d1 == alloc_desc(free \ {d0})
             d2 == alloc_desc(free \ {d0, d1})
  <1>1. IsFiniteSet(free) /\ Cardinality(free) \in Nat
    BY DescCount, Zenon
  <1>2. free # {}
    BY <1>1, FS_EmptySet
  <1>3. d0 \in free
    BY <1>2, AllocFinds, Zenon
  <1>4. IsFiniteSet(free \ {d0}) /\ Cardinality(free \ {d0}) = Cardinality(free) - 1
    BY <1>1, <1>3, FS_RemoveElement, Zenon
  <1>5. free \ {d0} # {}
    BY <1>1, <1>4, FS_EmptySet
  <1>6. d1 \in free \ {d0}
    BY <1>5, AllocFinds, Zenon
  <1> HIDE DEF d0, d1
  <1>7. /\ IsFiniteSet((free \ {d0}) \ {d1})
        /\ Cardinality((free \ {d0}) \ {d1}) = Cardinality(free \ {d0}) - 1
    BY <1>4, <1>6, FS_RemoveElement, Zenon
  <1>8. (free \ {d0}) \ {d1} # {}
    BY <1>1, <1>4, <1>7, FS_EmptySet
  <1>9. free \ {d0, d1} # {}
    BY <1>8, Zenon
  <1>10. d2 \in free \ {d0, d1}
    BY <1>9, AllocFinds, Zenon
  <1>11. QED
    BY <1>3, <1>6, <1>10, Zenon DEF d0, d1

-----------------------------------------------------------------------------
(* The steps *)

\* virtio_disk_init() establishes the invariant.
LEMMA DiskInitially == Init => DiskInv
  BY VirtioAssumption, Zenon
     DEF Init, VInit, DiskInv, ChainsApart, ChainsOwned, RingsRight, Heads, Waiting

\* Chains that nobody touches stay as they are.
LEMMA ChainsStay ==
  ASSUME ChainsApart, UNCHANGED <<free, next, info>>
  PROVE  ChainsApart' /\ Heads' = Heads
  BY Zenon DEF ChainsApart, Heads, Chain

\* The device finishes a request.
LEMMA DeviceKeeps ==
  ASSUME CacheInv, DiskInv, NEW d \in Desc, device(d), UNCHANGED cvars PROVE DiskInv'
  <1> USE DEF DiskInv, device, cvars
  <1>1. ChainsApart' /\ Heads' = Heads
    BY ChainsStay, Zenon
  <1>2. ChainsOwned'
    BY <1>1, Zenon DEF ChainsOwned
  <1>3. RingsRight'
    BY <1>1, Zenon DEF RingsRight
  <1>4. QED
    BY <1>1, <1>2, <1>3, Zenon

\* The driver acknowledges the interrupt.
LEMMA AckKeeps ==
  ASSUME CacheInv, DiskInv, intr_ack, UNCHANGED cvars PROVE DiskInv'
  <1> USE DEF DiskInv, intr_ack, cvars, ring
  <1>1. ChainsApart' /\ Heads' = Heads
    BY ChainsStay, Zenon
  <1>2. ChainsOwned'
    BY <1>1, Zenon DEF ChainsOwned
  <1>3. RingsRight'
    BY <1>1, Zenon DEF RingsRight
  <1>4. QED
    BY <1>1, <1>2, <1>3, Zenon

\* It looks at the used ring: the buffers of what is in it, and only these, are no
\* longer busy.
LEMMA UsedKeeps ==
  ASSUME CacheInv, DiskInv, intr_used, UNCHANGED cvars PROVE DiskInv'
  <1> USE DEF DiskInv, intr_used, cvars
  <1>1. ChainsApart' /\ Heads' = Heads
    BY ChainsStay, Zenon
  <1>2. ChainsOwned'
    BY <1>1, Zenon DEF ChainsOwned, Wake, Waiting, CacheInv
  <1>3. RingsRight'
    BY <1>1, Zenon DEF RingsRight, ChainsOwned, Wake, CacheInv
  <1>4. QED
    BY <1>1, <1>2, <1>3, Zenon

\* alloc3_desc() fails, or b->disk is still set: the process sleeps.
LEMMA SleepKeeps ==
  ASSUME CacheInv, DiskInv, NEW p \in Procs, rw_no_desc(p) \/ rw_again(p), UNCHANGED cvars
  PROVE  DiskInv'
  <1> USE DEF DiskInv, cvars, ring, CacheInv
  <1>1. ChainsApart' /\ Heads' = Heads
    BY ChainsStay, Zenon DEF rw_no_desc, rw_again
  <1>2. CASE rw_no_desc(p)
    <2>1. ChainsOwned'
      BY <1>1, <1>2, Zenon DEF rw_no_desc, ChainsOwned, Wake, Waiting
    <2>2. RingsRight'
      BY <1>1, <1>2, Zenon DEF rw_no_desc, RingsRight, Wake
    <2>3. QED
      BY <1>1, <2>1, <2>2, Zenon
  <1>3. CASE rw_again(p)
    <2>1. ChainsOwned'
      BY <1>1, <1>3, Zenon DEF rw_again, ChainsOwned, Waiting
    <2>2. RingsRight'
      BY <1>1, <1>3, Zenon DEF rw_again, RingsRight
    <2>3. QED
      BY <1>1, <2>1, <2>2
  <1>4. QED
    BY <1>2, <1>3, Zenon

\* A request goes to the device, in a chain of three descriptors that were free.
LEMMA SubmitKeeps ==
  ASSUME CacheInv, DiskInv, NEW p \in Procs, rw_submit(p), UNCHANGED cvars PROVE DiskInv'
  <1> USE VirtioAssumption
  <1>1. PICK d0, d1, d2 \in free :
          /\ d0 # d1 /\ d0 # d2 /\ d1 # d2
          /\ free' = free \ {d0, d1, d2}
          /\ next' = [next EXCEPT ![d0] = d1, ![d1] = d2, ![d2] = None]
          /\ info' = [info EXCEPT ![d0] = buf[p]]
          /\ avail' = avail \cup {d0}
    <2>1. free \in SUBSET Desc /\ Cardinality(free) >= 3
      BY Zenon DEF DiskInv, ChainsApart, rw_submit
    <2>2. PICK d0, d1, d2 \in free :
            /\ d0 = alloc_desc(free) /\ d1 = alloc_desc(free \ {d0})
            /\ d2 = alloc_desc(free \ {d0, d1})
            /\ d0 # d1 /\ d0 # d2 /\ d1 # d2
      BY <2>1, ThreeFree, Zenon
    <2>3. QED
      BY <2>2, Zenon DEF rw_submit
  <1>2. /\ busy' = busy \cup {buf[p]} /\ pc' = [pc EXCEPT ![p] = "rw_sleep"]
        /\ UNCHANGED <<used, irq, handler, buf, owner>>
        /\ pc[p] = "rw" /\ buf[p] \in Bufs /\ owner[buf[p]] = p
    BY DEF rw_submit, cvars, CacheInv, LocksHeld, Holding
  <1>3. d0 \in Desc /\ d1 \in Desc /\ d2 \in Desc
    BY <1>1, Zenon DEF DiskInv, ChainsApart
  <1>4. d0 \notin Heads /\ Heads' = Heads \cup {d0}
    BY <1>1, <1>2, <1>3 DEF DiskInv, ChainsApart, Heads, Chain
  <1>5. /\ \A d \in Heads : Chain(d)' = Chain(d)
        /\ Chain(d0)' = {d0, d1, d2}
    <2>1. \A d \in Heads : d \notin free /\ next[d] \notin free /\ next[d] \in Desc
      BY Zenon DEF DiskInv, ChainsApart, Chain, Heads
    <2>2. QED
      BY <1>1, <1>3, <2>1 DEF DiskInv, ChainsApart, Chain, Heads
  <1>6. \A d \in Heads : info'[d] = info[d] /\ info[d] # buf[p]
    BY <1>1, <1>2, <1>3, <1>4
       DEF DiskInv, ChainsApart, ChainsOwned, Heads, Waiting
  <1>7. ChainsApart'
    <2>1. free' \in SUBSET Desc /\ info' \in [Desc -> Bufs \cup {None}]
      BY <1>1, <1>2, Zenon DEF DiskInv, ChainsApart
    <2>2. next' \in [Desc -> Desc \cup {None}]
      BY <1>1, <1>3, Zenon DEF DiskInv, ChainsApart
    <2>3. \A d \in Heads' : Chain(d)' \in SUBSET (Desc \ free')
      BY <1>1, <1>3, <1>4, <1>5 DEF DiskInv, ChainsApart
    <2>4. \A d, e \in Heads' : d # e => Chain(d)' \cap Chain(e)' = {}
      BY <1>1, <1>4, <1>5 DEF DiskInv, ChainsApart
    <2>5. QED
      BY <2>1, <2>2, <2>3, <2>4, Zenon DEF ChainsApart
  <1>8. ChainsOwned'
    BY <1>1, <1>2, <1>3, <1>4, <1>6
       DEF DiskInv, ChainsApart, ChainsOwned, Waiting, CacheInv
  <1>9. RingsRight'
    <2>1. Cardinality(free') <= Cardinality(free) /\ Cardinality(free') \in Nat
          /\ Cardinality(free) \in Nat
      BY <1>1, DescCount, Zenon DEF DiskInv, ChainsApart
    <2>2. info'[d0] = buf[p]
      BY <1>1, <1>3, Zenon DEF DiskInv, ChainsApart
    <2>3. QED
      BY <1>1, <1>2, <1>3, <1>4, <1>6, <2>1, <2>2
         DEF DiskInv, RingsRight, CacheInv
  <1>10. QED
    BY <1>7, <1>8, <1>9, Zenon DEF DiskInv

\* virtio_disk_rw() returns and frees its chain, and no other.
LEMMA ReturnKeeps ==
  ASSUME CacheInv, DiskInv, NEW p \in Procs, rw_return(p) PROVE DiskInv'
  <1> USE VirtioAssumption
  <1>1. PICK d \in Desc :
          /\ info[d] = buf[p] /\ info' = [info EXCEPT ![d] = None]
          /\ free' = free \cup Chain(d)
          /\ next' = [e \in Desc |-> IF e \in Chain(d) THEN None ELSE next[e]]
    BY Zenon DEF rw_return, rw_done
  <1>2. /\ pc' = [Wake(Procs, "desc_sleep", "rw") EXCEPT ![p] = "hold"]
        /\ UNCHANGED <<busy, avail, used, irq, handler, buf, owner>>
        /\ pc[p] = "rw_wait" /\ buf[p] \in Bufs /\ owner[buf[p]] = p /\ buf[p] \notin busy
    BY DEF rw_return, rw_done, CacheInv, LocksHeld, Holding
  <1>3. d \in Heads /\ d \notin avail \cup used /\ Heads' = Heads \ {d}
    BY <1>1, <1>2 DEF DiskInv, ChainsApart, RingsRight, Heads
  <1>4. \A e \in Heads' : Chain(e)' = Chain(e) /\ Chain(e) \cap Chain(d) = {}
    <2>1. \A e \in Heads' :
            /\ e \in Heads /\ Chain(e) \cap Chain(d) = {} /\ Chain(e) \subseteq Desc
            /\ e \in Chain(e) /\ next[e] \in Chain(e)
      BY <1>3 DEF DiskInv, ChainsApart, Chain
    <2>2. \A e \in Heads' : next'[e] = next[e] /\ next'[next[e]] = next[next[e]]
      BY <1>1, <2>1, Zenon
    <2>3. QED
      BY <2>1, <2>2, Zenon DEF Chain
  <1>5. \A e \in Heads' : e \in Heads /\ info'[e] = info[e] /\ info[e] # buf[p]
    BY <1>1, <1>3 DEF DiskInv, ChainsApart, ChainsOwned, Heads
  <1>6. ChainsApart'
    <2>1. Chain(d) \subseteq Desc
      BY <1>3, Zenon DEF DiskInv, ChainsApart
    <2>2. free' \in SUBSET Desc /\ info' \in [Desc -> Bufs \cup {None}]
      BY <1>1, <2>1, Zenon DEF DiskInv, ChainsApart
    <2>3. next' \in [Desc -> Desc \cup {None}]
      BY <1>1, Zenon DEF DiskInv, ChainsApart
    <2>4. \A e \in Heads' : Chain(e)' \in SUBSET (Desc \ free')
      BY <1>1, <1>4, <1>5 DEF DiskInv, ChainsApart
    <2>5. \A e, f \in Heads' : e # f => Chain(e)' \cap Chain(f)' = {}
      BY <1>4, <1>5, Zenon DEF DiskInv, ChainsApart
    <2>6. QED
      BY <2>2, <2>3, <2>4, <2>5, Zenon DEF ChainsApart
  <1>7. ChainsOwned'
    <2>1. \A q \in Procs : pc'[q] \in Waiting => q # p /\ pc[q] = pc'[q]
      BY <1>2, Zenon DEF Wake, Waiting, CacheInv
    <2>2. \A q \in Procs : pc'[q] \in Waiting => buf[q] # buf[p]
      BY <1>2, <2>1 DEF CacheInv, LocksHeld, Holding, Waiting
    <2>3. \A e \in Heads' : owner[info[e]] # p
      BY <1>2, <1>5 DEF DiskInv, ChainsApart, CacheInv, LocksHeld, Heads
    <2>4. \A e \in Heads' : pc'[owner[info[e]]] \in Waiting
      BY <1>2, <1>5, <2>3, Zenon DEF DiskInv, ChainsOwned, Wake, Waiting, CacheInv
    <2>5. \A q \in Procs : pc'[q] \in Waiting => \E e \in Heads' : info'[e] = buf[q]
      BY <1>1, <1>3, <1>5, <2>1, <2>2 DEF DiskInv, ChainsOwned
    <2>6. UNCHANGED <<buf, owner>>
      BY <1>2, Zenon
    <2>7. QED
      BY <1>5, <2>4, <2>5, <2>6, Zenon DEF DiskInv, ChainsOwned
  <1>8. RingsRight'
    <2>1. avail \subseteq Heads' /\ used \subseteq Heads'
      BY <1>3, Zenon DEF DiskInv, RingsRight
    <2>2. \A q \in Procs : pc'[q] # "desc_sleep" /\ (pc'[q] = "rw_sleep" => pc[q] = "rw_sleep")
      BY <1>2, Zenon DEF Wake, CacheInv
    <2>3. QED
      BY <1>2, <1>3, <1>5, <2>1, <2>2, Zenon DEF DiskInv, RingsRight
  <1>9. QED
    BY <1>6, <1>7, <1>8, Zenon DEF DiskInv

\* A step that leaves the driver alone keeps the invariant if it moves nobody who waits
\* there, puts nobody to sleep there and takes no buffer from one who waits.
LEMMA CacheStepKeeps ==
  ASSUME DiskInv, UNCHANGED <<ring, busy, irq, handler>>,
         \A q \in Procs :
           /\ pc'[q] \in Waiting <=> pc[q] \in Waiting
           /\ pc[q] \in Waiting => buf'[q] = buf[q]
           /\ pc'[q] = "rw_sleep" => pc[q] = "rw_sleep"
           /\ pc'[q] = "desc_sleep" => pc[q] = "desc_sleep",
         \A b \in Bufs :
           owner[b] \in Procs /\ pc[owner[b]] \in Waiting => owner'[b] = owner[b]
  PROVE  DiskInv'
  <1>1. ChainsApart' /\ Heads' = Heads /\ info' = info
    BY ChainsStay, Zenon DEF DiskInv, ring
  <1>2. \A d \in Heads : info[d] \in Bufs /\ owner'[info[d]] = owner[info[d]]
    BY VirtioAssumption DEF DiskInv, ChainsApart, ChainsOwned, Heads
  <1>3. ChainsOwned'
    <2>1. ASSUME NEW d \in Heads'
          PROVE  owner'[info'[d]] \in Procs /\ pc'[owner'[info'[d]]] \in Waiting
      <3>1. owner[info[d]] \in Procs /\ pc[owner[info[d]]] \in Waiting
        BY <1>1, <2>1, Zenon DEF DiskInv, ChainsOwned
      <3>2. QED
        BY <1>1, <1>2, <2>1, <3>1, Zenon
    <2>2. ASSUME NEW q \in Procs, pc'[q] \in Waiting
          PROVE  \E d \in Heads' : info'[d] = buf'[q]
      <3>1. pc[q] \in Waiting /\ buf'[q] = buf[q]
        BY <2>2, Zenon
      <3>2. \E d \in Heads : info[d] = buf[q]
        BY <3>1, Zenon DEF DiskInv, ChainsOwned
      <3>3. QED
        BY <1>1, <3>1, <3>2, Zenon
    <2>3. \A d, e \in Heads' : info'[d] = info'[e] => d = e
      BY <1>1, Zenon DEF DiskInv, ChainsOwned
    <2>4. QED
      BY <2>1, <2>2, <2>3, Zenon DEF ChainsOwned, Waiting
  <1>4. RingsRight'
    <2>1. UNCHANGED <<avail, used, busy, irq, handler, free>>
      BY Zenon DEF ring
    <2>2. ASSUME NEW q \in Procs, pc'[q] = "rw_sleep" PROVE buf'[q] \in busy
      <3>1. pc[q] = "rw_sleep" /\ buf'[q] = buf[q]
        BY <2>2, Zenon DEF Waiting
      <3>2. QED
        BY <3>1, Zenon DEF DiskInv, RingsRight
    <2>3. ASSUME NEW q \in Procs, pc'[q] = "desc_sleep" PROVE Cardinality(free) < 3
      <3>1. pc[q] = "desc_sleep"
        BY <2>3, Zenon
      <3>2. QED
        BY <3>1, Zenon DEF DiskInv, RingsRight
    <2>4. QED
      BY <1>1, <2>1, <2>2, <2>3, Zenon DEF DiskInv, RingsRight
  <1>5. QED
    BY <1>1, <1>3, <1>4, Zenon DEF DiskInv

\* The steps of the cache are such steps.
LEMMA ProcessKeepsDisk ==
  ASSUME CacheInv, DiskInv, NEW p \in Procs,
         \/ \E k \in Blocks : bget_cached(p, k) \/ bget_recycle(p, k)
         \/ acquiresleep_wait(p) \/ acquiresleep(p)
         \/ (\E v \in Vals : modify(p, v))
         \/ bwrite(p) \/ bpin(p) \/ bunpin(p) \/ brelse_unlock(p) \/ brelse(p)
         \/ kill_wakes(p)
  PROVE  DiskInv'
  <1> USE VirtioAssumption DEF CacheInv, Labels, Waiting, Goto, ring, vvars, cvars
  <1>1. ASSUME NEW k \in Blocks, bget_cached(p, k) PROVE DiskInv'
    BY <1>1, CacheStepKeeps, Zenon DEF bget_cached
  <1>2. ASSUME NEW k \in Blocks, bget_recycle(p, k) PROVE DiskInv'
    BY <1>2, CacheStepKeeps, Zenon DEF bget_recycle
  <1>3. CASE acquiresleep_wait(p)
    BY <1>3, CacheStepKeeps, Zenon DEF acquiresleep_wait
  <1>4. CASE acquiresleep(p)
    <2>1. PICK l \in {"hold", "rw"} : pc' = [pc EXCEPT ![p] = l]
      BY <1>4, Zenon DEF acquiresleep
    <2>2. \A b \in Bufs : owner[b] \in Procs => owner'[b] = owner[b]
      <3>1. buf[p] \in Bufs /\ owner[buf[p]] = None /\ owner' = [owner EXCEPT ![buf[p]] = p]
        <4>1. pc[p] = "lock" /\ owner[buf[p]] = None /\ owner' = [owner EXCEPT ![buf[p]] = p]
          BY <1>4, Zenon DEF acquiresleep
        <4>2. QED
          BY <4>1 DEF LocksHeld
      <3>2. QED
        BY <3>1, Zenon
    <2>3. pc[p] = "lock" /\ UNCHANGED <<ring, busy, irq, handler, buf>>
      BY <1>4, Zenon DEF acquiresleep
    <2>4. QED
      BY <2>1, <2>2, <2>3, CacheStepKeeps, Zenon
  <1>5. ASSUME NEW v \in Vals, modify(p, v) PROVE DiskInv'
    BY <1>5, CacheStepKeeps, Zenon DEF modify
  <1>6. CASE bwrite(p)
    BY <1>6, CacheStepKeeps, Zenon DEF bwrite
  <1>7. CASE bpin(p) \/ bunpin(p)
    <2>1. UNCHANGED <<ring, busy, irq, handler, pc, buf, owner>>
      BY <1>7, Zenon DEF bpin, bunpin
    <2>2. QED
      BY <2>1, CacheStepKeeps, Zenon
  <1>8. CASE brelse_unlock(p)
    <2>1. /\ owner' = [owner EXCEPT ![buf[p]] = None] /\ pc[p] = "hold"
          /\ UNCHANGED <<ring, busy, irq, handler, buf>>
      BY <1>8, Zenon DEF brelse_unlock
    <2>2. pc' = [q \in Procs |-> IF q = p THEN "put"
                                 ELSE IF buf[q] = buf[p] /\ pc[q] = "lock_sleep"
                                 THEN "lock" ELSE pc[q]]
      BY <1>8, Zenon DEF brelse_unlock, Wake
    <2>3. owner[buf[p]] = p
      BY <2>1, Zenon DEF LocksHeld, Holding
    <2>4. \A b \in Bufs :
            owner[b] \in Procs /\ pc[owner[b]] \in Waiting => owner'[b] = owner[b]
      BY <2>1, <2>3, Zenon
    <2>5. \A q \in Procs :
            /\ pc'[q] \in Waiting <=> pc[q] \in Waiting
            /\ pc'[q] = "rw_sleep" => pc[q] = "rw_sleep"
            /\ pc'[q] = "desc_sleep" => pc[q] = "desc_sleep"
      BY <2>1, <2>2, Zenon
    <2>6. QED
      BY <2>1, <2>4, <2>5, CacheStepKeeps, Zenon
  <1>9. CASE brelse(p)
    BY <1>9, CacheStepKeeps, Zenon DEF brelse
  <1>10. CASE kill_wakes(p)
    BY <1>10, CacheStepKeeps, Zenon DEF kill_wakes
  <1>11. QED
    BY <1>1, <1>2, <1>3, <1>4, <1>5, <1>6, <1>7, <1>8, <1>9, <1>10, Zenon

-----------------------------------------------------------------------------
(* Every reachable state *)

\* The invariant of the driver is inductive, given the one of the cache.
THEOREM DiskInvariant == Spec => []DiskInv
  <1>1. ASSUME CacheInv, DiskInv, [Next]_vars PROVE DiskInv'
    <2>1. CASE Driver /\ UNCHANGED cvars
      BY <1>1, <2>1, SleepKeeps, SubmitKeeps, DeviceKeeps, AckKeeps, UsedKeeps, Zenon
         DEF Driver
    <2>2. CASE UNCHANGED vvars /\ UNCHANGED owner
      BY <1>1, <2>2, CacheStepKeeps, Zenon DEF vvars
    <2>3. ASSUME NEW p \in Procs, NEW k \in Blocks, bget_panic(p, k) PROVE DiskInv'
      BY <2>2, <2>3, Zenon DEF bget_panic
    <2>4. CASE UNCHANGED vars
      BY <2>2, <2>4, Zenon DEF vars, cvars
    <2>5. QED
      BY <1>1, <2>1, <2>3, <2>4, ReturnKeeps, ProcessKeepsDisk, Zenon DEF Next
  <1>2. QED
    BY <1>1, DiskInitially, CacheInvariant, PTL DEF Spec

\* For any number of requests, descriptors and processes nobody sleeps in
\* virtio_disk_rw() through its completion, for descriptors that are there, or in
\* acquiresleep() for a lock nobody holds, although virtio_disk_intr() acknowledges
\* the interrupt before it looks at the used ring.
THEOREM DiskWakesSleepers == Spec => []NoMissedCompletion
  <1>1. ASSUME CacheInv, DiskInv PROVE NoMissedCompletion
    <2>1. ASSUME NEW p \in Procs, pc[p] = "rw_sleep"
          PROVE  \E d \in Desc :
                   /\ info[d] = buf[p]
                   /\ d \in avail \/ (d \in used /\ (irq \/ handler = "acked"))
      <3>1. PICK d \in Heads : info[d] = buf[p]
        BY <1>1, <2>1, Zenon DEF DiskInv, ChainsOwned, Waiting
      <3>2. d \in avail \cup used
        BY <1>1, <2>1, <3>1, Zenon DEF DiskInv, RingsRight
      <3>3. d \in used => irq \/ handler = "acked"
        BY <1>1, Zenon DEF DiskInv, RingsRight
      <3>4. QED
        BY <3>1, <3>2, <3>3, Zenon DEF Heads
    <2>2. \A p \in Procs : /\ pc[p] = "desc_sleep" => Cardinality(free) < 3
                           /\ pc[p] = "lock_sleep" => owner[buf[p]] # None
      BY <1>1, Zenon DEF CacheInv, LocksHeld, DiskInv, RingsRight
    <2>3. QED
      BY <2>1, <2>2, Zenon DEF NoMissedCompletion
  <1>2. QED
    BY <1>1, DiskInvariant, CacheInvariant, PTL

-----------------------------------------------------------------------------
(* The cache and the driver together implement BlockStore. *)

\* In virtio_disk_rw().
Requesting == {"rw", "desc_sleep"} \cup Waiting

\* A process reads a buffer that is not valid and writes one that is.
UsersKnow ==
  \A p \in Procs :
    /\ buf[p] # None => blockno[buf[p]] \in Blocks
    /\ pc[p] = "hold" => buf[p] \in valid
    /\ pc[p] \in Requesting => (p \in wr <=> buf[p] \in valid)
    /\ p \in wr => pc[p] \in Requesting

\* What is in a valid buffer is the contents of a block, and a pinned one is valid.
BuffersRight ==
  /\ disk \in [Blocks -> Vals] /\ data \in [Bufs -> Vals \cup {None}]
  /\ valid \subseteq Bufs /\ pinned \subseteq valid
  /\ \A b \in valid : blockno[b] \in Blocks /\ data[b] \in Vals

\* A request is a write exactly for a valid buffer; a read that the device has
\* finished has left the block in the buffer, and it is still what is on disk.
RequestsRight ==
  \A d \in Heads :
    /\ d \in writes <=> info[d] \in valid
    /\ info[d] \notin valid /\ d \notin avail => data[info[d]] = disk[blockno[info[d]]]

DataInv == UsersKnow /\ BuffersRight /\ RequestsRight

-----------------------------------------------------------------------------
(* The data of the buffers *)

\* The cache starts empty.
LEMMA DataInitially == Init => DataInv
  BY VirtioAssumption, Zenon
     DEF Init, VInit, DataInv, UsersKnow, BuffersRight, RequestsRight, Requesting, Waiting,
         Heads

\* A buffer that a process has, or that is pinned, has a reference.
LEMMA InUse ==
  ASSUME CacheInv
  PROVE  /\ \A p \in Procs : buf[p] \in Bufs => refcnt[buf[p]] # 0
         /\ \A b \in pinned : refcnt[b] # 0
  <1>1. \A b \in Bufs : IsFiniteSet(Users(b)) /\ Cardinality(Users(b)) \in Nat
    BY UsersAreFinite, Zenon DEF CacheInv
  <1>2. \A p \in Procs : buf[p] \in Bufs => Users(buf[p]) # {}
    BY Zenon DEF Users
  <1>3. \A p \in Procs : buf[p] \in Bufs => Cardinality(Users(buf[p])) # 0
    BY <1>1, <1>2, FS_EmptySet, Zenon
  <1>4. ASSUME NEW p \in Procs, buf[p] \in Bufs PROVE refcnt[buf[p]] # 0
    BY <1>1, <1>3, <1>4 DEF CacheInv, Counted
  <1>5. ASSUME NEW b \in pinned PROVE refcnt[b] # 0
    BY <1>1 DEF CacheInv, Counted
  <1>6. QED
    BY <1>4, <1>5, Zenon

\* A step that only moves processes about within virtio_disk_rw(), or outside it.
LEMMA DataStays ==
  ASSUME DataInv,
         UNCHANGED <<disk, data, blockno, valid, pinned, wr, writes, avail, info, buf>>,
         \A p \in Procs :
           /\ pc'[p] \in Requesting <=> pc[p] \in Requesting
           /\ pc'[p] = "hold" => pc[p] = "hold"
  PROVE  DataInv'
  <1>1. Heads' = Heads
    BY Zenon DEF Heads
  <1>2. UsersKnow'
    BY Zenon DEF DataInv, UsersKnow
  <1>3. QED
    BY <1>1, <1>2, Zenon DEF DataInv, BuffersRight, RequestsRight

\* A request that the device has not seen is right.
LEMMA SubmitKeepsData ==
  ASSUME CacheInv, DiskInv, DataInv, NEW p \in Procs, rw_submit(p), UNCHANGED cvars
  PROVE  DataInv'
  <1> USE VirtioAssumption DEF cvars
  <1>1. PICK d0 \in free :
          /\ info' = [info EXCEPT ![d0] = buf[p]] /\ avail' = avail \cup {d0}
          /\ writes' = IF p \in wr THEN writes \cup {d0} ELSE writes \ {d0}
    BY ThreeFree, Zenon DEF DiskInv, ChainsApart, rw_submit
  <1>2. /\ pc[p] = "rw" /\ pc' = [pc EXCEPT ![p] = "rw_sleep"] /\ buf[p] \in Bufs
        /\ UNCHANGED <<disk, data, blockno, valid, pinned, wr, buf>>
    BY DEF rw_submit, CacheInv, LocksHeld
  <1>3. d0 \in Desc /\ d0 \notin Heads /\ Heads' = Heads \cup {d0}
    BY <1>1, <1>2 DEF DiskInv, ChainsApart, Heads, Chain
  <1>4. UsersKnow'
    BY <1>2, Zenon DEF DataInv, UsersKnow, Requesting, Waiting, CacheInv
  <1>5. p \in wr <=> buf[p] \in valid
    BY <1>2, Zenon DEF DataInv, UsersKnow, Requesting
  <1>6. ASSUME NEW d \in Heads'
        PROVE  /\ d \in writes' <=> info'[d] \in valid
               /\ info'[d] \notin valid /\ d \notin avail'
                    => data[info'[d]] = disk[blockno[info'[d]]]
    <2>1. CASE d = d0
      BY <1>1, <1>3, <1>5, <2>1, Zenon DEF DiskInv, ChainsApart
    <2>2. CASE d \in Heads
      <3>1. d # d0 /\ info'[d] = info[d] /\ (d \in writes' <=> d \in writes)
        <4>1. d # d0 /\ d \in Desc /\ DOMAIN info = Desc
          BY <1>3, <2>2, Zenon DEF DiskInv, ChainsApart, Heads
        <4>2. d \in writes' <=> d \in writes
          BY <1>1, <4>1, Zenon
        <4>3. QED
          BY <1>1, <4>1, <4>2, Zenon
      <3>2. QED
        BY <1>1, <2>2, <3>1, Zenon DEF DataInv, RequestsRight
    <2>3. QED
      BY <1>3, <2>1, <2>2, Zenon
  <1>7. RequestsRight'
    BY <1>2, <1>6, Zenon DEF RequestsRight
  <1>8. QED
    BY <1>2, <1>4, <1>7, Zenon DEF DataInv, BuffersRight

\* The device transfers a block: it changes what is on disk for the block of one valid
\* buffer only, and fills only a buffer that is not valid.
LEMMA DeviceKeepsData ==
  ASSUME CacheInv, DiskInv, DataInv, NEW d \in Desc, device(d), UNCHANGED cvars
  PROVE  DataInv'
  <1> USE VirtioAssumption DEF cvars
  <1> DEFINE b == info[d]
             k == blockno[b]
  <1>1. /\ d \in Heads /\ b \in Bufs /\ k \in Blocks /\ Heads' = Heads
        /\ UNCHANGED <<blockno, info, writes, pc, buf, wr, valid, pinned>>
        /\ avail' = avail \ {d} /\ d \in avail
    <2>1. d \in Heads /\ b \in Bufs /\ owner[b] \in Procs
      BY Zenon DEF device, DiskInv, RingsRight, ChainsApart, ChainsOwned, Heads
    <2>2. buf[owner[b]] = b
      BY <2>1 DEF CacheInv, LocksHeld
    <2>3. k \in Blocks
      BY <2>1, <2>2, Zenon DEF DataInv, UsersKnow
    <2>4. QED
      BY <2>1, <2>3, Zenon DEF device, Heads
  <1>2. UsersKnow'
    BY <1>1, Zenon DEF DataInv, UsersKnow
  <1>3. \A e \in Heads \ {d} :
          /\ info[e] # b /\ info[e] \in Bufs
          /\ blockno[info[e]] # k /\ blockno[info[e]] \in Blocks
    <2>1. \A e \in Heads : e # d => info[e] # b /\ info[e] \in Bufs /\ owner[info[e]] \in Procs
      BY <1>1, Zenon DEF DiskInv, ChainsApart, ChainsOwned, Heads
    <2>2. \A e \in Heads : e # d => buf[owner[info[e]]] = info[e]
      BY <2>1 DEF CacheInv, LocksHeld
    <2>3. \A e \in Heads : e # d => blockno[info[e]] \in Blocks
      BY <2>1, <2>2, Zenon DEF DataInv, UsersKnow
    <2>4. QED
      BY <1>1, <2>1, <2>3, Zenon DEF CacheInv, OneBufferPerBlock
  <1>4. CASE d \in writes
    <2>1. disk' = [disk EXCEPT ![k] = data[b]] /\ UNCHANGED data
      BY <1>4, Zenon DEF device
    <2>2. b \in valid /\ data[b] \in Vals
      BY <1>1, <1>4, Zenon DEF DataInv, RequestsRight, BuffersRight
    <2> HIDE DEF b, k
    <2>3. BuffersRight'
      BY <1>1, <2>1, <2>2, Zenon DEF DataInv, BuffersRight
    <2>4. RequestsRight'
      BY <1>1, <1>3, <2>1, <2>2, Zenon DEF DataInv, RequestsRight, BuffersRight, b
    <2>5. QED
      BY <1>2, <2>3, <2>4, Zenon DEF DataInv
  <1>5. CASE d \notin writes
    <2>1. data' = [data EXCEPT ![b] = disk[k]] /\ UNCHANGED disk
      BY <1>5, Zenon DEF device
    <2>2. b \notin valid /\ disk[k] \in Vals
      BY <1>1, <1>5, Zenon DEF DataInv, RequestsRight, BuffersRight
    <2>3. BuffersRight'
      BY <1>1, <2>1, <2>2, Zenon DEF DataInv, BuffersRight
    <2>4. RequestsRight'
      BY <1>1, <1>3, <2>1, <2>2, Zenon DEF DataInv, RequestsRight, BuffersRight
    <2>5. QED
      BY <1>2, <2>3, <2>4 DEF DataInv
  <1>6. QED
    BY <1>4, <1>5, Zenon

\* The block that was read is valid, and the request is gone.
LEMMA ReturnKeepsData ==
  ASSUME CacheInv, DiskInv, DataInv, NEW p \in Procs, rw_return(p) PROVE DataInv'
  <1> USE VirtioAssumption
  <1>1. PICK d \in Desc : info[d] = buf[p] /\ info' = [info EXCEPT ![d] = None]
    BY Zenon DEF rw_return, rw_done
  <1>2. /\ pc[p] = "rw_wait" /\ buf[p] \in Bufs /\ buf[p] \notin busy
        /\ pc' = [Wake(Procs, "desc_sleep", "rw") EXCEPT ![p] = "hold"]
        /\ valid' = valid \cup {buf[p]} /\ wr' = wr \ {p}
        /\ UNCHANGED <<disk, data, blockno, pinned, writes, avail, buf>>
    BY DEF rw_return, rw_done, CacheInv, LocksHeld
  <1>3. d \in Heads /\ d \notin avail /\ Heads' = Heads \ {d}
    BY <1>1, <1>2, Zenon DEF DiskInv, ChainsApart, RingsRight, Heads
  <1>4. \A e \in Heads' : e \in Heads /\ info'[e] = info[e] /\ info[e] # buf[p]
    BY <1>1, <1>3 DEF DiskInv, ChainsApart, ChainsOwned
  <1>5. \A q \in Procs : pc'[q] \in Requesting => q # p /\ pc[q] \in Requesting /\ buf[q] # buf[p]
    <2>1. \A q \in Procs : pc'[q] \in Requesting => q # p /\ pc[q] \in Requesting
      BY <1>2, Zenon DEF CacheInv, Wake, Requesting, Waiting
    <2>2. \A q \in Procs : pc[q] \in Requesting \cup {"rw_wait"} => owner[buf[q]] = q
      BY Zenon DEF CacheInv, LocksHeld, Holding, Requesting, Waiting
    <2>3. QED
      BY <1>2, <2>1, <2>2, Zenon
  <1>6. \A q \in Procs \ {p} :
          /\ pc'[q] = "hold" => pc[q] = "hold"
          /\ pc[q] \in Requesting => pc'[q] \in Requesting
    BY <1>2, Zenon DEF CacheInv, Wake, Requesting, Waiting
  <1>7. UsersKnow'
    <2>1. ASSUME NEW q \in Procs
          PROVE  /\ buf[q] # None => blockno[buf[q]] \in Blocks
                 /\ pc'[q] = "hold" => buf[q] \in valid'
                 /\ pc'[q] \in Requesting => (q \in wr' <=> buf[q] \in valid')
                 /\ q \in wr' => pc'[q] \in Requesting
      <3>1. CASE q = p
        BY <1>2, <1>5, <3>1, Zenon DEF DataInv, UsersKnow
      <3>2. CASE q # p
        BY <1>2, <1>5, <1>6, <3>2, Zenon DEF DataInv, UsersKnow
      <3>3. QED
        BY <3>1, <3>2, Zenon
    <2>2. QED
      BY <1>2, <2>1, Zenon DEF UsersKnow
  <1>8. BuffersRight'
    <2>1. blockno[buf[p]] \in Blocks
      BY <1>2, Zenon DEF DataInv, UsersKnow
    <2>2. data[buf[p]] \in Vals
      BY <1>1, <1>3, <2>1, Zenon DEF DataInv, BuffersRight, RequestsRight
    <2>3. QED
      BY <1>2, <2>1, <2>2, Zenon DEF DataInv, BuffersRight
  <1>9. RequestsRight'
    BY <1>2, <1>4, Zenon DEF DataInv, RequestsRight
  <1>10. QED
    BY <1>7, <1>8, <1>9, Zenon DEF DataInv

\* A recycled buffer is nobody's.
LEMMA RecycledIsFree ==
  ASSUME CacheInv, DiskInv, NEW b \in Bufs, refcnt[b] = 0
  PROVE  /\ \A p \in Procs : buf[p] # b
         /\ b \notin pinned /\ owner[b] = None
         /\ \A d \in Heads : info[d] # b
  <1>1. (\A p \in Procs : buf[p] # b) /\ b \notin pinned
    BY InUse, Zenon
  <1>2. owner[b] = None
    BY <1>1 DEF CacheInv, LocksHeld
  <1>3. \A d \in Heads : info[d] # b
    BY <1>2, VirtioAssumption, Zenon DEF DiskInv, ChainsOwned
  <1>4. QED
    BY <1>1, <1>2, <1>3, Zenon

\* bget() gives a process a buffer of its block.
LEMMA BgetKeepsData ==
  ASSUME CacheInv, DiskInv, DataInv, NEW p \in Procs, NEW k \in Blocks,
         bget_cached(p, k) \/ bget_recycle(p, k)
  PROVE  DataInv'
  <1> USE VirtioAssumption
  <1>1. /\ pc[p] = "idle" /\ pc' = [pc EXCEPT ![p] = "lock"]
        /\ UNCHANGED <<disk, data, ring, wr, pinned>> /\ Heads' = Heads
    BY Zenon DEF bget_cached, bget_recycle, Goto, ring, Heads
  <1>2. CASE bget_cached(p, k)
    <2>1. PICK b \in Bufs : blockno[b] = k /\ buf' = [buf EXCEPT ![p] = b]
      BY <1>2, Zenon DEF bget_cached, Cached
    <2>2. UNCHANGED <<blockno, valid>>
      BY <1>2, Zenon DEF bget_cached
    <2>3. UsersKnow'
      BY <1>1, <2>1, <2>2, Zenon DEF DataInv, UsersKnow, CacheInv, Requesting, Waiting
    <2>4. QED
      BY <1>1, <2>2, <2>3, Zenon DEF DataInv, BuffersRight, RequestsRight, ring
  <1>3. CASE bget_recycle(p, k)
    <2>1. PICK b \in Bufs :
            /\ refcnt[b] = 0 /\ blockno' = [blockno EXCEPT ![b] = k]
            /\ valid' = valid \ {b} /\ buf' = [buf EXCEPT ![p] = b]
      <3>1. LeastRecent(Unused) \in Bufs /\ refcnt[LeastRecent(Unused)] = 0
        <4>1. Unused # {} /\ Unused \in SUBSET Bufs /\ ListHasAll
          BY <1>3, Zenon DEF bget_recycle, CacheInv, Unused
        <4>2. LeastRecent(Unused) \in Unused
          BY <4>1, LeastRecentFound, Zenon
        <4>3. QED
          BY <4>2, Zenon DEF Unused
      <3>2. QED
        BY <1>3, <3>1, Zenon DEF bget_recycle
    <2>2. /\ \A q \in Procs : buf[q] # b
          /\ b \notin pinned
          /\ \A d \in Heads : info[d] # b
      BY <2>1, RecycledIsFree, Zenon
    <2>3. UsersKnow'
      BY <1>1, <2>1, <2>2, Zenon DEF DataInv, UsersKnow, CacheInv, Requesting, Waiting
    <2>4. BuffersRight'
      BY <1>1, <2>1, <2>2, Zenon DEF DataInv, BuffersRight, CacheInv
    <2>5. RequestsRight'
      BY <1>1, <2>1, <2>2, Zenon
         DEF DataInv, RequestsRight, ring, DiskInv, ChainsApart, CacheInv, Heads
    <2>6. QED
      BY <2>3, <2>4, <2>5, Zenon DEF DataInv
  <1>4. QED
    BY <1>2, <1>3, Zenon

\* The other steps of a process with a reference.
LEMMA UserKeepsData ==
  ASSUME CacheInv, DiskInv, DataInv, NEW p \in Procs,
         \/ acquiresleep_wait(p) \/ acquiresleep(p)
         \/ (\E v \in Vals : modify(p, v))
         \/ bwrite(p) \/ bpin(p) \/ bunpin(p) \/ brelse_unlock(p) \/ brelse(p)
         \/ kill_wakes(p)
  PROVE  DataInv'
  <1> USE VirtioAssumption DEF ring, cvars, vvars
  <1>1. Heads' = Heads
    BY Zenon DEF Heads, acquiresleep_wait, acquiresleep, modify, bwrite, bpin, bunpin,
           brelse_unlock, brelse, kill_wakes
  <1>2. CASE acquiresleep_wait(p) \/ brelse_unlock(p) \/ kill_wakes(p)
    <2>1. \A q \in Procs :
            /\ pc'[q] \in Requesting <=> pc[q] \in Requesting
            /\ pc'[q] = "hold" => pc[q] = "hold"
      <3> USE DEF Goto, Wake, CacheInv, Labels, Requesting, Waiting
      <3>1. CASE acquiresleep_wait(p)
        BY <3>1, Zenon DEF acquiresleep_wait
      <3>2. CASE brelse_unlock(p)
        BY <3>2, Zenon DEF brelse_unlock
      <3>3. CASE kill_wakes(p)
        BY <3>3, Zenon DEF kill_wakes
      <3>4. QED
        BY <1>2, <3>1, <3>2, <3>3, Zenon
    <2>2. UNCHANGED <<disk, data, blockno, valid, pinned, wr, writes, avail, info, buf>>
      BY <1>2, Zenon DEF acquiresleep_wait, brelse_unlock, kill_wakes
    <2>3. QED
      BY <2>1, <2>2, DataStays, Zenon
  <1>3. CASE acquiresleep(p)
    <2>1. UsersKnow'
      <3>1. /\ pc[p] = "lock"
            /\ pc' = [pc EXCEPT ![p] = IF buf[p] \in valid THEN "hold" ELSE "rw"]
            /\ UNCHANGED <<buf, blockno, valid, wr>>
        BY <1>3, Zenon DEF acquiresleep, Goto
      <3>2. UsersKnow /\ pc \in [Procs -> Labels]
        BY Zenon DEF DataInv, CacheInv
      <3>3. QED
        BY <3>1, <3>2, Zenon DEF UsersKnow, Requesting, Waiting
    <2>2. QED
      BY <1>1, <1>3, <2>1, Zenon DEF acquiresleep, DataInv, BuffersRight, RequestsRight
  <1>4. ASSUME NEW v \in Vals, modify(p, v) PROVE DataInv'
    <2>1. UsersKnow'
      BY <1>4, Zenon DEF modify, DataInv, UsersKnow
    <2>2. buf[p] \in valid /\ data' = [data EXCEPT ![buf[p]] = v]
      BY <1>4, Zenon DEF modify, DataInv, UsersKnow
    <2>3. BuffersRight'
      BY <1>4, <2>2 DEF modify, DataInv, BuffersRight
    <2>4. RequestsRight'
      BY <1>1, <1>4, <2>2 DEF modify, DataInv, BuffersRight, RequestsRight
    <2>5. QED
      BY <2>1, <2>3, <2>4, Zenon DEF DataInv
  <1>5. CASE bwrite(p)
    <2>1. UsersKnow'
      BY <1>5, Zenon DEF bwrite, Goto, DataInv, UsersKnow, CacheInv, Requesting, Waiting
    <2>2. QED
      BY <1>1, <1>5, <2>1, Zenon DEF bwrite, DataInv, BuffersRight, RequestsRight
  <1>6. CASE bpin(p) \/ bunpin(p)
    <2>1. UsersKnow'
      BY <1>6, Zenon DEF bpin, bunpin, DataInv, UsersKnow
    <2>2. BuffersRight'
      BY <1>6, Zenon DEF bpin, bunpin, DataInv, BuffersRight, UsersKnow
    <2>3. RequestsRight'
      BY <1>1, <1>6, Zenon DEF bpin, bunpin, DataInv, RequestsRight
    <2>4. QED
      BY <2>1, <2>2, <2>3, Zenon DEF DataInv
  <1>7. CASE brelse(p)
    <2>1. UsersKnow'
      BY <1>7, Zenon DEF brelse, Goto, DataInv, UsersKnow, CacheInv, Requesting, Waiting
    <2>2. QED
      BY <1>1, <1>7, <2>1, Zenon DEF brelse, DataInv, BuffersRight, RequestsRight
  <1>8. QED
    BY <1>2, <1>3, <1>4, <1>5, <1>6, <1>7, Zenon

\* The invariant of the data is inductive, given the other two.
THEOREM DataInvariant == Spec => []DataInv
  <1>1. ASSUME CacheInv, DiskInv, DataInv, [Next]_vars PROVE DataInv'
    <2>1. CASE Driver /\ UNCHANGED cvars
      <3>1. ASSUME NEW p \in Procs, rw_no_desc(p) \/ rw_again(p) PROVE DataInv'
        BY <1>1, <2>1, <3>1, DataStays, Zenon
           DEF rw_no_desc, rw_again, Wake, CacheInv, Requesting, Waiting, ring, cvars
      <3>2. CASE intr_ack
        BY <1>1, <2>1, <3>2, DataStays, Zenon DEF intr_ack, ring, cvars
      <3>3. CASE intr_used
        BY <1>1, <2>1, <3>3, DataStays, Zenon
           DEF intr_used, Wake, CacheInv, Requesting, Waiting, cvars
      <3>4. QED
        BY <1>1, <2>1, <3>1, <3>2, <3>3, SubmitKeepsData, DeviceKeepsData, Zenon DEF Driver
    <2>2. CASE UNCHANGED <<vvars, valid, pinned>>
      BY <1>1, <2>2, DataStays, Zenon DEF vvars, ring
    <2>3. ASSUME NEW p \in Procs, NEW k \in Blocks, bget_panic(p, k) PROVE DataInv'
      BY <2>2, <2>3, Zenon DEF bget_panic
    <2>4. CASE UNCHANGED vars
      BY <2>2, <2>4, Zenon DEF vars, cvars
    <2>5. QED
      BY <1>1, <2>1, <2>3, <2>4, BgetKeepsData, ReturnKeepsData, UserKeepsData, Zenon
         DEF Next
  <1>2. QED
    BY <1>1, DataInitially, CacheInvariant, DiskInvariant, PTL DEF Spec

-----------------------------------------------------------------------------
(* The view of the log *)

\* A block shows what its buffer has, if that is valid, and nothing otherwise.
ViewRight ==
  /\ CacheView \in [Blocks -> Vals \cup {None}]
  /\ HolderView \in [Blocks -> Procs \cup {None}]
  /\ \A b \in Bufs : blockno[b] \in Blocks =>
       /\ CacheView[blockno[b]] = IF b \in valid THEN data[b] ELSE None
       /\ HolderView[blockno[b]] = IF b \in valid THEN owner[b] ELSE None
  /\ \A k \in Blocks : (\A b \in Bufs : blockno[b] # k) =>
       CacheView[k] = None /\ HolderView[k] = None

\* It does, because a block has one buffer.
LEMMA ViewIsRight == CacheInv /\ DataInv => ViewRight
  <1> SUFFICES ASSUME CacheInv, DataInv PROVE ViewRight
    BY Zenon
  <1> USE VirtioAssumption
  <1>1. ASSUME NEW b \in Bufs, blockno[b] \in Blocks
        PROVE  BufOf(blockno[b]) = b /\ Cached(blockno[b]) # {}
    <2>1. Cached(blockno[b]) = {b}
      BY <1>1, Zenon DEF CacheInv, OneBufferPerBlock, Cached
    <2>2. QED
      BY <2>1, Zenon DEF BufOf
  <1>2. \A b \in Bufs : blockno[b] \in Blocks =>
          /\ CacheView[blockno[b]] = IF b \in valid THEN data[b] ELSE None
          /\ HolderView[blockno[b]] = IF b \in valid THEN owner[b] ELSE None
    BY <1>1, Zenon DEF CacheView, HolderView, IsCached
  <1>3. ASSUME NEW k \in Blocks, \A b \in Bufs : blockno[b] # k
        PROVE  CacheView[k] = None /\ HolderView[k] = None
    <2>1. Cached(k) = {}
      BY <1>3, Zenon DEF Cached
    <2>2. QED
      BY <2>1, Zenon DEF CacheView, HolderView, IsCached
  <1>4. ASSUME NEW k \in Blocks
        PROVE  CacheView[k] \in Vals \cup {None} /\ HolderView[k] \in Procs \cup {None}
    <2>1. CASE \E b \in Bufs : blockno[b] = k
      <3>1. PICK b \in Bufs : blockno[b] = k
        BY <2>1, Zenon
      <3>2. QED
        BY <1>2, <3>1, Zenon DEF CacheInv, DataInv, BuffersRight
    <2>2. CASE ~\E b \in Bufs : blockno[b] = k
      BY <1>3, <2>2, Zenon
    <2>3. QED
      BY <2>1, <2>2, Zenon
  <1>5. /\ CacheView \in [Blocks -> Vals \cup {None}]
        /\ HolderView \in [Blocks -> Procs \cup {None}]
    BY <1>4, Zenon DEF CacheView, HolderView
  <1>6. QED
    BY <1>2, <1>3, <1>5, Zenon DEF ViewRight

\* Blocks whose buffers stay as they are look as before.
LEMMA OthersStay ==
  ASSUME ViewRight, ViewRight', UNCHANGED blockno, NEW s \in SUBSET Bufs,
         \A c \in s : c \in valid' <=> c \in valid,
         \A c \in s \cap valid : data'[c] = data[c] /\ owner'[c] = owner[c],
         NEW k \in Blocks, \A b \in Bufs \ s : blockno[b] # k
  PROVE  CacheView'[k] = CacheView[k] /\ HolderView'[k] = HolderView[k]
  <1>1. CASE \E b \in Bufs : blockno[b] = k
    <2>1. PICK b \in s : blockno[b] = k
      BY <1>1, Zenon
    <2>2. b \in Bufs /\ blockno'[b] = k
      BY <2>1, Zenon
    <2>3. /\ CacheView[k] = IF b \in valid THEN data[b] ELSE None
          /\ HolderView[k] = IF b \in valid THEN owner[b] ELSE None
      BY <2>1, <2>2 DEF ViewRight
    <2>4. /\ CacheView'[k] = IF b \in valid' THEN data'[b] ELSE None
          /\ HolderView'[k] = IF b \in valid' THEN owner'[b] ELSE None
      BY <2>1, <2>2 DEF ViewRight
    <2>5. QED
      BY <2>1, <2>3, <2>4, Zenon
  <1>2. CASE ~\E b \in Bufs : blockno[b] = k
    BY <1>2, Zenon DEF ViewRight
  <1>3. QED
    BY <1>1, <1>2, Zenon

\* A step that changes no valid buffer changes nothing that can be seen.
LEMMA ViewStays ==
  ASSUME ViewRight, ViewRight', UNCHANGED <<blockno, valid>>,
         \A c \in valid : data'[c] = data[c] /\ owner'[c] = owner[c]
  PROVE  CacheView' = CacheView /\ HolderView' = HolderView
  <1>1. \A k \in Blocks : CacheView'[k] = CacheView[k] /\ HolderView'[k] = HolderView[k]
    BY OthersStay, Zenon
  <1>2. QED
    BY <1>1 DEF ViewRight

\* A step that changes one valid buffer changes what one block shows.
LEMMA ViewChanges ==
  ASSUME ViewRight, ViewRight', UNCHANGED blockno,
         NEW b \in Bufs, blockno[b] \in Blocks, b \in valid',
         \A c \in Bufs \ {b} :
           (c \in valid' <=> c \in valid) /\ data'[c] = data[c] /\ owner'[c] = owner[c]
  PROVE  /\ CacheView' = [CacheView EXCEPT ![blockno[b]] = data'[b]]
         /\ HolderView' = [HolderView EXCEPT ![blockno[b]] = owner'[b]]
  <1>1. \A k \in Blocks \ {blockno[b]} :
          CacheView'[k] = CacheView[k] /\ HolderView'[k] = HolderView[k]
    <2> DEFINE s == Bufs \ {b}
    <2>1. /\ s \in SUBSET Bufs
          /\ \A c \in s : c \in valid' <=> c \in valid
          /\ \A c \in s \cap valid : data'[c] = data[c] /\ owner'[c] = owner[c]
          /\ \A c \in Bufs \ s : c = b
      BY Zenon
    <2> HIDE DEF s
    <2>2. QED
      BY <2>1, OthersStay
  <1>2. CacheView'[blockno[b]] = data'[b] /\ HolderView'[blockno[b]] = owner'[b]
    BY Zenon DEF ViewRight
  <1>3. QED
    BY <1>1, <1>2, Zenon DEF ViewRight

-----------------------------------------------------------------------------
(* The steps *)

Invs == CacheInv /\ DiskInv /\ DataInv /\ ViewRight

Seen == <<disk, CacheView, HolderView, PinnedView>>

\* The device writes the block of a valid buffer, or changes nothing the log sees.
LEMMA DeviceRefines ==
  ASSUME Invs, Invs', NEW d \in Desc, device(d), UNCHANGED cvars
  PROVE  View!BNext \/ UNCHANGED Seen
  <1> USE VirtioAssumption DEF cvars
  <1> DEFINE b == info[d]
             k == blockno[b]
             p == owner[b]
  <1>1. d \in Heads /\ b \in Bufs /\ p \in Procs
    BY Zenon DEF Invs, device, DiskInv, RingsRight, ChainsApart, ChainsOwned, Heads
  <1>2. buf[p] = b
    <2>1. LocksHeld
      BY Zenon DEF Invs, CacheInv
    <2>2. QED
      BY <1>1, <2>1, Zenon DEF LocksHeld
  <1>3. k \in Blocks
    BY <1>1, <1>2, Zenon DEF Invs, DataInv, UsersKnow
  <1>4. PinnedView' = PinnedView
    BY Zenon DEF PinnedView, device
  <1>5. CASE d \in writes
    <2>1. disk' = [disk EXCEPT ![k] = data[b]] /\ UNCHANGED <<data, blockno, valid, owner>>
      BY <1>5, Zenon DEF device
    <2>2. b \in valid
      BY <1>1, <1>5, Zenon DEF Invs, DataInv, RequestsRight
    <2>3. CacheView[k] = data[b] /\ HolderView[k] = p
      BY <1>1, <1>3, <2>2, Zenon DEF Invs, ViewRight
    <2>4. CacheView' = CacheView /\ HolderView' = HolderView
      BY <2>1, ViewStays, Zenon DEF Invs
    <2> HIDE DEF b, k, p
    <2>5. View!Write(p, k)
      BY <1>4, <2>1, <2>3, <2>4, Zenon DEF View!Write
    <2>6. QED
      BY <1>1, <1>3, <2>5, Zenon DEF View!BNext
  <1>6. CASE d \notin writes
    <2>1. data' = [data EXCEPT ![b] = disk[k]] /\ UNCHANGED <<disk, blockno, valid, owner>>
      BY <1>6, Zenon DEF device
    <2>2. b \notin valid
      BY <1>1, <1>6, Zenon DEF Invs, DataInv, RequestsRight
    <2>3. \A c \in valid : data'[c] = data[c] /\ owner'[c] = owner[c]
      BY <2>1, <2>2, Zenon DEF Invs, DataInv, BuffersRight
    <2>4. CacheView' = CacheView /\ HolderView' = HolderView
      BY <2>1, <2>3, ViewStays, Zenon DEF Invs
    <2>5. QED
      BY <1>4, <2>1, <2>4, Zenon DEF Seen
  <1>7. QED
    BY <1>5, <1>6, Zenon

\* A step that leaves the disk, the pins and the valid buffers alone is not seen.
LEMMA Unseen ==
  ASSUME Invs, Invs', UNCHANGED <<disk, blockno, valid, data, pinned>>,
         \A c \in valid : owner'[c] = owner[c]
  PROVE  UNCHANGED Seen
  <1>1. CacheView' = CacheView /\ HolderView' = HolderView
    BY ViewStays, Zenon DEF Invs
  <1>2. QED
    BY <1>1, Zenon DEF Seen, PinnedView

\* bread() gets its block: at once if it is valid, otherwise when it has been read.
LEMMA BreadRefines ==
  ASSUME Invs, Invs', NEW p \in Procs, acquiresleep(p) \/ rw_return(p)
  PROVE  View!BNext \/ UNCHANGED Seen
  <1> USE VirtioAssumption
  <1> DEFINE b == buf[p]
             k == blockno[b]
  <1>1. b \in Bufs /\ k \in Blocks
    <2>1. pc[p] \in {"lock", "rw_wait"}
      BY Zenon DEF acquiresleep, rw_return, rw_done
    <2>2. b \in Bufs
      BY <2>1 DEF Invs, CacheInv, LocksHeld
    <2>3. QED
      BY <2>2, Zenon DEF Invs, DataInv, UsersKnow
  <1>2. UNCHANGED <<disk, data, blockno, pinned>> /\ PinnedView' = PinnedView
    <2>1. CASE acquiresleep(p)
      BY <2>1, Zenon DEF acquiresleep, PinnedView
    <2>2. CASE rw_return(p)
      <3>1. UNCHANGED <<disk, data, blockno, pinned>>
        BY <2>2, Zenon DEF rw_return, rw_done
      <3>2. QED
        BY <3>1, Zenon DEF PinnedView
    <2>3. QED
      BY <2>1, <2>2, Zenon
  <1>3. CASE acquiresleep(p) /\ b \notin valid
    <2>1. owner' = [owner EXCEPT ![b] = p] /\ UNCHANGED valid
      BY <1>3, Zenon DEF acquiresleep
    <2>2. \A c \in valid : owner'[c] = owner[c]
      BY <1>3, <2>1, Zenon DEF Invs, CacheInv, DataInv, BuffersRight
    <2>3. QED
      BY <1>2, <2>1, <2>2, Unseen, Zenon
  <1>4. CASE acquiresleep(p) /\ b \in valid
    <2>1. owner[b] = None /\ owner' = [owner EXCEPT ![b] = p] /\ UNCHANGED valid
      BY <1>4, Zenon DEF acquiresleep
    <2>2. HolderView[k] = None /\ CacheView[k] = data[b] /\ data[b] # None
      BY <1>1, <1>4, <2>1, Zenon DEF Invs, ViewRight, DataInv, BuffersRight
    <2>3. \A c \in Bufs \ {b} :
            (c \in valid' <=> c \in valid) /\ data'[c] = data[c] /\ owner'[c] = owner[c]
      BY <1>2, <2>1, Zenon DEF Invs, CacheInv
    <2>4. owner'[b] = p
      BY <1>1, <2>1, Zenon DEF Invs, CacheInv
    <2> HIDE DEF b, k
    <2>5. /\ CacheView' = [CacheView EXCEPT ![k] = data[b]]
          /\ HolderView' = [HolderView EXCEPT ![k] = p]
      BY <1>1, <1>2, <1>4, <2>1, <2>3, <2>4, ViewChanges, Zenon DEF Invs, k
    <2>6. View!Get(p, k)
      BY <1>2, <2>2, <2>5, Zenon DEF View!Get
    <2>7. QED
      BY <1>1, <2>6, Zenon DEF View!BNext
  <1>5. CASE rw_return(p) /\ b \in valid
    <2>1. UNCHANGED <<owner, valid>>
      BY <1>5, Zenon DEF rw_return
    <2>2. QED
      BY <1>2, <2>1, Unseen, Zenon
  <1>6. CASE rw_return(p) /\ b \notin valid
    <2>1. /\ pc[p] = "rw_wait" /\ b \notin busy /\ owner[b] = p
          /\ valid' = valid \cup {b} /\ UNCHANGED owner
      BY <1>6, Zenon DEF rw_return, rw_done, Invs, CacheInv, LocksHeld, Holding
    <2>2. PICK d \in Heads : info[d] = b
      BY <2>1, Zenon DEF Invs, DiskInv, ChainsOwned, Waiting
    <2>3. data[b] = disk[k]
      BY <1>6, <2>1, <2>2, Zenon DEF Invs, DiskInv, RingsRight, DataInv, RequestsRight
    <2>4. HolderView[k] = None /\ CacheView[k] = None
      BY <1>1, <1>6, Zenon DEF Invs, ViewRight
    <2> HIDE DEF b, k
    <2>5. /\ CacheView' = [CacheView EXCEPT ![k] = data[b]]
          /\ HolderView' = [HolderView EXCEPT ![k] = p]
      BY <1>1, <1>2, <2>1, ViewChanges, Zenon DEF Invs, k
    <2>6. View!Get(p, k)
      BY <1>2, <2>3, <2>4, <2>5, Zenon DEF View!Get
    <2>7. QED
      BY <1>1, <2>6, Zenon DEF View!BNext
  <1>7. QED
    BY <1>3, <1>4, <1>5, <1>6, Zenon

\* The holder of a block changes, pins, unpins or releases it.
LEMMA HolderRefines ==
  ASSUME Invs, Invs', NEW p \in Procs,
         \/ \E v \in Vals : modify(p, v)
         \/ bpin(p) \/ bunpin(p) \/ brelse_unlock(p)
  PROVE  View!BNext
  <1> USE VirtioAssumption
  <1> DEFINE b == buf[p]
             k == blockno[b]
  <1>1. /\ b \in Bufs /\ b \in valid /\ k \in Blocks /\ owner[b] = p
        /\ UNCHANGED <<disk, blockno, valid>>
    <2>1. pc[p] = "hold" /\ UNCHANGED <<disk, blockno, valid>>
      BY Zenon DEF modify, bpin, bunpin, brelse_unlock, vvars, cvars
    <2>2. b \in Bufs /\ owner[b] = p
      BY <2>1 DEF Invs, CacheInv, LocksHeld, Holding
    <2>3. b \in valid /\ k \in Blocks
      BY <2>1, <2>2, Zenon DEF Invs, DataInv, UsersKnow
    <2>4. QED
      BY <2>1, <2>2, <2>3, Zenon
  <1>2. HolderView[k] = p /\ CacheView[k] = data[b]
    BY <1>1, Zenon DEF Invs, ViewRight
  <1>3. ASSUME NEW v \in Vals, modify(p, v) PROVE View!BNext
    <2>1. data' = [data EXCEPT ![b] = v] /\ UNCHANGED <<owner, pinned>>
      BY <1>3, Zenon DEF modify, cvars
    <2>2. data'[b] = v /\ \A c \in Bufs \ {b} : data'[c] = data[c]
      BY <1>1, <2>1, Zenon DEF Invs, DataInv, BuffersRight
    <2>3. PinnedView' = PinnedView
      BY <1>1, <2>1, Zenon DEF PinnedView
    <2> HIDE DEF b, k
    <2>4. /\ CacheView' = [CacheView EXCEPT ![k] = v]
          /\ HolderView' = [HolderView EXCEPT ![k] = p]
      BY <1>1, <2>1, <2>2, ViewChanges, Zenon DEF Invs, k
    <2>5. HolderView' = HolderView
      BY <1>1, <1>2, <2>4, Zenon DEF Invs, ViewRight
    <2>6. View!Modify(p, k, v)
      BY <1>1, <1>2, <2>3, <2>4, <2>5, Zenon DEF View!Modify
    <2>7. QED
      BY <1>1, <1>3, <2>6, Zenon DEF View!BNext
  <1>4. CASE brelse_unlock(p)
    <2>1. owner' = [owner EXCEPT ![b] = None] /\ UNCHANGED <<data, pinned>>
      BY <1>4, Zenon DEF brelse_unlock
    <2>2. owner'[b] = None /\ \A c \in Bufs \ {b} : owner'[c] = owner[c]
      BY <1>1, <2>1, Zenon DEF Invs, CacheInv
    <2>3. PinnedView' = PinnedView
      BY <1>1, <2>1, Zenon DEF PinnedView
    <2> HIDE DEF b, k
    <2>4. /\ CacheView' = [CacheView EXCEPT ![k] = data[b]]
          /\ HolderView' = [HolderView EXCEPT ![k] = None]
      BY <1>1, <2>1, <2>2, ViewChanges, Zenon DEF Invs, k
    <2>5. CacheView' = CacheView
      BY <1>1, <1>2, <2>4, Zenon DEF Invs, ViewRight
    <2>6. View!Release(p, k)
      BY <1>1, <1>2, <2>3, <2>4, <2>5, Zenon DEF View!Release
    <2>7. QED
      BY <1>1, <2>6, Zenon DEF View!BNext
  <1>5. CASE bpin(p) \/ bunpin(p)
    <2>1. UNCHANGED <<data, owner>>
      BY <1>5, Zenon DEF bpin, bunpin, vvars
    <2>2. CacheView' = CacheView /\ HolderView' = HolderView
      BY <1>1, <2>1, ViewStays, Zenon DEF Invs
    <2>3. \A c \in pinned : c \in Bufs /\ blockno[c] \in Blocks /\ (blockno[c] = k => c = b)
      BY <1>1, Zenon DEF Invs, CacheInv, OneBufferPerBlock, DataInv, BuffersRight
    <2>4. CASE bpin(p)
      <3>1. pinned' = pinned \cup {b}
        BY <2>4, Zenon DEF bpin
      <3>2. PinnedView' = PinnedView \cup {k}
        BY <1>1, <3>1, Zenon DEF PinnedView
      <3> HIDE DEF b, k
      <3>3. View!Pin(p, k)
        BY <1>1, <1>2, <2>2, <3>2, Zenon DEF View!Pin
      <3>4. QED
        BY <1>1, <3>3, Zenon DEF View!BNext
    <2>5. CASE bunpin(p)
      <3>1. pinned' = pinned \ {b}
        BY <2>5, Zenon DEF bunpin
      <3>2. PinnedView' = PinnedView \ {k}
        BY <1>1, <2>3, <3>1, Zenon DEF PinnedView
      <3> HIDE DEF b, k
      <3>3. View!Unpin(p, k)
        BY <1>1, <1>2, <2>2, <3>2, Zenon DEF View!Unpin
      <3>4. QED
        BY <1>1, <3>3, Zenon DEF View!BNext
    <2>6. QED
      BY <1>5, <2>4, <2>5, Zenon
  <1>6. QED
    BY <1>3, <1>4, <1>5, Zenon

\* bget() recycles a buffer: the log may see that the block it had is gone.
LEMMA RecycleRefines ==
  ASSUME Invs, Invs', NEW p \in Procs, NEW k \in Blocks, bget_recycle(p, k)
  PROVE  View!BNext \/ UNCHANGED Seen
  <1> USE VirtioAssumption
  <1>1. PICK b \in Bufs :
          /\ refcnt[b] = 0 /\ blockno' = [blockno EXCEPT ![b] = k] /\ valid' = valid \ {b}
    <2>1. LeastRecent(Unused) \in Bufs /\ refcnt[LeastRecent(Unused)] = 0
      <3>1. ListHasAll /\ Unused # {} /\ Unused \in SUBSET Bufs
        BY Zenon DEF bget_recycle, Invs, CacheInv, Unused
      <3>2. LeastRecent(Unused) \in Unused
        BY <3>1, LeastRecentFound, Zenon
      <3>3. QED
        BY <3>2, Zenon DEF Unused
    <2>2. QED
      BY <2>1, Zenon DEF bget_recycle
  <1>2. UNCHANGED <<disk, data, owner, pinned>> /\ \A c \in Bufs : blockno[c] # k
    BY Zenon DEF bget_recycle, Cached
  <1>3. b \notin pinned /\ owner[b] = None
    BY <1>1, RecycledIsFree, Zenon DEF Invs
  <1>4. /\ blockno'[b] = k /\ b \notin valid'
        /\ \A c \in Bufs \ {b} : blockno'[c] = blockno[c] /\ (c \in valid' <=> c \in valid)
    BY <1>1, Zenon DEF Invs, CacheInv
  <1>5. PinnedView' = PinnedView
    <2>1. \A c \in pinned : blockno'[c] = blockno[c]
      BY <1>3, <1>4, Zenon DEF Invs, CacheInv
    <2>2. pinned' = pinned
      BY <1>2, Zenon
    <2>3. QED
      BY <2>1, <2>2, Zenon DEF PinnedView
  <1>6. ASSUME NEW j \in Blocks, j # blockno[b]
        PROVE  CacheView'[j] = CacheView[j] /\ HolderView'[j] = HolderView[j]
    <2>1. CASE j = k
      <3>1. CacheView[j] = None /\ HolderView[j] = None
        BY <1>2, <2>1, Zenon DEF Invs, ViewRight
      <3>2. CacheView'[j] = None /\ HolderView'[j] = None
        BY <1>4, <2>1, Zenon DEF Invs, ViewRight
      <3>3. QED
        BY <3>1, <3>2, Zenon
    <2>2. CASE j # k /\ \E c \in Bufs : blockno[c] = j
      <3>1. PICK c \in Bufs : blockno[c] = j
        BY <2>2, Zenon
      <3>2. c # b /\ blockno'[c] = j /\ (c \in valid' <=> c \in valid)
        BY <1>4, <1>6, <3>1, Zenon
      <3>3. /\ CacheView[j] = IF c \in valid THEN data[c] ELSE None
            /\ HolderView[j] = IF c \in valid THEN owner[c] ELSE None
        BY <3>1, Zenon DEF Invs, ViewRight
      <3>4. /\ CacheView'[j] = IF c \in valid' THEN data'[c] ELSE None
            /\ HolderView'[j] = IF c \in valid' THEN owner'[c] ELSE None
        BY <3>2, Zenon DEF Invs, ViewRight
      <3>5. QED
        BY <1>2, <3>2, <3>3, <3>4, Zenon
    <2>3. CASE j # k /\ ~\E c \in Bufs : blockno[c] = j
      <3>1. \A c \in Bufs : blockno[c] # j /\ blockno'[c] # j
        BY <1>4, <2>3, Zenon
      <3>2. QED
        BY <3>1, Zenon DEF Invs, ViewRight
    <2>4. QED
      BY <2>1, <2>2, <2>3, Zenon
  <1>7. CASE blockno[b] \in Blocks
    <2> DEFINE j == blockno[b]
    <2>1. HolderView[j] = None
      BY <1>3, <1>7, Zenon DEF Invs, ViewRight
    <2>2. CacheView'[j] = None /\ HolderView'[j] = None
      <3>1. \A c \in Bufs : blockno'[c] # j
        BY <1>2, <1>4, <1>7, Zenon DEF Invs, CacheInv, OneBufferPerBlock
      <3>2. QED
        BY <1>7, <3>1, Zenon DEF Invs, ViewRight
    <2>3. j \notin PinnedView
      BY <1>3, <1>7 DEF PinnedView, Invs, CacheInv, OneBufferPerBlock
    <2> HIDE DEF j
    <2>4. j \in Blocks /\ \A i \in Blocks \ {j} :
            CacheView'[i] = CacheView[i] /\ HolderView'[i] = HolderView[i]
      BY <1>6, <1>7, Zenon DEF j
    <2>5. CacheView' = [CacheView EXCEPT ![j] = None] /\ HolderView' = HolderView
      BY <2>1, <2>2, <2>4 DEF Invs, ViewRight
    <2>6. View!Evict(j)
      BY <1>2, <1>5, <2>1, <2>3, <2>5, Zenon DEF View!Evict
    <2>7. QED
      BY <2>4, <2>6, Zenon DEF View!BNext
  <1>8. CASE blockno[b] \notin Blocks
    <2>1. CacheView' = CacheView /\ HolderView' = HolderView
      BY <1>6, <1>8 DEF Invs, ViewRight
    <2>2. QED
      BY <1>2, <1>5, <2>1, Zenon DEF Seen
  <1>9. QED
    BY <1>7, <1>8, Zenon

\* Every step of the cache is a step of the abstract store, or is not seen.
LEMMA StepRefines ==
  ASSUME Invs, Invs', [Next]_vars
  PROVE  View!BNext \/ UNCHANGED Seen
  <1>1. CASE Driver /\ UNCHANGED cvars
    <2>1. CASE \E d \in Desc : device(d)
      BY <1>1, <2>1, DeviceRefines, Zenon
    <2>2. CASE ~\E d \in Desc : device(d)
      <3>1. UNCHANGED <<disk, blockno, data>>
        BY <1>1, <2>2, Zenon
           DEF Driver, rw_no_desc, rw_again, rw_submit, intr_ack, intr_used
      <3>2. UNCHANGED <<valid, pinned, owner>>
        BY <1>1, Zenon DEF cvars
      <3>3. QED
        BY <3>1, <3>2, Unseen, Zenon
    <2>3. QED
      BY <2>1, <2>2, Zenon
  <1>2. ASSUME NEW p \in Procs, NEW k \in Blocks, bget_recycle(p, k)
        PROVE  View!BNext \/ UNCHANGED Seen
    BY <1>2, RecycleRefines, Zenon
  <1>3. ASSUME NEW p \in Procs, acquiresleep(p) \/ rw_return(p)
        PROVE  View!BNext \/ UNCHANGED Seen
    BY <1>3, BreadRefines, Zenon
  <1>4. ASSUME NEW p \in Procs,
               \/ \E v \in Vals : modify(p, v)
               \/ bpin(p) \/ bunpin(p) \/ brelse_unlock(p)
        PROVE  View!BNext
    BY <1>4, HolderRefines, Zenon
  <1>5. ASSUME NEW p \in Procs,
               \/ \E k \in Blocks : bget_cached(p, k) \/ bget_panic(p, k)
               \/ acquiresleep_wait(p) \/ bwrite(p) \/ brelse(p) \/ kill_wakes(p)
        PROVE  UNCHANGED Seen
    <2>1. UNCHANGED <<disk, blockno, valid, data, pinned, owner>>
      BY <1>5, Zenon
         DEF bget_cached, bget_panic, acquiresleep_wait, bwrite, brelse, kill_wakes,
                  vvars, cvars, ring
    <2>2. QED
      BY <2>1, Unseen, Zenon
  <1>6. CASE UNCHANGED vars
    <2>1. UNCHANGED <<disk, blockno, valid, data, pinned, owner>>
      BY <1>6, Zenon DEF vars, vvars, cvars, ring
    <2>2. QED
      BY <2>1, Unseen, Zenon
  <1>7. QED
    BY <1>1, <1>2, <1>3, <1>4, <1>5, <1>6, Zenon DEF Next

\* The block cache of bio.c, the sleep locks, the driver of virtio_disk.c and
\* the device, with any number of processes, buffers, blocks and descriptors,
\* give the log the abstract store: a block has one holder, the holder sees
\* what was last put into it, and only a block that is neither held nor
\* pinned falls back to the disk.
THEOREM CacheRefinesBlockStore == Spec => ImplementsBlockStore
  <1>1. Init => View!BInit
    <2> SUFFICES ASSUME Init PROVE View!BInit
      BY Zenon
    <2> USE VirtioAssumption
    <2>1. \A k \in Blocks : Cached(k) = {}
      BY Zenon DEF Init, VInit, Cached
    <2>2. \A k \in Blocks : ~IsCached(k)
      BY <2>1, Zenon DEF IsCached
    <2>3. CacheView = [k \in Blocks |-> None] /\ HolderView = [k \in Blocks |-> None]
      BY <2>2, Zenon DEF CacheView, HolderView
    <2>4. disk \in [Blocks -> Vals] /\ PinnedView = {}
      BY Zenon DEF Init, VInit, PinnedView
    <2>5. QED
      BY <2>3, <2>4, Zenon DEF View!BInit
  <1>2. ASSUME Invs, Invs', [Next]_vars
        PROVE  [View!bvars' # View!bvars /\ View!BNext]_View!bvars
    <2>1. View!BNext \/ UNCHANGED Seen
      BY <1>2, StepRefines, Zenon
    <2>2. QED
      BY <2>1, Zenon DEF View!bvars, Seen
  <1>3. CacheInv /\ DiskInv /\ DataInv => Invs
    BY ViewIsRight, Zenon DEF Invs
  <1>4. QED
    BY <1>1, <1>2, <1>3, CacheInvariant, DiskInvariant, DataInvariant, PTL
       DEF Spec, ImplementsBlockStore, View!BSpec
=============================================================================
