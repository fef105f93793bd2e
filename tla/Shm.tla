-------------------------------- MODULE Shm --------------------------------
(***************************************************************************)
(* User memory and shared memory segments: the page allocator              *)
(* (kernel/kalloc.c), page tables (kernel/vm.c), sbrk, fork, exec and the  *)
(* freeing of a process as far as they change memory, and shmget, shmat    *)
(* and shmdt (kernel/sysproc.c).                                           *)
(*                                                                         *)
(* Memory is counted in pages.  A process's user addresses are             *)
(* 0..TRAPFRAME - 1; its heap is [0, sz) and segment i is mapped at a      *)
(* fixed place below TRAPFRAME.  Page-table pages and trapframes are not   *)
(* counted; a failure to allocate one is a failure of the call.  A call    *)
(* changes only its caller's page table, and the segment table under       *)
(* shmlock, so it is one step.                                             *)
(***************************************************************************)
EXTENDS Integers, FiniteSets, FiniteSetsExt

CONSTANTS ProcSlots,   \* slots of the process table
          FirstSlot,   \* the slot of init
          MAX_SHM,     \* entries of shmtable
          MAX_SHM_PG,  \* pages of the largest segment
          TRAPFRAME,   \* number of user pages below the trapframe
          NPages,      \* physical pages of memory
          SegKeys,     \* the keys passed to shmget
          NoSegKey,    \* stands for the key of an unused entry
          MaxSz,       \* bound: the largest heap programs ask for
          MaxImage     \* bound: the largest image exec loads

ASSUME ShmAssumption ==
  /\ FirstSlot \in ProcSlots
  /\ MAX_SHM \in Nat \ {0} /\ MAX_SHM_PG \in Nat \ {0}
  /\ TRAPFRAME \in Nat /\ MAX_SHM * MAX_SHM_PG <= TRAPFRAME
  /\ NPages \in Nat \ {0}
  /\ NoSegKey \notin SegKeys
  /\ MaxSz \in Nat /\ MaxImage \in Nat

Segs == 0..MAX_SHM - 1
VAs == 0..TRAPFRAME - 1
Pages == 1..NPages
NoPage == 0

VARIABLES free,     \* kmem.freelist
          live,     \* the processes that have not exited
          zombie,   \* the processes that have exited and are not freed yet
          sz,       \* p->sz
          pt,       \* p->pagetable: the page at each user address
          attached, \* the pairs <<p, i>> with p->shm_va[i] set
          segkey,   \* shmtable[i].key, NoSegKey when the entry is unused
          pa,       \* shmtable[i].pa[0..npages-1], a function on 0..npages-1
          refcount, \* shmtable[i].refcount
          panic_msg \* why the kernel has stopped, "" while it has not

segment == <<segkey, pa, refcount>>
shmvars == <<free, live, zombie, sz, pt, attached, segment, panic_msg>>

Taken(i) == segkey[i] # NoSegKey
\* va + j * PGSIZE in sys_shmat
Region(i, j) == TRAPFRAME - (i + 1) * MAX_SHM_PG + j
SegVAs(i) == {Region(i, j) : j \in DOMAIN pa[i]}
SegPages(i) == {pa[i][j] : j \in DOMAIN pa[i]}

NoPages == [va \in VAs |-> NoPage]
MappedVAs(p) == {va \in VAs : pt[p][va] # NoPage}
MappedPages(p, A) == {pt[p][va] : va \in A \cap MappedVAs(p)}
Heap(n) == {va \in VAs : va < n}

\* The k pages kalloc() hands out; which ones they are does not matter.
Alloc(k) == CHOOSE S \in SUBSET free : Cardinality(S) = k
\* One page of S for each address of A, in order.
Place(A, S) ==
  CHOOSE f \in [A -> S] : \A a, b \in A : a < b => f[a] < f[b]

ShmInit ==
  /\ live = {FirstSlot} /\ zombie = {}
  /\ sz = [p \in ProcSlots |-> IF p = FirstSlot THEN 1 ELSE 0]
  /\ pt = [p \in ProcSlots |-> [va \in VAs |->
             IF p = FirstSlot /\ va = 0 THEN 1 ELSE NoPage]]
  /\ free = Pages \ {1}
  /\ attached = {}
  /\ segkey = [i \in Segs |-> NoSegKey]
  /\ pa = [i \in Segs |-> [j \in {} |-> NoPage]]
  /\ refcount = [i \in Segs |-> 0]
  /\ panic_msg = ""

Panic(why) ==
  /\ panic_msg' = why
  /\ UNCHANGED <<free, live, zombie, sz, pt, attached, segment>>

Runs(p) == panic_msg = "" /\ p \in live

-----------------------------------------------------------------------------
(* The heap *)

\* uvmalloc().  With too little memory the pages allocated so far are freed
\* again and the call fails.
sbrk_eager(p, n) ==
  LET new == Heap(sz[p] + n) \ Heap(sz[p])
  IN  /\ Runs(p)
      /\ sz[p] + n <= TRAPFRAME /\ sz[p] + n <= MaxSz
      /\ n <= Cardinality(free) /\ new \cap MappedVAs(p) = {}
      /\ LET f == Place(new, Alloc(n))
         IN  /\ pt' = [pt EXCEPT ![p] = [va \in VAs |->
                         IF va \in new THEN f[va] ELSE pt[p][va]]]
             /\ free' = free \ {f[va] : va \in new}
      /\ sz' = [sz EXCEPT ![p] = @ + n]
      /\ UNCHANGED <<live, zombie, attached, segment, panic_msg>>

\* uvmalloc() comes to an address that is mapped: panic("mappages: remap").
sbrk_remap(p, n) ==
  /\ Runs(p)
  /\ sz[p] + n <= TRAPFRAME /\ sz[p] + n <= MaxSz
  /\ \E va \in MappedVAs(p) :
       sz[p] <= va /\ va < sz[p] + n /\ va - sz[p] < Cardinality(free)
  /\ Panic("remap")

sbrk_lazy(p, n) ==
  /\ Runs(p)
  /\ sz[p] + n <= TRAPFRAME /\ sz[p] + n <= MaxSz
  /\ sz' = [sz EXCEPT ![p] = @ + n]
  /\ UNCHANGED <<free, live, zombie, pt, attached, segment, panic_msg>>

\* The page table of p without the addresses A.
Unmap(p, A) == [va \in VAs |-> IF va \in A THEN NoPage ELSE pt[p][va]]

\* uvmdealloc(); shrinking below 0 changes nothing.
sbrk_shrink(p, n) ==
  LET old == Heap(sz[p]) \ Heap(sz[p] - n)
  IN  /\ Runs(p) /\ n <= sz[p]
      /\ free' = free \cup MappedPages(p, old)
      /\ pt' = [pt EXCEPT ![p] = Unmap(p, old)]
      /\ sz' = [sz EXCEPT ![p] = @ - n]
      /\ UNCHANGED <<live, zombie, attached, segment, panic_msg>>

\* A page below sz that is not mapped yet is mapped when it is touched.
vmfault(p, va) ==
  /\ Runs(p) /\ va < sz[p]
  /\ pt[p][va] = NoPage
  /\ free # {}
  /\ LET g == Min(free)
     IN  /\ pt' = [pt EXCEPT ![p][va] = g]
         /\ free' = free \ {g}
  /\ UNCHANGED <<live, zombie, sz, attached, segment, panic_msg>>
-----------------------------------------------------------------------------
(* Processes *)

\* kfork(): uvmcopy() copies what is mapped below sz; the child is attached to
\* no segment (allocproc clears shm_va).
uvmcopy(p, c) ==
  LET A == MappedVAs(p) \cap Heap(sz[p])
      S == Alloc(Cardinality(A))
      f == Place(A, S)
  IN  /\ Runs(p) /\ c \notin live \cup zombie
      /\ Cardinality(A) <= Cardinality(free)
      /\ pt' = [pt EXCEPT ![c] = [va \in VAs |->
                               IF va \in A THEN f[va] ELSE NoPage]]
      /\ free' = free \ S
      /\ sz' = [sz EXCEPT ![c] = sz[p]]
      /\ live' = live \cup {c}
      /\ attached' = {a \in attached : a[1] # c}
      /\ UNCHANGED <<zombie, segment, panic_msg>>

\* kexec(): a new page table with n pages replaces the old one, whose heap is
\* freed by proc_freepagetable().  shm_va is left as it is.
Bug_kexec(p, n) ==
  LET S == Alloc(n)
      f == Place(Heap(n), S)
  IN  /\ Runs(p)
      /\ n <= TRAPFRAME /\ n <= Cardinality(free)
      /\ MappedVAs(p) \subseteq Heap(sz[p])
      /\ free' = free \ S
      /\ pt' = [pt EXCEPT ![p] = [va \in VAs |->
                               IF va \in Heap(n) THEN f[va] ELSE NoPage]]
      /\ sz' = [sz EXCEPT ![p] = n]
      /\ UNCHANGED <<live, zombie, attached, segment, panic_msg>>
kexec(p, n) ==
  LET S == Alloc(n)
      f == Place(Heap(n), S)
  IN  /\ Runs(p)
      /\ n <= TRAPFRAME /\ n <= Cardinality(free)
      /\ MappedVAs(p) \subseteq Heap(sz[p])
      /\ free' = (free \ S) \cup MappedPages(p, Heap(sz[p]))
      /\ pt' = [pt EXCEPT ![p] = [va \in VAs |->
                               IF va \in Heap(n) THEN f[va] ELSE NoPage]]
      /\ sz' = [sz EXCEPT ![p] = n]
      /\ UNCHANGED <<live, zombie, attached, segment, panic_msg>>

\* A mapping above the heap is left when the old page table is freed:
\* panic("freewalk: leaf").
kexec_leaf(p, n) ==
  /\ Runs(p) /\ n <= TRAPFRAME
  /\ n <= Cardinality(free)
  /\ ~(MappedVAs(p) \subseteq Heap(sz[p]))
  /\ Panic("leaf")

\* kexit(): memory is kept until the parent waits.
kexit_memory(p) ==
  /\ Runs(p) /\ p # FirstSlot
  /\ live' = live \ {p}
  /\ zombie' = zombie \cup {p}
  /\ UNCHANGED <<free, sz, pt, attached, segment, panic_msg>>

\* Giving up the attachments D (pairs <<p, i>>), as shmdt and freeproc do: the
\* count goes down, and the last detach frees the pages and the entry.
Bug_Lasting(D) == {i \in Segs : \E d \in D : d[2] = i /\ refcount[i] - 1 >= 0}
Lasting(D) == {i \in Segs : \E d \in D : d[2] = i /\ refcount[i] - 1 > 0}
Dropped(D) == {d[2] : d \in D} \ Lasting(D)
DropRefs(D) ==
  /\ attached' = attached \ D
  /\ refcount' = [i \in Segs |-> IF i \in Dropped(D) THEN 0
                                ELSE IF i \in Lasting(D) THEN refcount[i] - 1
                                ELSE refcount[i]]
  /\ segkey' = [i \in Segs |-> IF i \in Dropped(D) THEN NoSegKey ELSE segkey[i]]
  /\ pa' = [i \in Segs |-> IF i \in Dropped(D) THEN [j \in {} |-> NoPage]
                          ELSE pa[i]]

\* freeproc(), called by the parent's wait: detach from every segment, then
\* free the heap and the page table.
Detached(p) == {a \in attached : a[1] = p /\ Taken(a[2])}
Unmappable(p) == Heap(sz[p]) \cup UNION {SegVAs(d[2]) : d \in Detached(p)}
freeproc_memory(p) ==
  LET D == Detached(p)
      gone == UNION {SegVAs(d[2]) : d \in D}
  IN  /\ panic_msg = "" /\ p \in zombie
      /\ IF MappedVAs(p) \subseteq Unmappable(p)
           THEN /\ DropRefs(D)
                /\ free' = free \cup MappedPages(p, Heap(sz[p]) \ gone)
                               \cup UNION {SegPages(i) : i \in Dropped(D)}
                /\ pt' = [pt EXCEPT ![p] = NoPages]
                /\ sz' = [sz EXCEPT ![p] = 0]
                /\ zombie' = zombie \ {p}
                /\ UNCHANGED <<live, panic_msg>>
           ELSE Panic("leaf")

-----------------------------------------------------------------------------
(* Shared memory segments *)

\* A known key changes nothing.  A new key takes the first unused entry and n
\* pages; when memory runs out they are freed and the entry stays unused.
sys_shmget(p, k, n) ==
  /\ Runs(p)
  /\ n \in 1..MAX_SHM_PG
  /\ \A i \in Segs : segkey[i] # k
  /\ n <= Cardinality(free)
  /\ \E i \in Segs :
       /\ ~Taken(i) /\ \A h \in Segs : ~Taken(h) => i <= h
       /\ segkey' = [segkey EXCEPT ![i] = k]
       /\ refcount' = [refcount EXCEPT ![i] = 0]
       /\ pa' = [pa EXCEPT ![i] = Place(0..n - 1, Alloc(n))]
  /\ free' = free \ Alloc(n)
  /\ UNCHANGED <<live, zombie, sz, pt, attached, panic_msg>>

\* An attached segment keeps its address.  A failing mappages() is undone.
sys_shmat(p, i) ==
  /\ Runs(p) /\ Taken(i) /\ <<p, i>> \notin attached
  /\ IF SegVAs(i) \cap MappedVAs(p) # {}
       THEN Panic("remap")
       ELSE /\ pt' = [pt EXCEPT ![p] = [va \in VAs |->
                  IF va \in SegVAs(i) THEN pa[i][va - Region(i, 0)]
                                      ELSE pt[p][va]]]
            /\ attached' = attached \cup {<<p, i>>}
            /\ refcount' = [refcount EXCEPT ![i] = @ + 1]
            /\ UNCHANGED <<free, live, zombie, sz, segkey, pa, panic_msg>>

Bug_sys_shmdt(p, i) ==
  /\ Runs(p) /\ Taken(i) /\ <<p, i>> \in attached
  /\ DropRefs({<<p, i>>})
  /\ free' = free \cup UNION {SegPages(h) : h \in Dropped({<<p, i>>})}
  /\ UNCHANGED <<live, zombie, sz, pt, panic_msg>>
sys_shmdt(p, i) ==
  /\ Runs(p) /\ Taken(i) /\ <<p, i>> \in attached
  /\ pt' = [pt EXCEPT ![p] = Unmap(p, SegVAs(i))]
  /\ DropRefs({<<p, i>>})
  /\ free' = free \cup UNION {SegPages(h) : h \in Dropped({<<p, i>>})}
  /\ UNCHANGED <<live, zombie, sz, panic_msg>>

-----------------------------------------------------------------------------

ShmNext ==
  \E p \in ProcSlots :
    \/ \E n \in 1..MaxSz : \/ sbrk_eager(p, n)
                          \/ sbrk_remap(p, n)
                          \/ sbrk_lazy(p, n)
                          \/ sbrk_shrink(p, n)
    \/ \E va \in VAs : vmfault(p, va)
    \/ \E c \in ProcSlots : uvmcopy(p, c)
    \/ \E n \in 1..MaxImage : kexec(p, n) \/ kexec_leaf(p, n)
    \/ kexit_memory(p)
    \/ freeproc_memory(p)
    \/ \E k \in SegKeys, n \in 1..MAX_SHM_PG : sys_shmget(p, k, n)
    \/ \E i \in Segs : sys_shmat(p, i) \/ sys_shmdt(p, i)

ShmSpec == ShmInit /\ [][ShmNext]_shmvars

-----------------------------------------------------------------------------
(* Properties *)

\* Every variable holds a value of its kind.
MemoryTypes ==
  /\ free \subseteq Pages
  /\ live \subseteq ProcSlots /\ zombie \subseteq ProcSlots
  /\ sz \in [ProcSlots -> 0..TRAPFRAME]
  /\ pt \in [ProcSlots -> [VAs -> Pages \cup {NoPage}]]
  /\ attached \subseteq ProcSlots \X Segs
  /\ segkey \in [Segs -> SegKeys \cup {NoSegKey}]
  /\ \A i \in Segs : \E n \in 0..MAX_SHM_PG : pa[i] \in [0..n - 1 -> Pages]
  /\ refcount \in [Segs -> Int]
  /\ panic_msg \in {"", "remap", "leaf"}

\* refcount is the number of processes attached, zombies included, and nobody
\* is attached to an entry that is unused.
RefcountIsAttached ==
  \A i \in Segs :
    /\ refcount[i] = Cardinality({p \in ProcSlots : <<p, i>> \in attached})
    /\ ~Taken(i) => refcount[i] = 0

\* A process is attached to a segment exactly when the segment's pages are at
\* its addresses (README: the same physical pages at the same virtual address).
AttachedIsMapped ==
  \A p \in live \cup zombie, i \in Segs :
    <<p, i>> \in attached =>
      \A j \in DOMAIN pa[i] : pt[p][Region(i, j)] = pa[i][j]

\* No page that a process or a segment uses is on the free list.
MappedIsNotFree ==
  /\ \A p \in live \cup zombie : MappedPages(p, VAs) \cap free = {}
  /\ \A i \in Segs : SegPages(i) \cap free = {}

\* Every page is free, mapped by a process or owned by a segment.
NoLeak ==
  Pages = free \cup UNION {MappedPages(p, VAs) : p \in ProcSlots}
               \cup UNION {SegPages(i) : i \in Segs}

\* Two processes, or two addresses, share a page only through a segment to
\* which the processes are attached.
SharedOnlyBySegment ==
  \A p, q \in live \cup zombie : \A a \in MappedVAs(p), b \in MappedVAs(q) :
    pt[p][a] = pt[q][b] =>
      \/ p = q /\ a = b
      \/ a = b /\ \E i \in Segs : /\ a \in SegVAs(i)
                                 /\ {<<p, i>>, <<q, i>>} \subseteq attached

\* Every page is either free or in use: none is lost and none is used after it was
\* freed.  In particular a segment's pages "are not freed until all processes have
\* detached (refcount reaches 0)" (README of the project, shmdt).
PagesAreAccounted == MemoryTypes /\ MappedIsNotFree /\ NoLeak

\* A segment that was attached is gone when the last process detaches or is
\* freed (README: when refcount reaches 0, physical pages are freed).
LastDetachFrees ==
  [][\A i \in Segs : refcount[i] > 0 /\ refcount'[i] = 0 =>
       segkey'[i] = NoSegKey /\ SegPages(i) \subseteq free']_shmvars

\* When a process is freed, everything it has mapped is heap or an attached
\* segment, so freeproc leaves no mapping for freewalk() to stumble on.
FreeingIsClean == \A p \in zombie : MappedVAs(p) \subseteq Unmappable(p)

\* The attachments are what the page tables show: the counts are right, an attached
\* process sees the segment's pages, nobody else does, and nothing of them is left
\* behind when the process is freed.
AttachmentsAreReal ==
  RefcountIsAttached /\ AttachedIsMapped /\ SharedOnlyBySegment /\ FreeingIsClean

\* This step of p gives back heap that covers a segment it is attached to, and with it pages of
\* the segment: sbrk() grows a heap lazily over the fixed addresses of the segments,
\* and shrinks it, or exec() frees it, whatever is mapped there.
Overrun(p) ==
  \E i \in Segs :
    /\ <<p, i>> \in attached \cap attached'
    /\ \E va \in SegVAs(i) : va < sz[p] /\ pt'[p][va] # pt[p][va]

\* A page table is freed only when no mapping is left in it (comment of
\* freewalk: "All leaf mappings must already have been removed").
NoLeafLeft == panic_msg # "leaf"
=============================================================================
