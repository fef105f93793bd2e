------------------------------ MODULE UserCopy ------------------------------
(***************************************************************************)
(* copyout, copyin and copyinstr of kernel/vm.c: the kernel's copies to    *)
(* and from the memory of a process, page by page, allocating the heap     *)
(* pages that sys_sbrk() left for later.                                   *)
(*                                                                         *)
(* A memory m has its size in bytes m.sz, the kind of each page m.pte, the *)
(* bytes m.mem of each address and the number m.free of free frames.       *)
(***************************************************************************)
EXTENDS Integers, Sequences

CONSTANTS PGSIZE, \* bytes of a page
          NPAGES  \* pages below MAXVA

MAXVA == NPAGES * PGSIZE

\* "none" is not mapped, "guard" not for the user, "text" read-only.
Kinds == {"none", "guard", "text", "data"}

PageOf(va) == va \div PGSIZE
PGROUNDDOWN(va) == PageOf(va) * PGSIZE

ismapped(m, va) == m.pte[PageOf(va)] # "none"

\* The address translates for the user.
walkaddr(m, va) == va < MAXVA /\ m.pte[PageOf(va)] \in {"text", "data"}

CanFault(m, va) ==
  /\ va < m.sz
  /\ ~ismapped(m, va)
  /\ m.free > 0

\* A page of zeros, readable and writable.
vmfault(m, va) ==
  [m EXCEPT !.pte[PageOf(va)] = "data",
            !.mem = [a \in DOMAIN m.mem |-> IF PageOf(a) = PageOf(va) THEN 0 ELSE m.mem[a]],
            !.free = @ - 1]

\* The memory with the page of va0 there.
Present(m, va0) ==
  IF walkaddr(m, va0) THEN m ELSE vmfault(m, va0)

\* The bytes of one turn of the loop: up to the end of the page.
Bug_Chunk(va, len) == IF PGSIZE > len THEN len ELSE PGSIZE
Chunk(va, len) ==
  LET n == PGSIZE - (va - PGROUNDDOWN(va))
  IN  IF n > len THEN len ELSE n

Store(m, va, bytes) ==
  [m EXCEPT !.mem = [a \in DOMAIN m.mem |->
     IF a \in va..va + Len(bytes) - 1 THEN bytes[a - va + 1] ELSE m.mem[a]]]

RECURSIVE copyout(_, _, _)
copyout(m, dstva, src) ==
  LET va0 == PGROUNDDOWN(dstva)
      n == Chunk(dstva, Len(src))
      p == Present(m, va0)
  IN  IF src = <<>> THEN [ret |-> 0, m |-> m]
      ELSE IF va0 >= MAXVA \/ (~walkaddr(m, va0) /\ ~CanFault(m, va0))
        THEN [ret |-> -1, m |-> m]
      ELSE IF p.pte[PageOf(va0)] # "data" THEN [ret |-> -1, m |-> p]
      ELSE copyout(Store(p, dstva, SubSeq(src, 1, n)), va0 + PGSIZE,
                   SubSeq(src, n + 1, Len(src)))

RECURSIVE copyin(_, _, _)
copyin(m, srcva, len) ==
  LET va0 == PGROUNDDOWN(srcva)
      n == Chunk(srcva, len)
      p == Present(m, va0)
      rest == copyin(p, va0 + PGSIZE, len - n)
  IN  IF len = 0 THEN [ret |-> 0, m |-> m, dst |-> <<>>]
      ELSE IF ~walkaddr(m, va0) /\ ~CanFault(m, va0)
        THEN [ret |-> -1, m |-> m, dst |-> <<>>]
      ELSE [rest EXCEPT !.dst = [k \in 1..n |-> p.mem[srcva + k - 1]] \o @]

\* Where the first NUL of a chunk is, if it has one.
Nul(m, va, n) ==
  {k \in 1..n : m.mem[va + k - 1] = 0 /\ \A j \in 1..k - 1 : m.mem[va + j - 1] # 0}

RECURSIVE copyinstr(_, _, _)
\* Never allocates a page.
copyinstr(m, srcva, max) ==
  LET va0 == PGROUNDDOWN(srcva)
      n == Chunk(srcva, max)
      nul == Nul(m, srcva, n)
      upto == IF nul = {} THEN n ELSE CHOOSE k \in nul : TRUE
      part == [k \in 1..upto |-> m.mem[srcva + k - 1]]
      rest == copyinstr(m, va0 + PGSIZE, max - n)
  IN  IF max = 0 \/ ~walkaddr(m, va0) THEN [ret |-> -1, dst |-> <<>>]
      ELSE IF nul # {} THEN [ret |-> 0, dst |-> part]
      ELSE [rest EXCEPT !.dst = part \o @]
=============================================================================
