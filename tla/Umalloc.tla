------------------------------ MODULE Umalloc -------------------------------
(***************************************************************************)
(* The allocator of user programs (user/umalloc.c), after Kernighan and    *)
(* Ritchie: a circular list of free blocks in the order of their           *)
(* addresses, searched first fit from where the last search ended.         *)
(*                                                                         *)
(* Addresses count units of one header.  A heap h has the fields ptr and   *)
(* size of the headers, the variable freep and the end brk of the          *)
(* program's memory.  The block at p takes the units p..p + size[p] - 1.   *)
(***************************************************************************)
EXTENDS Integers

CONSTANTS CORE, \* units asked for at a time (4096)
          TOP,  \* bound: the end of the memory that sbrk() gives out
          HALF  \* units in 2^31 bytes

NULL == -1
base == 0
HeapStart == 2

\* freep is set up by the first malloc().
NewHeap == [ptr |-> [a \in 0..TOP |-> base], size |-> [a \in 0..TOP |-> 0],
            freep |-> NULL, brk |-> HeapStart]

\* The place of bp: between p and its successor, or after the last block.
Fits(h, bp, p) ==
  \/ bp > p /\ bp < h.ptr[p]
  \/ p >= h.ptr[p] /\ (bp > p \/ bp < h.ptr[p])

RECURSIVE Place(_, _, _)
Place(h, bp, p) == IF Fits(h, bp, p) THEN p ELSE Place(h, bp, h.ptr[p])

\* Joins bp with the block after it.
JoinUpper(h, bp, p) ==
  IF bp + h.size[bp] = h.ptr[p]
  THEN [h EXCEPT !.size[bp] = @ + h.size[h.ptr[p]], !.ptr[bp] = h.ptr[h.ptr[p]]]
  ELSE [h EXCEPT !.ptr[bp] = h.ptr[p]]

\* Joins p with bp.
JoinLower(h, bp, p) ==
  IF p + h.size[p] = bp
  THEN [h EXCEPT !.size[p] = @ + h.size[bp], !.ptr[p] = h.ptr[bp]]
  ELSE [h EXCEPT !.ptr[p] = bp]

free(h, bp) ==
  LET p == Place(h, bp, h.freep)
  IN  [JoinLower(JoinUpper(h, bp, p), bp, p) EXCEPT !.freep = p]

\* sbrk() takes an int: from 2^31 bytes on a size turns negative.
ToInt(n) ==
  LET low == n % (2 * HALF) IN IF low < HALF THEN low ELSE low - 2 * HALF

\* The break moves up, or down but not below 0; it returns the old one.
sbrk(h, n) ==
  IF h.brk + n > TOP THEN [h |-> h, p |-> NULL]
  ELSE [h |-> [h EXCEPT !.brk = IF @ + n < 0 THEN @ ELSE @ + n], p |-> h.brk]

\* What morecore() asks sbrk() for.
Units(nu) == IF nu < CORE THEN CORE ELSE nu

morecore(h, nu) ==
  LET s == sbrk(h, ToInt(Units(nu)))
  IN  IF s.p = NULL THEN s
      ELSE LET g == free([s.h EXCEPT !.size[s.p] = Units(nu)], s.p)
           IN  [h |-> g, p |-> g.freep]

\* The tail of a block that is larger than needed, the whole of one that fits.
Bug_Take(h, prevp, p, nunits) ==
  IF h.size[p] = nunits
  THEN [h |-> [h EXCEPT !.ptr[prevp] = h.ptr[p], !.freep = prevp], p |-> p]
  ELSE LET q == p + h.size[p] - nunits
       IN  [h |-> [h EXCEPT !.size[q] = nunits, !.freep = prevp], p |-> q]
Take(h, prevp, p, nunits) ==
  IF h.size[p] = nunits
  THEN [h |-> [h EXCEPT !.ptr[prevp] = h.ptr[p], !.freep = prevp], p |-> p]
  ELSE LET q == p + h.size[p] - nunits
       IN  [h |-> [h EXCEPT !.size[p] = @ - nunits, !.size[q] = nunits, !.freep = prevp],
            p |-> q]

RECURSIVE Search(_, _, _)
\* The search goes once around and then asks for more memory, which may fail.
Search(h, prevp, nunits) ==
  LET p == h.ptr[prevp]
  IN  IF h.size[p] >= nunits THEN Take(h, prevp, p, nunits)
      ELSE IF p # h.freep THEN Search(h, p, nunits)
      ELSE LET more == morecore(h, nunits)
           IN  IF more.p = NULL THEN more ELSE Search(more.h, more.p, nunits)

Ready(h) ==
  IF h.freep = NULL THEN [h EXCEPT !.freep = base, !.ptr[base] = base] ELSE h

malloc(h, nunits) == Search(Ready(h), Ready(h).freep, nunits)

RECURSIVE Ring(_, _)
\* The headers met from p on until the list comes back to one in seen.
Ring(h, seen) ==
  LET next == {h.ptr[p] : p \in seen}
  IN  IF next \subseteq seen THEN seen ELSE Ring(h, seen \cup next)
FreeList(h) == IF h.freep = NULL THEN {} ELSE Ring(h, {h.freep})
=============================================================================
