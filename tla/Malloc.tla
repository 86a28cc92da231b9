------------------------------- MODULE Malloc -------------------------------
(***************************************************************************)
(* The allocator of user programs (umalloc.c): a circular list of free     *)
(* blocks in address order, which free joins with their neighbours.        *)
(*                                                                         *)
(* Addresses and sizes are in units of a header; base is below the heap.   *)
(***************************************************************************)
EXTENDS Naturals, FiniteSets

CONSTANTS
  HDR,       \* bytes in a header
  MORE,      \* units that morecore asks for at least (4096 in the source)
  HEAP,      \* units that sbrk has to give
  Requests   \* arguments of malloc

ASSUME MallocAssumption ==
  HDR \in Nat \ {0} /\ MORE \in Nat \ {0} /\ HEAP \in Nat /\ Requests \subseteq Nat

base == 0
Null == HEAP + 1

VARIABLES
  ptr, size,   \* the headers
  freep,
  brk,         \* the end of the heap
  taken        \* what malloc has returned and free has not been given

mallocvars == <<ptr, size, freep, brk, taken>>
State == [ptr |-> ptr, size |-> size, freep |-> freep, brk |-> brk]

MallocInit ==
  /\ ptr = [a \in 0 .. HEAP |-> 0] /\ size = [a \in 0 .. HEAP |-> 0]
  /\ freep = Null /\ brk = 1 /\ taken = {}

RECURSIVE Place(_, _, _)
\* The free block that bp comes behind: from p on, the one around bp, or the last
\* one if bp is at either end.
Place(h, p, bp) ==
  IF (bp > p /\ bp < h.ptr[p]) \/ (p >= h.ptr[p] /\ (bp > p \/ bp < h.ptr[p]))
  THEN p ELSE Place(h, h.ptr[p], bp)

\* Mutant: a block joins the one above it even across a gap.
Loose_Adjoins(h, a, b) == a + h.size[a] <= b /\ b # base

\* Block b begins where block a ends.
Adjoins(h, a, b) == a + h.size[a] = b

\* free, on the list of h.
Freed(h, bp) ==
  LET p == Place(h, h.freep, bp)
      q == h.ptr[p]
      up == IF Adjoins(h, bp, q)
            THEN [h EXCEPT !.size[bp] = @ + h.size[q], !.ptr[bp] = h.ptr[q]]
            ELSE [h EXCEPT !.ptr[bp] = q]
      down == IF Adjoins(up, p, bp)
              THEN [up EXCEPT !.size[p] = @ + up.size[bp], !.ptr[p] = up.ptr[bp]]
              ELSE [up EXCEPT !.ptr[p] = bp]
  IN [down EXCEPT !.freep = p]

\* morecore: the heap grows by nu units, which are freed.
Units(nu) == IF nu < MORE THEN MORE ELSE nu
morecore(h, nu) ==
  Freed([h EXCEPT !.size[h.brk] = Units(nu), !.brk = @ + Units(nu)], h.brk)

\* A large enough block gives its end, or itself.
Given(h, prev, p, n) ==
  LET at == p + h.size[p] - n IN
  [block |-> at,
   h |-> IF h.size[p] = n THEN [h EXCEPT !.ptr[prev] = h.ptr[p], !.freep = prev]
         ELSE [h EXCEPT !.size[p] = @ - n, !.size[at] = n, !.freep = prev]]

RECURSIVE Search(_, _, _, _)
\* The loop of malloc: once around the list, then morecore.
Search(h, prev, p, n) ==
  IF h.size[p] >= n THEN Given(h, prev, p, n)
  ELSE IF p # h.freep THEN Search(h, p, h.ptr[p], n)
  ELSE IF h.brk + Units(n) > HEAP + 1 THEN [block |-> Null, h |-> h]
  ELSE LET g == morecore(h, n) IN Search(g, g.freep, g.ptr[g.freep], n)

Become(h) == ptr' = h.ptr /\ size' = h.size /\ freep' = h.freep /\ brk' = h.brk

malloc(nbytes) ==
  LET n == (nbytes + HDR - 1) \div HDR + 1
      h == IF freep = Null THEN [State EXCEPT !.ptr[base] = base, !.size[base] = 0, !.freep = base]
           ELSE State
      found == Search(h, h.freep, h.ptr[h.freep], n)
  IN
  /\ Become(found.h)
  /\ taken' = taken \cup ({[at |-> found.block, n |-> n]} \ {[at |-> Null, n |-> n]})

free(b) ==
  /\ Become(Freed(State, b.at))
  /\ taken' = taken \ {b}

MallocNext == (\E n \in Requests : malloc(n)) \/ (\E b \in taken : free(b))

-----------------------------------------------------------------------------
(* Properties *)

RECURSIVE ListFrom(_)
\* The free blocks from p up to base.
ListFrom(p) == IF p = base THEN {} ELSE {[at |-> p, n |-> size[p]]} \cup ListFrom(ptr[p])
Free == IF freep = Null THEN {} ELSE ListFrom(ptr[base])
Covers(b) == b.at .. b.at + b.n - 1

\* Every unit of the heap is in exactly one block, taken or free; a taken block
\* keeps the size it was asked for in its header; and no two free blocks lie
\* next to each other (umalloc.c:25-90).
HeapTiled ==
  /\ \A b \in taken : size[b.at] = b.n
  /\ UNION {Covers(b) : b \in taken \cup Free} = 1 .. brk - 1
  /\ \A b, c \in taken \cup Free : b # c => Covers(b) \cap Covers(c) = {}
  /\ \A b, c \in Free : b.at + b.n # c.at
=============================================================================
