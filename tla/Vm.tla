--------------------------------- MODULE Vm ---------------------------------
(***************************************************************************)
(* Physical pages and page tables: kalloc.c, vm.c, exec.c and the callers  *)
(* in proc.c and sysproc.c that grow, copy, replace and free the memory of *)
(* a process.                                                              *)
(*                                                                         *)
(* Addresses are counted in units of which PGSIZE make a page; virtual     *)
(* page v >= 0 is the v-th page from address 0 and page -k the k-th page   *)
(* below STACKBOTTOM.  A table that nobody else can see yet is built, page *)
(* by page, and given up on failure in one step of the system.  Growing a  *)
(* table in use takes a step per kalloc and mappages, since the threads of *)
(* a process share their table but each has its own sz.  Pages are         *)
(* counted, not told apart: what matters is that each is given back once.  *)
(* What they contain is left out.                                          *)
(***************************************************************************)
EXTENDS Integers, FiniteSets, FiniteSetsExt, SequencesExt

CONSTANTS
  NPROC,      \* processes and threads
  NPSL,       \* stack lists
  NSTACK,     \* stacks of a stack list
  NPAGES,     \* physical pages that kinit1 and kinit2 put on the free list
  PGSIZE,     \* units in a page
  PTENTRIES,  \* pages mapped by one page of page table (1024 in the source)
  Images,     \* sizes in pages of the programs that exec loads
  Grows,      \* arguments n > 0 of sbrk(n)
  Shrinks,    \* and of sbrk(-n)
  MaxSz       \* bound: processes do not grow beyond this

ASSUME VmAssumption ==
  /\ NPROC \in Nat \ {0} /\ NPSL \in Nat /\ NSTACK \in Nat \ {0, 1}
  /\ NPAGES \in Nat /\ PGSIZE \in Nat \ {0} /\ PTENTRIES \in Nat \ {0}
  /\ Images \subseteq Nat \ {0} /\ Grows \subseteq Nat \ {0}
  /\ Shrinks \subseteq Nat \ {0} /\ MaxSz \in Nat

Procs == 1 .. NPROC
Psls == 1 .. NPSL
Tables == 1 .. NPAGES \div 2   \* page directories; each has a page of page table
initproc == 1

VARIABLES
  free,       \* length of kmem.freelist
  tab,        \* page directory -> [pt, pte]: the directory entries and the
              \* virtual pages that are present; without pt, it does not exist
  state,      \* "UNUSED", "USED", or "FAULTS": used, but without its code
  pgdir, sz, psl, slindex,           \* struct proc; 0 for none
  thread,     \* whether it was made by clone
  grow,       \* a growproc in progress
  stackz, thread_count,              \* struct psl
  leaked,     \* history: number of pages that nothing refers to any more
  broken      \* why the system stopped or a table in use was freed, and for
              \* which process; the model stops there

procvars == <<state, pgdir, sz, psl, slindex, thread, grow>>
pslvars == <<stackz, thread_count>>
vars == <<free, tab, procvars, pslvars, leaked, broken>>

Fine == [why |-> "no", who |-> 0]
NotGrowing == [new |-> 0, at |-> 0, mem |-> FALSE]   \* mem: a page to map
NoTable == [pt |-> {}, pte |-> {}]

-----------------------------------------------------------------------------
\* PGROUNDUP, as a number of pages.
PGROUNDUP(n) == (n + PGSIZE - 1) \div PGSIZE

PDX(v) == v \div PTENTRIES
KernPdx == MaxSz          \* where setupkvm maps the kernel: beyond user space

StackPages(i) == {-(2 * i + 2), -(2 * i + 1)}    \* guard page and stack

\* A new table with the virtual pages vps: setupkvm and mappages.
NewTable(vps) == [pt |-> {KernPdx} \cup {PDX(v) : v \in vps}, pte |-> vps]

\* The pages of a table: the directory, the pages of page table, and the pages
\* mapped.  This is what building it takes and what freevm frees.
Size(t) == 1 + Cardinality(t.pt) + Cardinality(t.pte)

Exists(d) == tab[d] # NoTable
NewDir == Min({d \in Tables : ~Exists(d)})

\* Mutant: the new size is rounded down, so a page still needed goes too.
Down_DeallocRange(old, new) == {v \in new \div PGSIZE .. PGROUNDUP(old) : v * PGSIZE < old}

\* The pages that deallocuvm(old, new) looks at.
DeallocRange(old, new) == {v \in PGROUNDUP(new) .. PGROUNDUP(old) : v * PGSIZE < old}

\* init has been loaded; everything else is free.
Init ==
  /\ LET t == NewTable({0} \cup StackPages(0)) IN
       /\ tab = [d \in Tables |-> IF d = 1 THEN t ELSE NoTable]
       /\ free = NPAGES - Size(t) - 1
  /\ state = [p \in Procs |-> IF p = initproc THEN "USED" ELSE "UNUSED"]
  /\ pgdir = [p \in Procs |-> IF p = initproc THEN 1 ELSE 0]
  /\ sz = [p \in Procs |-> IF p = initproc THEN PGSIZE ELSE 0]
  /\ psl = [p \in Procs |-> 0]
  /\ slindex = [p \in Procs |-> 0]
  /\ thread = [p \in Procs |-> FALSE]
  /\ grow = [p \in Procs |-> NotGrowing]
  /\ stackz = [l \in Psls |-> {}]
  /\ thread_count = [l \in Psls |-> 0]
  /\ leaked = 0
  /\ broken = Fine

\* p can make a system call.  init has loaded its program, and from then on
\* only forks and waits (init.c).
Ready(p) == broken = Fine /\ state[p] = "USED" /\ grow[p] = NotGrowing
ReadyUser(p) == Ready(p) /\ p # initproc

-----------------------------------------------------------------------------
\* Mutant: pages are freed that are not present.
Blind_deallocuvm(d, vps) ==
  /\ tab' = [tab EXCEPT ![d].pte = @ \ vps]
  /\ free' = free + Cardinality(vps)

\* deallocuvm: the pages of table d among vps are unmapped and freed.
deallocuvm(d, vps) ==
  /\ tab' = [tab EXCEPT ![d].pte = @ \ vps]
  /\ free' = free + Cardinality(tab[d].pte \cap vps)

\* sys_sbrk(-n): growproc by deallocuvm.  A size below 0 wraps around
\* to a large number, for which deallocuvm does nothing.  A new size of 0 is
\* taken for failure, with the memory gone: the process faults on its return.
shrink(p, n) ==
  /\ ReadyUser(p)
  /\ IF sz[p] < n THEN UNCHANGED <<tab, free, sz, state>>
     ELSE /\ deallocuvm(pgdir[p], DeallocRange(sz[p], sz[p] - n))
          /\ IF sz[p] = n
             THEN state' = [state EXCEPT ![p] = "FAULTS"] /\ UNCHANGED sz
             ELSE sz' = [sz EXCEPT ![p] = @ - n] /\ UNCHANGED state
  /\ UNCHANGED <<pgdir, psl, slindex, thread, grow, pslvars, leaked, broken>>

\* Mutant: the rest of the last page is taken for a new page.
Down_FirstNew(p) == sz[p] \div PGSIZE

FirstNew(p) == PGROUNDUP(sz[p])

\* sys_sbrk(n): growproc enters the loop of allocuvm.
grow_start(p, n) ==
  /\ ReadyUser(p) /\ sz[p] + n <= MaxSz
  /\ IF FirstNew(p) * PGSIZE >= sz[p] + n
     THEN sz' = [sz EXCEPT ![p] = @ + n] /\ UNCHANGED grow
     ELSE /\ grow' = [grow EXCEPT ![p] = [new |-> sz[p] + n, at |-> FirstNew(p), mem |-> FALSE]]
          /\ UNCHANGED sz
  /\ UNCHANGED <<free, tab, state, pgdir, psl, slindex, thread, pslvars,
                 leaked, broken>>

\* kalloc and, in mappages, walkpgdir and the test for a mapped page.
grow_page(p) ==
  /\ broken = Fine /\ grow[p] # NotGrowing /\ ~grow[p].mem
  /\ LET v == grow[p].at
         d == pgdir[p]
         n == 1 + Cardinality({PDX(v)} \ tab[d].pt)
     IN
       IF free < n
       THEN /\ deallocuvm(d, DeallocRange(grow[p].new, sz[p]))
            /\ grow' = [grow EXCEPT ![p] = NotGrowing]
            /\ UNCHANGED broken
       ELSE /\ free' = free - n
            /\ tab' = [tab EXCEPT ![d].pt = @ \cup {PDX(v)}]
            /\ grow' = [grow EXCEPT ![p].mem = TRUE]
            /\ broken' = IF v \in tab[d].pte THEN [why |-> "remap", who |-> p] ELSE broken
  /\ UNCHANGED <<state, pgdir, sz, psl, slindex, thread, pslvars, leaked>>

\* The rest of mappages.  Another thread may have mapped the page since the
\* test; its page is then lost.
grow_set(p) ==
  /\ broken = Fine /\ grow[p].mem
  /\ LET v == grow[p].at
         d == pgdir[p]
     IN
       /\ tab' = [tab EXCEPT ![d].pte = @ \cup {v}]
       /\ IF v \in tab[d].pte
          THEN leaked' = leaked + 1 /\ broken' = [why |-> "overwritten", who |-> p]
          ELSE UNCHANGED <<leaked, broken>>
       /\ IF (v + 1) * PGSIZE >= grow[p].new
          THEN sz' = [sz EXCEPT ![p] = grow[p].new] /\ grow' = [grow EXCEPT ![p] = NotGrowing]
          ELSE grow' = [grow EXCEPT ![p].at = v + 1, ![p].mem = FALSE] /\ UNCHANGED sz
  /\ UNCHANGED <<free, state, pgdir, psl, slindex, thread, pslvars>>

-----------------------------------------------------------------------------
(* A table under construction is a record: the pages left, the table, how it *)
(* went, and the pages forgotten on the way.                                 *)

\* setupkvm: the directory and the kernel's page of page table, or nothing.
setupkvm(f) ==
  IF f < 2 THEN [free |-> f, t |-> NoTable, res |-> "fail", lost |-> 0]
  ELSE [free |-> f - 2, t |-> NewTable({}), res |-> "ok", lost |-> 0]

\* kalloc and mappages of virtual page v.  When mappages finds no page of page
\* table, most callers kfree the page they had for v.
AddPage(b, v, kfrees) ==
  LET pts == Cardinality({PDX(v)} \ b.t.pt) IN
    CASE b.res # "ok" -> b
      [] b.res = "ok" /\ b.free > pts ->
           [b EXCEPT !.free = @ - 1 - pts, !.t.pt = @ \cup {PDX(v)}, !.t.pte = @ \cup {v}]
      [] b.res = "ok" /\ b.free <= pts /\ (b.free = 0 \/ kfrees) -> [b EXCEPT !.res = "fail"]
      [] OTHER -> [b EXCEPT !.res = "fail", !.free = @ - 1, !.lost = @ + 1]

AddPages(b, vps) == FoldLeft(LAMBDA c, v : AddPage(c, v, TRUE), b, vps)

\* Mutant: the pages are freed but stay mapped, and freevm frees them again.
Twice_allocuvm(b, vps) ==
  LET c == AddPages(b, vps) IN
    IF b.res # "ok" \/ c.res = "ok" THEN c
    ELSE [c EXCEPT !.free = @ + Cardinality(c.t.pte \cap ToSet(vps))]

\* allocuvm of a new table: on failure its own deallocuvm undoes it.
allocuvm(b, vps) ==
  LET c == AddPages(b, vps) IN
    IF b.res # "ok" \/ c.res = "ok" THEN c
    ELSE [c EXCEPT !.free = @ + Cardinality(c.t.pte \cap ToSet(vps)),
                   !.t.pte = @ \ ToSet(vps)]

\* The pages left once freevm has given up the table, if there is one.
freevm(b) == b.free + IF b.t = NoTable THEN 0 ELSE Size(b.t)

-----------------------------------------------------------------------------
LowPages(p) == 0 .. PGROUNDUP(sz[p]) - 1
StackPage(i) == -(2 * i + 1)
FirstPages(n) == [k \in 1 .. n |-> k - 1]

UnusedSlots == {q \in Procs : state[q] = "UNUSED"}

\* One page of the caller is copied; one that is not there is a panic.
CopyPage(p, b, from, to, kfrees) ==
  IF b.res = "ok" /\ from \notin tab[pgdir[p]].pte THEN [b EXCEPT !.res = "panic"]
  ELSE AddPage(b, to, kfrees)

\* copyuvm with f pages left: the pages up to sz, then the caller's stack,
\* which moves to the top.  The page for the stack is not freed on failure.
copyuvm(p, f) ==
  LET low == FoldLeft(LAMBDA b, v : CopyPage(p, b, v, v, TRUE), setupkvm(f),
                      FirstPages(PGROUNDUP(sz[p])))
  IN  CopyPage(p, low, StackPage(slindex[p]), StackPage(0), FALSE)

\* fork: allocproc takes a slot and a kernel stack, then comes copyuvm.
CanFork(p) == Ready(p) /\ UnusedSlots # {} /\ free > 0

fork(p) ==
  /\ CanFork(p)
  /\ LET q == Min(UnusedSlots)
         b == copyuvm(p, free - 1)
     IN
       /\ b.res = "ok"
       /\ pgdir' = [pgdir EXCEPT ![q] = NewDir]
       /\ tab' = [tab EXCEPT ![NewDir] = b.t]
       /\ sz' = [sz EXCEPT ![q] = sz[p]]
       /\ state' = [state EXCEPT ![q] = "USED"]
       /\ free' = b.free
  /\ UNCHANGED <<psl, slindex, thread, grow, pslvars, leaked, broken>>

\* Out of memory: freevm gives up the new table, and fork the kernel stack.
fork_fails(p) ==
  /\ CanFork(p)
  /\ LET b == copyuvm(p, free - 1) IN
       /\ b.res = "fail"
       /\ free' = freevm(b) + 1
       /\ leaked' = leaked + b.lost
  /\ UNCHANGED <<tab, procvars, pslvars, broken>>

fork_panics(p) ==
  /\ CanFork(p) /\ copyuvm(p, free - 1).res = "panic"
  /\ broken' = [why |-> "not present", who |-> p]
  /\ UNCHANGED <<free, tab, procvars, pslvars, leaked>>

-----------------------------------------------------------------------------
OtherUsers(p) == {q \in Procs \ {p} : state[q] # "UNUSED" /\ pgdir[q] = pgdir[p]}

\* The table that exec builds for a program of n pages, and the points where
\* it may give it up: with no program yet, with the program, with the stack.
Loaded(n) == allocuvm(setupkvm(free), FirstPages(n))
WithStack(n) == allocuvm(Loaded(n), <<-2, -1>>)
BadPoints(n) == {setupkvm(free), Loaded(n), WithStack(n)}

\* exec: the new table is committed once it is complete, beside the old one,
\* which is then freed, whoever else uses it.
exec(p, n) ==
  /\ ReadyUser(p)
  /\ LET b == WithStack(n)
         old == pgdir[p]
     IN
       /\ b.res = "ok"
       /\ tab' = [tab EXCEPT ![NewDir] = b.t, ![old] = NoTable]
       /\ free' = b.free + Size(tab[old])
       /\ pgdir' = [pgdir EXCEPT ![p] = NewDir]
  /\ sz' = [sz EXCEPT ![p] = n * PGSIZE]
  /\ broken' = IF OtherUsers(p) = {} THEN broken ELSE [why |-> "exec", who |-> p]
  /\ UNCHANGED <<state, psl, slindex, thread, grow, pslvars, leaked>>

\* bad: out of memory, an unreadable file, too many arguments.
exec_fails(p, n) ==
  /\ ReadyUser(p)
  /\ \E b \in BadPoints(n) : free' = freevm(b)
  /\ UNCHANGED <<tab, procvars, pslvars, leaked, broken>>

-----------------------------------------------------------------------------
FreePsls == {l \in Psls : thread_count[l] = 0}

\* The list and the stack that KT_Create gives a new thread of p.
ListFor(p) == IF psl[p] = 0 THEN Min(FreePsls) ELSE psl[p]
UsedStacks(p) == IF psl[p] = 0 THEN {0} ELSE stackz[psl[p]]
SlotFor(p) == Min((0 .. NSTACK - 1) \ UsedStacks(p))
CountFor(p) == IF psl[p] = 0 THEN 2 ELSE thread_count[psl[p]] + 1

\* KT_Create has a stack list, and room in it.  (With sltable full it goes on
\* without a stack, which is in module Proc.)
CanThread(p) ==
  /\ ReadyUser(p)
  /\ IF psl[p] = 0 THEN FreePsls # {} ELSE thread_count[psl[p]] < NSTACK
  /\ UsedStacks(p) # 0 .. NSTACK - 1

NewPts(p) == {PDX(v) : v \in StackPages(SlotFor(p))} \ tab[pgdir[p]].pt

\* The stack is there already, in a table that exec has made for a thread.
StackThere(p) == StackPages(SlotFor(p)) \subseteq tab[pgdir[p]].pte
StackNeeds(p) == IF StackThere(p) THEN 1 ELSE 2 + Cardinality(NewPts(p))

\* KT_Create: allocuvm maps a stack, then clone takes a kernel stack and a slot
\* for the thread, or fails and leaves stack and count as they are.
KT_Create(p) ==
  /\ CanThread(p) /\ free >= StackNeeds(p) /\ ~StackThere(p)
  /\ LET l == ListFor(p)
         i == SlotFor(p)
         cloned == UnusedSlots # {} /\ free > StackNeeds(p)
         q == Min(UnusedSlots)
     IN
       /\ tab' = [tab EXCEPT ![pgdir[p]].pt = @ \cup NewPts(p),
                             ![pgdir[p]].pte = @ \cup StackPages(i)]
       /\ stackz' = [stackz EXCEPT ![l] = UsedStacks(p) \cup {i}]
       /\ thread_count' = [thread_count EXCEPT ![l] = CountFor(p)]
       /\ IF cloned
          THEN /\ state' = [state EXCEPT ![q] = "USED"]
               /\ pgdir' = [pgdir EXCEPT ![q] = pgdir[p]]
               /\ sz' = [sz EXCEPT ![q] = sz[p]]
               /\ psl' = [psl EXCEPT ![p] = l, ![q] = l]
               /\ slindex' = [slindex EXCEPT ![q] = i]
               /\ thread' = [thread EXCEPT ![q] = TRUE]
               /\ free' = free - StackNeeds(p) - 1
          ELSE /\ psl' = [psl EXCEPT ![p] = l]
               /\ free' = free - StackNeeds(p)
               /\ UNCHANGED <<state, pgdir, sz, slindex, thread>>
  /\ UNCHANGED <<grow, leaked, broken>>

\* Mapping the stack, mappages finds it mapped and panics.
KT_Create_panics(p) ==
  /\ CanThread(p) /\ free >= StackNeeds(p) /\ StackThere(p)
  /\ broken' = [why |-> "remap", who |-> p]
  /\ UNCHANGED <<free, tab, procvars, pslvars, leaked>>

\* bad: allocuvm fails and freevm takes the table that the caller runs on.
KT_Create_fails(p) ==
  /\ CanThread(p) /\ free < StackNeeds(p)
  /\ psl' = [psl EXCEPT ![p] = ListFor(p)]
  /\ stackz' = [stackz EXCEPT ![ListFor(p)] = UsedStacks(p)]
  /\ thread_count' = [thread_count EXCEPT ![ListFor(p)] = CountFor(p)]
  /\ free' = free + Size(tab[pgdir[p]])
  /\ tab' = [tab EXCEPT ![pgdir[p]] = NoTable]
  /\ broken' = [why |-> "KT_Create", who |-> p]
  /\ UNCHANGED <<state, pgdir, sz, slindex, thread, grow, leaked>>

-----------------------------------------------------------------------------
\* clear_psl unmaps the stack of a process that has a stack list.
StackUnmapped(q) == IF psl[q] = 0 THEN {} ELSE StackPages(slindex[q])

\* wait frees the table of a process that never had threads.  KT_Join would also
\* free that of a thread whose list is empty, but looks before clear_psl has
\* counted the thread itself: tables of processes with threads stay for good.
FreesTable(q) == psl[q] = 0 \/ (thread[q] /\ thread_count[psl[q]] = 0)

\* q has exited and is reaped by wait, or by KT_Join if it is a thread.
reap(q) ==
  /\ broken = Fine /\ q # initproc /\ state[q] # "UNUSED" /\ grow[q] = NotGrowing
  /\ LET d == pgdir[q] IN
       /\ free' = 1 + free + IF FreesTable(q) THEN Size(tab[d])
                            ELSE Cardinality(tab[d].pte \cap StackUnmapped(q))
       /\ tab' = IF FreesTable(q) THEN [tab EXCEPT ![d] = NoTable]
                 ELSE [tab EXCEPT ![d].pte = @ \ StackUnmapped(q)]
  /\ IF psl[q] = 0 THEN UNCHANGED pslvars
     ELSE /\ stackz' = [stackz EXCEPT ![psl[q]] = @ \ {slindex[q]}]
          /\ thread_count' = [thread_count EXCEPT ![psl[q]] = @ - 1]
  /\ state' = [state EXCEPT ![q] = "UNUSED"]
  /\ pgdir' = [pgdir EXCEPT ![q] = 0]
  /\ sz' = [sz EXCEPT ![q] = 0]
  /\ psl' = [psl EXCEPT ![q] = 0]
  /\ slindex' = [slindex EXCEPT ![q] = 0]
  /\ thread' = [thread EXCEPT ![q] = FALSE]
  /\ UNCHANGED <<grow, leaked, broken>>

Next ==
  \E p \in Procs :
    \/ (\E n \in Shrinks : shrink(p, n)) \/ (\E n \in Grows : grow_start(p, n))
    \/ grow_page(p) \/ grow_set(p)
    \/ fork(p) \/ fork_fails(p) \/ fork_panics(p)
    \/ \E n \in Images : exec(p, n) \/ exec_fails(p, n)
    \/ KT_Create(p) \/ KT_Create_panics(p) \/ KT_Create_fails(p)
    \/ reap(p)

Spec == Init /\ [][Next]_vars

-----------------------------------------------------------------------------
(* Properties *)

\* Every page is accounted for: on the free list, a kernel stack, part of one
\* table (whose users may be gone, if they had threads), or about to be mapped.
\* Wherever fork, exec or sbrk runs out of memory, nothing is freed twice or
\* lost, but for the page that copyuvm forgets when it cannot map the stack
\* (vm.c:119-136, 221-359, exec.c:101-125).
PagesAccounted ==
  broken = Fine =>
    NPAGES = free + leaked + Cardinality({p \in Procs : state[p] # "UNUSED"})
      + Cardinality({p \in Procs : grow[p].mem})
      + MapThenSumSet(LAMBDA d : 1 + Cardinality(tab[d].pt) + Cardinality(tab[d].pte),
                      {d \in Tables : Exists(d)})

\* A process that never had threads has a table of its own, in which exactly
\* the pages below its size are mapped, and its stack: after any sequence of
\* sbrk, fork and exec, those that failed included (proc.c:255-272,
\* vm.c:221-279).
ImageIntact ==
  broken = Fine =>
    \A p \in Procs :
      /\ state[p] # "UNUSED" => Exists(pgdir[p])
      /\ state[p] = "USED" /\ psl[p] = 0 /\ grow[p] = NotGrowing =>
           /\ OtherUsers(p) = {}
           /\ {v \in tab[pgdir[p]].pte : v >= 0} = LowPages(p)
           /\ StackPage(0) \in tab[pgdir[p]].pte

\* The panics of mappages and copyuvm, a mapping overwritten and a table freed
\* under its users happen only to a process that has made a thread: sz is kept
\* per thread though the table is shared, and exec and KT_Create free a shared
\* table (proc.c:413-416, 444; exec.c:115; vm.c:72, 329).
BreaksOnlyWithThreads == broken.why # "no" => psl[broken.who] # 0
=============================================================================
