-------------------------------- MODULE Proc --------------------------------
(***************************************************************************)
(* The life of processes and kernel threads, proc.c: the process table     *)
(* ptable and the table of process stack lists sltable, with fork,         *)
(* KT_Create and clone, exec, exit, wait, KT_Join, kill, the scheduler and *)
(* the timer's yield.                                                      *)
(*                                                                         *)
(* A process's fields are functions on the slots of ptable.  One action is *)
(* one critical section of ptable.lock or sltable.lock, together with the  *)
(* unlocked code up to the next one, which only touches an EMBRYO slot     *)
(* that nobody else looks at.  A process that wakes up inside wait or      *)
(* KT_Join still holds ptable.lock from the scheduler, so its next scan of *)
(* the table belongs to the step that schedules it.                        *)
(***************************************************************************)
EXTENDS Integers, FiniteSets

CONSTANTS
  NPROC,     \* slots in ptable (128 in the source)
  NPSL,      \* slots in sltable (KT_TABLESIZE, 64 in the source)
  NSTACK,    \* user stacks of a process stack list (8 in the source)
  NCPU,      \* CPUs running the scheduler
  MaxPid,    \* bound: pids handed out
  KillPids,  \* arguments that kill is called with
  ExecPids,  \* bound: the processes that call exec
  MayFail    \* whether kalloc and allocuvm can run out of memory

ASSUME ProcAssumption ==
  /\ NPROC \in Nat \ {0} /\ NPSL \in Nat /\ NSTACK \in Nat /\ NSTACK >= 2
  /\ NCPU \in Nat \ {0} /\ MaxPid \in Nat \ {0}
  /\ KillPids \subseteq Nat /\ ExecPids \subseteq Nat /\ MayFail \in BOOLEAN

Procs == 0 .. NPROC - 1
Psls == 0 .. NPSL - 1
Stacks == 0 .. NSTACK - 1
None == -1              \* the null pointer, and KT_Create's slindex = -1
initproc == 0           \* userinit takes the first slot

\* Page tables are pages, which kalloc hands out again.  Bound: one for every
\* process and one more for an exec (threads that exec apart may need more).
Tables == 1 .. MaxPid + 1
NoTable == 0

\* Sleep channels are addresses: a process slot, or a stack list.
PslChan(l) == IF l = None THEN None ELSE NPROC + l

VARIABLES
  state, pid, parent, pthread, psl, slindex, chan, killed, \* struct proc
  pgdir,         \* page table of a process
  pc,            \* where the process is in the kernel ("user": not in a call)
  np,            \* the slot a fork or clone in progress has allocated
  newslot,       \* the stack slot a KT_Create in progress has reserved
  nextpid,
  stackz, thread_count, slstate,  \* struct psl; stackz as the set of used slots
  pgtabs,        \* page tables that exist
  torn           \* some page table was freed under a process that runs on it

procvars == <<state, pid, parent, pthread, psl, slindex, chan, killed, pgdir>>
slvars == <<stackz, thread_count, slstate>>
callvars == <<pc, np, newslot>>
pgvars == <<pgtabs, torn>>
vars == <<procvars, slvars, callvars, nextpid, pgvars>>

States == {"UNUSED", "EMBRYO", "SLEEPING", "RUNNABLE", "RUNNING", "ZOMBIE"}

TypeOK ==
  /\ state \in [Procs -> States]
  /\ pid \in [Procs -> 0 .. MaxPid]
  /\ parent \in [Procs -> Procs \cup {None}]
  /\ pthread \in [Procs -> Procs \cup {None}]
  /\ psl \in [Procs -> Psls \cup {None}]
  /\ slindex \in [Procs -> Stacks \cup {None}]
  /\ chan \in [Procs -> Int]
  /\ killed \in [Procs -> BOOLEAN]
  /\ pgdir \in [Procs -> Tables \cup {NoTable}]
  /\ pc \in [Procs -> {"user", "fork", "clone", "copy", "wait", "join"}]
  /\ np \in [Procs -> Procs \cup {None}]
  /\ newslot \in [Procs -> Stacks \cup {None}]
  /\ nextpid \in 1 .. MaxPid + 1
  /\ stackz \in [Psls -> SUBSET Stacks]
  /\ thread_count \in [Psls -> 0 .. NSTACK]
  /\ slstate \in [Psls -> {"UNUSED", "USED"}]
  /\ pgtabs \in SUBSET Tables
  /\ torn \in BOOLEAN

\* userinit has run, and the first process has called exec to become init.
Init ==
  /\ state = [p \in Procs |-> IF p = initproc THEN "RUNNABLE" ELSE "UNUSED"]
  /\ pid = [p \in Procs |-> IF p = initproc THEN 1 ELSE 0]
  /\ parent = [p \in Procs |-> None]
  /\ pthread = [p \in Procs |-> None]
  /\ psl = [p \in Procs |-> None]
  /\ slindex = [p \in Procs |-> 0]
  /\ chan = [p \in Procs |-> None]
  /\ killed = [p \in Procs |-> FALSE]
  /\ pgdir = [p \in Procs |-> IF p = initproc THEN 1 ELSE NoTable]
  /\ pc = [p \in Procs |-> "user"]
  /\ np = [p \in Procs |-> None]
  /\ newslot = [p \in Procs |-> None]
  /\ nextpid = 2
  /\ stackz = [l \in Psls |-> {}]
  /\ thread_count = [l \in Psls |-> 0]
  /\ slstate = [l \in Psls |-> "UNUSED"]
  /\ pgtabs = {1} /\ torn = FALSE

-----------------------------------------------------------------------------
\* trap: a system call of a killed process turns into exit.
CanCall(p) == state[p] = "RUNNING" /\ pc[p] = "user" /\ ~killed[p]

\* init.c forks, waits and does nothing else: no threads, no exec, no kill.
CanThread(p) == CanCall(p) /\ p # initproc

\* The first slot that satisfies a condition is the one a table scan finds.
IsFirst(q, S) == q \in S /\ \A r \in S : q <= r

UnusedSlots == {q \in Procs : state[q] = "UNUSED"}

\* setupkvm: a page that is not a page table yet.
FreeTables == Tables \ pgtabs

\* allocproc in fork: take a slot and a pid.  With no slot free, fork
\* returns -1 and nothing has changed.
allocproc(p) ==
  /\ CanCall(p) /\ nextpid <= MaxPid
  /\ \E q \in UnusedSlots :
       /\ IsFirst(q, UnusedSlots)
       /\ state' = [state EXCEPT ![q] = "EMBRYO"]
       /\ pid' = [pid EXCEPT ![q] = nextpid]
       /\ np' = [np EXCEPT ![p] = q]
  /\ nextpid' = nextpid + 1
  /\ pc' = [pc EXCEPT ![p] = "fork"]
  /\ UNCHANGED <<parent, pthread, psl, slindex, chan, killed, pgdir, newslot,
                 slvars, pgvars>>

\* The rest of fork: a new page table, the parent, and RUNNABLE.
fork(p) ==
  /\ state[p] = "RUNNING" /\ pc[p] = "fork"
  /\ LET q == np[p] IN
       /\ \E t \in FreeTables :
            /\ IsFirst(t, FreeTables)
            /\ pgdir' = [pgdir EXCEPT ![q] = t]
            /\ pgtabs' = pgtabs \cup {t}
       /\ parent' = [parent EXCEPT ![q] = p]
       /\ state' = [state EXCEPT ![q] = "RUNNABLE"]
  /\ pc' = [pc EXCEPT ![p] = "user"]
  /\ np' = [np EXCEPT ![p] = None]
  /\ UNCHANGED <<pid, pthread, psl, slindex, chan, killed, newslot, nextpid,
                 slvars, torn>>

\* No memory for the kernel stack or for copyuvm: the slot is given back,
\* its pid left in place.
fork_fails(p) ==
  /\ MayFail /\ state[p] = "RUNNING" /\ pc[p] = "fork"
  /\ state' = [state EXCEPT ![np[p]] = "UNUSED"]
  /\ pc' = [pc EXCEPT ![p] = "user"]
  /\ np' = [np EXCEPT ![p] = None]
  /\ UNCHANGED <<pid, parent, pthread, psl, slindex, chan, killed, pgdir,
                 newslot, nextpid, slvars, pgvars>>

-----------------------------------------------------------------------------
\* A new stack list counts the caller and the new thread.
InitialThreads == 2

FreePsls == {l \in Psls : slstate[l] = "UNUSED"}

\* KT_Create of a process without a stack list: the first free list, its slot
\* 0 for the stack the caller is on and slot 1 for the new thread.
KT_Create_first(p) ==
  /\ CanThread(p) /\ psl[p] = None
  /\ \E l \in FreePsls :
       /\ IsFirst(l, FreePsls)
       /\ slstate' = [slstate EXCEPT ![l] = "USED"]
       /\ thread_count' = [thread_count EXCEPT ![l] = InitialThreads]
       /\ stackz' = [stackz EXCEPT ![l] = @ \cup {0, 1}]
       /\ psl' = [psl EXCEPT ![p] = l]
  /\ slindex' = [slindex EXCEPT ![p] = 0]
  /\ newslot' = [newslot EXCEPT ![p] = 1]
  /\ pc' = [pc EXCEPT ![p] = "clone"]
  /\ UNCHANGED <<state, pid, parent, pthread, chan, killed, pgdir, np, nextpid,
                 pgvars>>

\* With sltable full, KT_Create goes on to clone with sp = 0, slindex = -1.
KT_Create_full(p) ==
  /\ CanThread(p) /\ psl[p] = None /\ FreePsls = {}
  /\ newslot' = [newslot EXCEPT ![p] = None]
  /\ pc' = [pc EXCEPT ![p] = "clone"]
  /\ UNCHANGED <<procvars, slvars, np, nextpid, pgvars>>

\* Mutant: a slot that is already in use.
Reuse_FreeStacks(l) == Stacks

FreeStacks(l) == Stacks \ stackz[l]

PslFull(l) == thread_count[l] = NSTACK

\* KT_Create of a threaded process: the first free stack of its list, unless
\* the list counts NSTACK threads.
KT_Create_more(p) ==
  /\ CanThread(p) /\ psl[p] # None
  /\ LET l == psl[p] IN
       /\ ~PslFull(l)
       /\ thread_count' = [thread_count EXCEPT ![l] = @ + 1]
       /\ IF FreeStacks(l) = {}
          THEN newslot' = [newslot EXCEPT ![p] = None] /\ UNCHANGED stackz
          ELSE \E i \in FreeStacks(l) :
                 /\ IsFirst(i, FreeStacks(l))
                 /\ stackz' = [stackz EXCEPT ![l] = @ \cup {i}]
                 /\ newslot' = [newslot EXCEPT ![p] = i]
  /\ pc' = [pc EXCEPT ![p] = "clone"]
  /\ UNCHANGED <<procvars, slstate, np, nextpid, pgvars>>

\* bad: allocuvm fails.  The counts stay, and the caller's page table goes.
KT_Create_fails(p) ==
  /\ MayFail /\ CanThread(p)
  /\ \/ /\ psl[p] = None
        /\ \E l \in FreePsls :
             /\ IsFirst(l, FreePsls)
             /\ slstate' = [slstate EXCEPT ![l] = "USED"]
             /\ thread_count' = [thread_count EXCEPT ![l] = InitialThreads]
             /\ stackz' = [stackz EXCEPT ![l] = @ \cup {0}]
             /\ psl' = [psl EXCEPT ![p] = l]
        /\ slindex' = [slindex EXCEPT ![p] = 0]
     \/ /\ psl[p] # None
        /\ ~PslFull(psl[p]) /\ FreeStacks(psl[p]) # {}
        /\ thread_count' = [thread_count EXCEPT ![psl[p]] = @ + 1]
        /\ UNCHANGED <<stackz, slstate, psl, slindex>>
  /\ pgtabs' = pgtabs \ {pgdir[p]} /\ torn' = TRUE
  /\ UNCHANGED <<state, pid, parent, pthread, chan, killed, pgdir, callvars,
                 nextpid>>

\* clone, up to tallocproc.
tallocproc(p) ==
  /\ state[p] = "RUNNING" /\ pc[p] = "clone"
  /\ \E q \in UnusedSlots :
       /\ IsFirst(q, UnusedSlots)
       /\ state' = [state EXCEPT ![q] = "EMBRYO"]
       /\ np' = [np EXCEPT ![p] = q]
  /\ pc' = [pc EXCEPT ![p] = "copy"]
  /\ UNCHANGED <<pid, parent, pthread, psl, slindex, chan, killed, pgdir,
                 newslot, nextpid, slvars, pgvars>>

\* tallocproc returns 0, no slot being free or no memory for the kernel
\* stack: KT_Create returns -1 and the reserved stack slot stays reserved.
clone_fails(p) ==
  /\ state[p] = "RUNNING" /\ pc[p] = "clone"
  /\ MayFail \/ UnusedSlots = {}
  /\ pc' = [pc EXCEPT ![p] = "user"]
  /\ newslot' = [newslot EXCEPT ![p] = None]
  /\ UNCHANGED <<procvars, slvars, np, nextpid, pgvars>>

\* The rest of clone.  copyout to the new stack fails when there is none; the
\* new slot is then left an EMBRYO.
clone(p) ==
  /\ state[p] = "RUNNING" /\ pc[p] = "copy"
  /\ LET q == np[p] IN
       /\ pthread' = [pthread EXCEPT ![q] = p]
       /\ psl' = [psl EXCEPT ![q] = psl[p]]
       /\ slindex' = [slindex EXCEPT ![q] = newslot[p]]
       /\ pgdir' = [pgdir EXCEPT ![q] = pgdir[p]]
       /\ pid' = [pid EXCEPT ![q] = pid[p]]
       /\ IF newslot[p] = None
          THEN UNCHANGED state
          ELSE state' = [state EXCEPT ![q] = "RUNNABLE"]
  /\ pc' = [pc EXCEPT ![p] = "user"]
  /\ np' = [np EXCEPT ![p] = None]
  /\ newslot' = [newslot EXCEPT ![p] = None]
  /\ UNCHANGED <<parent, chan, killed, nextpid, slvars, pgvars>>

-----------------------------------------------------------------------------
Live(p) == state[p] \in {"SLEEPING", "RUNNABLE", "RUNNING"}

\* The threads that run on the page table of p.
Sharers(p) == {q \in Procs \ {p} : Live(q) /\ pgdir[q] = pgdir[p]}

\* exec: from its last lines on, the process has a new page table, and the old
\* one goes, whoever else runs on it.  The stack list and the slot in it stay.
\* An exec that fails frees what it built and changes nothing.
exec(p) ==
  /\ CanThread(p) /\ pid[p] \in ExecPids
  /\ \E t \in FreeTables :
       /\ IsFirst(t, FreeTables)
       /\ pgdir' = [pgdir EXCEPT ![p] = t]
       /\ pgtabs' = (pgtabs \cup {t}) \ {pgdir[p]}
  /\ torn' = (torn \/ Sharers(p) # {})
  /\ UNCHANGED <<state, pid, parent, pthread, psl, slindex, chan, killed,
                 callvars, nextpid, slvars>>

-----------------------------------------------------------------------------
\* wakeup1 makes these processes RUNNABLE.
Sleepers(c) == {q \in Procs : state[q] = "SLEEPING" /\ chan[q] = c}

\* Mutants: the parent, the joiners, or init is not woken.
NoParent_WokenByExit(p) == IF psl[p] = None THEN {} ELSE Sleepers(PslChan(psl[p]))
NoJoiner_WokenByExit(p) == Sleepers(parent[p])
NoInit_WokenByExit(p) ==
  Sleepers(parent[p]) \cup IF psl[p] = None THEN {} ELSE Sleepers(PslChan(psl[p]))

\* The processes that exit wakes: the parent in wait, the threads in KT_Join,
\* and init when it inherits a zombie.
WokenByExit(p) ==
  UNION { Sleepers(parent[p]),
          IF psl[p] = None THEN {} ELSE Sleepers(PslChan(psl[p])),
          IF \E q \in Procs : parent[q] = p /\ state[q] = "ZOMBIE"
            THEN Sleepers(initproc) ELSE {} }

\* Abandoned children are passed to init.
Reparented(p) == [q \in Procs |-> IF parent[q] = p THEN initproc ELSE parent[q]]

\* exit.  init itself never exits: it would panic.
exit(p) ==
  /\ state[p] = "RUNNING" /\ pc[p] = "user" /\ p # initproc
  /\ parent' = Reparented(p)
  /\ state' = [q \in Procs |-> IF q = p THEN "ZOMBIE"
                               ELSE IF q \in WokenByExit(p) THEN "RUNNABLE"
                               ELSE state[q]]
  /\ UNCHANGED <<pid, pthread, psl, slindex, chan, killed, pgdir, callvars,
                 nextpid, slvars, pgvars>>

StackOf(q) == {slindex[q]}

\* clear_psl: q's stack goes back to its list, and the last one frees the list.
clear_psl(q) ==
  IF psl[q] = None THEN UNCHANGED slvars
  ELSE LET l == psl[q] IN
    /\ stackz' = [stackz EXCEPT ![l] = @ \ StackOf(q)]
    /\ thread_count' = [thread_count EXCEPT ![l] = @ - 1]
    /\ slstate' = IF thread_count[l] = 1
                  THEN [slstate EXCEPT ![l] = "UNUSED"] ELSE slstate

CpuFree == Cardinality({q \in Procs : state[q] = "RUNNING"}) < NCPU

\* p calls wait or KT_Join, or the scheduler resumes it in the loop at.
InLoop(p, at) ==
  \/ CanCall(p)
  \/ state[p] = "RUNNABLE" /\ pc[p] = at /\ CpuFree

\* The slot of a reaped process is reset.  (The code leaves the dead pgdir in
\* the slot, where nothing reads it until fork or clone sets it again.)
Reap(p, q) ==
  /\ state' = [state EXCEPT ![q] = "UNUSED", ![p] = "RUNNING"]
  /\ pid' = [pid EXCEPT ![q] = 0]
  /\ parent' = [parent EXCEPT ![q] = None]
  /\ pthread' = [pthread EXCEPT ![q] = None]
  /\ psl' = [psl EXCEPT ![q] = None]
  /\ slindex' = [slindex EXCEPT ![q] = 0]
  /\ killed' = [killed EXCEPT ![q] = FALSE]
  /\ chan' = [chan EXCEPT ![p] = None]
  /\ pc' = [pc EXCEPT ![p] = "user"]
  /\ pgdir' = [pgdir EXCEPT ![q] = NoTable]
  /\ clear_psl(q)
  /\ UNCHANGED <<np, newslot, nextpid>>

\* One scan of wait or KT_Join that finds no exited child among kids: give up
\* without children or when killed, else sleep on c.
NothingYet(p, kids, c, at) ==
  /\ \A q \in kids : state[q] # "ZOMBIE"
  /\ IF kids = {} \/ killed[p]
     THEN /\ state' = [state EXCEPT ![p] = "RUNNING"]
          /\ chan' = [chan EXCEPT ![p] = None]
          /\ pc' = [pc EXCEPT ![p] = "user"]
     ELSE /\ state' = [state EXCEPT ![p] = "SLEEPING"]
          /\ chan' = [chan EXCEPT ![p] = c]
          /\ pc' = [pc EXCEPT ![p] = at]
  /\ UNCHANGED <<pid, parent, pthread, psl, slindex, killed, pgdir, np, newslot,
                 nextpid, slvars, pgvars>>

Zombies(kids) == {q \in kids : state[q] = "ZOMBIE"}

Children(p) == {q \in Procs : parent[q] = p}
Threads(p) == {q \in Procs : pthread[q] = p}

\* Mutant: the page table goes with any process.
Always_FreedByWait(q) == {pgdir[q]}

FreedByWait(q) == IF psl[q] = None THEN {pgdir[q]} ELSE {}

\* wait: the page table goes with a process that never had a stack list.
wait(p) ==
  /\ InLoop(p, "wait")
  /\ \/ \E q \in Zombies(Children(p)) :
          /\ IsFirst(q, Zombies(Children(p)))
          /\ Reap(p, q)
          /\ pgtabs' = pgtabs \ FreedByWait(q) /\ UNCHANGED torn
     \/ NothingYet(p, Children(p), p, "wait")

KT_Join(p) ==
  /\ p # initproc /\ InLoop(p, "join")
  /\ \/ \E q \in Zombies(Threads(p)) :
          /\ IsFirst(q, Zombies(Threads(p)))
          /\ Reap(p, q)
          /\ pgtabs' = IF psl[q] = None \/ thread_count[psl[q]] = 0
                       THEN pgtabs \ {pgdir[q]} ELSE pgtabs
          /\ UNCHANGED torn
     \/ NothingYet(p, Threads(p), PslChan(psl[p]), "join")

\* Mutant: a sleeping process is left asleep.
Asleep_AfterKill(q) == state[q]

AfterKill(q) == IF state[q] = "SLEEPING" THEN "RUNNABLE" ELSE state[q]

\* kill marks the first slot with that pid, whatever its state.
kill(p, i) ==
  /\ CanThread(p)
  /\ \E q \in Procs :
       /\ IsFirst(q, {r \in Procs : pid[r] = i})
       /\ killed' = [killed EXCEPT ![q] = TRUE]
       /\ state' = [state EXCEPT ![q] = AfterKill(q)]
  /\ UNCHANGED <<pid, parent, pthread, psl, slindex, chan, pgdir, callvars,
                 nextpid, slvars, pgvars>>

\* A CPU picks up a RUNNABLE process that is not inside wait or KT_Join.
scheduler(p) ==
  /\ state[p] = "RUNNABLE" /\ pc[p] \notin {"wait", "join"} /\ CpuFree
  /\ state' = [state EXCEPT ![p] = "RUNNING"]
  /\ UNCHANGED <<pid, parent, pthread, psl, slindex, chan, killed, pgdir,
                 callvars, nextpid, slvars, pgvars>>

\* A timer interrupt takes the CPU away.
yield(p) ==
  /\ state[p] = "RUNNING"
  /\ state' = [state EXCEPT ![p] = "RUNNABLE"]
  /\ UNCHANGED <<pid, parent, pthread, psl, slindex, chan, killed, pgdir,
                 callvars, nextpid, slvars, pgvars>>

Next ==
  \E p \in Procs :
    \/ allocproc(p) \/ fork(p) \/ fork_fails(p)
    \/ KT_Create_first(p) \/ KT_Create_full(p) \/ KT_Create_more(p)
    \/ KT_Create_fails(p) \/ tallocproc(p) \/ clone_fails(p) \/ clone(p)
    \/ exec(p) \/ exit(p) \/ wait(p) \/ KT_Join(p)
    \/ \E i \in KillPids : kill(p, i)
    \/ scheduler(p) \/ yield(p)

Spec == Init /\ [][Next]_vars

\* Scheduling: the scheduler's scan over ptable passes every slot again and
\* again, the timer keeps interrupting, a call in progress is finished, init
\* keeps calling wait, and a killed process exits at its next trap.
Fairness ==
  /\ \A p \in Procs :
       /\ SF_vars(scheduler(p) \/ (state[p] = "RUNNABLE" /\ (wait(p) \/ KT_Join(p))))
       /\ WF_vars(yield(p))
       /\ SF_vars(\/ fork(p) \/ fork_fails(p) \/ tallocproc(p) \/ clone_fails(p)
                  \/ clone(p) \/ (killed[p] /\ exit(p)))
  /\ SF_vars(wait(initproc))

FairSpec == Spec /\ Fairness

-----------------------------------------------------------------------------
(* Properties *)

\* exit passes on every child it leaves behind: a parent pointer never
\* outlives the parent, so nobody else's slot is mistaken for it
\* (proc.c:544-551).
ParentAlive == \A p \in Procs : parent[p] # None => Live(parent[p])

\* No wakeup is lost between exit and wait: a process asleep in wait has no
\* child that has exited already, whether its own or inherited
\* (proc.c:534-551, 608).
NoMissedChild ==
  \A p \in Procs :
    state[p] = "SLEEPING" /\ pc[p] = "wait" => Zombies(Children(p)) = {}

\* The same between exit and KT_Join, for threads of the same stack list
\* (proc.c:539-542, 1102).
NoMissedThread ==
  \A p, q \in Procs :
    state[p] = "SLEEPING" /\ pc[p] = "join" /\ pthread[q] = p /\ psl[q] = psl[p]
      => state[q] # "ZOMBIE"

\* A killed process does not stay asleep in wait or KT_Join: kill cannot slip
\* in between their check of killed and the sleep (proc.c:602, 790-808, 1096).
NoKilledSleeper == \A p \in Procs : killed[p] => state[p] # "SLEEPING"

HasStack(p) == state[p] # "UNUSED" /\ psl[p] # None

\* Two threads never run on the same user stack, and a stack list is not
\* given to another process while a thread still uses it (proc.c:359-408,
\* 483-503).
StacksExclusive ==
  \A p \in Procs : HasStack(p) =>
    /\ slstate[psl[p]] = "USED" /\ slindex[p] \in stackz[psl[p]]
    /\ \A q \in Procs \ {p} :
         HasStack(q) /\ psl[q] = psl[p] => slindex[q] # slindex[p]

\* There are two ways to free a page table under a process that runs on it: the
\* error path of KT_Create (proc.c:413-416) and an exec while other threads run
\* (exec.c:115).  Until one of them is taken, wait and KT_Join never do it
\* (proc.c:581-586, 1076-1083), and processes that are not threads of each
\* other never share one, although freed tables are used again.
PageTablesSafe ==
  ~torn => \A p \in Procs : Live(p) =>
    /\ pgdir[p] \in pgtabs
    /\ \A q \in Procs :
         Live(q) /\ pgdir[q] = pgdir[p] => pid[q] = pid[p]

\* A list's thread_count, which decides when the list is free again, is never
\* below the number of threads that still hold one of its stacks.
CountCoversThreads ==
  \A l \in Psls :
    Cardinality({p \in Procs : HasStack(p) /\ psl[p] = l}) <= thread_count[l]

\* An orphan that has exited is reaped by init.
OrphansReaped ==
  \A p \in Procs :
    (state[p] = "ZOMBIE" /\ parent[p] = initproc) ~> (state[p] = "UNUSED")

\* "Process won't exit until it returns to user space" (proc.c:788-789), but
\* it does exit.
KilledExits ==
  \A p \in Procs : (Live(p) /\ killed[p]) ~> ~Live(p)
=============================================================================
