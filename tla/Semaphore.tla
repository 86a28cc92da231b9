------------------------------ MODULE Semaphore ------------------------------
(***************************************************************************)
(* The counting semaphores of proc.c (sem_initialize, sem_wait,            *)
(* sem_signal, sem_free and their ring of sleeping threads) with the       *)
(* system calls around them in sysproc.c.                                  *)
(*                                                                         *)
(* sem_sleep gives up the semaphore's lock before the thread is marked     *)
(* SEM_SLEEPING and keeps ptable.lock until the CPU has switched away; the *)
(* steps are cut at each change of either lock, so that a sem_signal may   *)
(* fall between them.  sem_wakeup takes and releases ptable.lock around    *)
(* one pop, which is one step.  ncli counts the pushcli's outstanding on   *)
(* the CPU a thread runs on; sched panics unless it is exactly 1.          *)
(*                                                                         *)
(* Threads follow the comment on sem_wait, "Wait should always be called   *)
(* before signal": a thread signals a semaphore that it is inside of.  A   *)
(* thread may wait for a semaphore while it is inside of others, as in     *)
(* kernelthreadtests.c, and takes nested semaphores in the order of their  *)
(* indices.  A semaphore is freed when no thread is inside of it or of a   *)
(* call on it.  Left out are indices beyond the table (sysproc.c:133, 150  *)
(* and 167 let them up to NPROC pass) and negative counts (sysproc.c:119   *)
(* rejects nothing).                                                       *)
(***************************************************************************)
EXTENDS Integers, FiniteSets, Sequences

CONSTANTS
  Threads,     \* kernel threads
  NSEM,        \* slots in semtable (KT_TABLESIZE, 64 in the source)
  MAXQ,        \* slots in a semaphore's queue (7 in the source)
  InitCounts,  \* arguments of sem_initialize
  MaxInit,     \* bound: calls of sem_initialize
  Killable,    \* threads that somebody may kill
  Wants        \* bound: the semaphores that each thread waits for
CONSTANT None  \* the null pointer

ASSUME SemAssumption ==
  /\ NSEM \in Nat /\ MAXQ \in Nat \ {0} /\ MaxInit \in Nat
  /\ InitCounts \subseteq Nat /\ Killable \subseteq Threads /\ IsFiniteSet(Threads)
  /\ Wants \in [Threads -> SUBSET (0 .. NSEM - 1)]
  /\ None \notin Threads /\ None \notin 0 .. NSEM - 1

Sems == 0 .. NSEM - 1
Ring == 0 .. MAXQ - 1

VARIABLES
  semstate, count,        \* struct semaphore
  q, front, back, qcount, \* its struct queue
  lock,                   \* holder of a semaphore's lock
  ptlock,                 \* holder of ptable.lock
  pstate,                 \* p->state of a thread
  killed,                 \* p->killed
  ncli,                   \* pushcli depth of the CPU that runs the thread
  pc, sem,                \* the call a thread is in, and on which semaphore
  inside,                 \* threads that passed sem_wait and have not signalled
  limit,                  \* the count a semaphore was initialised with
  inits                   \* calls of sem_initialize so far

semvars == <<semstate, count, q, front, back, qcount, limit, inits>>
allsemvars == <<semvars, lock, ptlock, pstate, killed, ncli, pc, sem, inside>>

SemInit ==
  /\ semstate = [i \in Sems |-> "UNUSED"]
  /\ count = [i \in Sems |-> 0]
  /\ q = [i \in Sems |-> [r \in Ring |-> None]]
  /\ front = [i \in Sems |-> 0]
  /\ back = [i \in Sems |-> 0]
  /\ qcount = [i \in Sems |-> 0]
  /\ lock = [i \in Sems |-> None]
  /\ ptlock = None
  /\ pstate = [t \in Threads |-> "RUNNING"]
  /\ killed = [t \in Threads |-> FALSE]
  /\ ncli = [t \in Threads |-> 0]
  /\ pc = [t \in Threads |-> "idle"]
  /\ sem = [t \in Threads |-> None]
  /\ inside = [i \in Sems |-> {}]
  /\ limit = [i \in Sems |-> 0]
  /\ inits = 0

-----------------------------------------------------------------------------
Goto(t, from, to) == pc[t] = from /\ pc' = [pc EXCEPT ![t] = to]

Acquire(t, i) == lock[i] = None /\ lock' = [lock EXCEPT ![i] = t]
Release(i) == lock' = [lock EXCEPT ![i] = None]

\* pushcli (and acquire) d = 1, popcli (and release) d = -1
Cli(t, d) == ncli' = [ncli EXCEPT ![t] = @ + d]

\* Nested semaphores are taken in order, none of them twice.
InOrder(t, i) == \A j \in Sems : t \in inside[j] => j < i

\* sem_initialize: the first UNUSED semaphore; sem_init resets all of it.
sem_initialize(t, n) ==
  /\ pc[t] = "idle" /\ inits < MaxInit
  /\ \E i \in Sems :
       /\ semstate[i] = "UNUSED" /\ \A j \in 0 .. i - 1 : semstate[j] # "UNUSED"
       /\ semstate' = [semstate EXCEPT ![i] = "USED"]
       /\ lock' = [lock EXCEPT ![i] = None]
       /\ count' = [count EXCEPT ![i] = n]
       /\ limit' = [limit EXCEPT ![i] = n]
       /\ q' = [q EXCEPT ![i] = [r \in Ring |-> None]]
       /\ front' = [front EXCEPT ![i] = 0]
       /\ back' = [back EXCEPT ![i] = -1]
       /\ qcount' = [qcount EXCEPT ![i] = 0]
  /\ inits' = inits + 1
  /\ UNCHANGED <<ptlock, pstate, killed, ncli, pc, sem, inside>>

sem_free(t, i) ==
  /\ pc[t] = "idle"
  /\ semstate[i] = "USED"
  /\ inside[i] = {} /\ \A u \in Threads : sem[u] # i
  /\ lock[i] = None
  /\ semstate' = [semstate EXCEPT ![i] = "UNUSED"]
  /\ UNCHANGED <<count, q, front, back, qcount, limit, inits, lock, ptlock,
                 pstate, killed, ncli, pc, sem, inside>>

-----------------------------------------------------------------------------
\* sys_sem_wait's pushcli and sem_wait's unlocked test; an UNUSED semaphore
\* makes the call return -1.
sem_wait(t, i) ==
  /\ InOrder(t, i) /\ ~killed[t]
  /\ semstate[i] # "UNUSED"
  /\ Goto(t, "idle", "w_acquire")
  /\ sem' = [sem EXCEPT ![t] = i]
  /\ Cli(t, 1)
  /\ UNCHANGED <<semvars, lock, ptlock, pstate, killed, inside>>

\* Mutant: the test is for a negative count.
Late_MustSleep(i) == count[i] < 0

MustSleep(i) == count[i] <= 0

\* acquire(&s->lock); the count goes down either way.
WaitAcquire(t) ==
  LET i == sem[t] IN
  /\ pc[t] = "w_acquire" /\ Acquire(t, i) /\ Cli(t, 1)
  /\ pc' = [pc EXCEPT ![t] = IF MustSleep(i) THEN "w_ptable" ELSE "w_done"]
  /\ count' = [count EXCEPT ![i] = @ - 1]
  /\ UNCHANGED <<semstate, q, front, back, qcount, limit, inits, ptlock, pstate,
                 killed, sem, inside>>

\* Mutant: the slot after back is used without wrapping the index first.
NoWrap_NewBack(i) == IF back[i] = MAXQ - 1 THEN MAXQ - 1 ELSE back[i] + 1

NewBack(i) == (IF back[i] = MAXQ - 1 THEN -1 ELSE back[i]) + 1

\* push_back: a full queue drops the thread.
push_back(i, t) ==
  IF qcount[i] = MAXQ THEN UNCHANGED <<q, back, qcount>>
  ELSE /\ q' = [q EXCEPT ![i][NewBack(i)] = t]
       /\ back' = [back EXCEPT ![i] = NewBack(i)]
       /\ qcount' = [qcount EXCEPT ![i] = @ + 1]

\* sem_sleep: take ptable.lock and enter the queue.
SleepPtable(t) ==
  /\ Goto(t, "w_ptable", "w_release")
  /\ ptlock = None /\ ptlock' = t /\ Cli(t, 1)
  /\ push_back(sem[t], t)
  /\ UNCHANGED <<semstate, count, front, limit, inits, lock, pstate, killed, sem,
                 inside>>

\* sem_sleep: let go of the semaphore.
SleepRelease(t) ==
  /\ Goto(t, "w_release", "w_sched")
  /\ Release(sem[t]) /\ Cli(t, -1)
  /\ UNCHANGED <<semvars, ptlock, pstate, killed, sem, inside>>

SchedDepth(t) == ncli[t] - 1

\* sem_sleep: SEM_SLEEPING, popcli and sched, after which the scheduler runs
\* and releases ptable.lock.
SleepSched(t) ==
  /\ Goto(t, "w_sched", "w_asleep")
  /\ pstate' = [pstate EXCEPT ![t] = "SEM_SLEEPING"]
  /\ ncli' = [ncli EXCEPT ![t] = SchedDepth(t)]
  /\ ptlock' = None
  /\ UNCHANGED <<semvars, lock, killed, sem, inside>>

\* The scheduler runs the thread again, in sem_sleep after sched: pushcli and
\* release(&ptable.lock).
Resume(t) ==
  /\ pstate[t] = "RUNNABLE" /\ ptlock = None
  /\ Goto(t, "w_asleep", "w_reacquire")
  /\ pstate' = [pstate EXCEPT ![t] = "RUNNING"]
  /\ UNCHANGED <<semvars, lock, ptlock, killed, ncli, sem, inside>>

SleepReacquire(t) ==
  /\ Goto(t, "w_reacquire", "w_done")
  /\ Acquire(t, sem[t]) /\ Cli(t, 1)
  /\ UNCHANGED <<semvars, ptlock, pstate, killed, sem, inside>>

\* release, and sys_sem_wait's popcli: the thread is inside.
WaitDone(t) ==
  /\ Goto(t, "w_done", "idle")
  /\ Release(sem[t]) /\ Cli(t, -2)
  /\ inside' = [inside EXCEPT ![sem[t]] = @ \cup {t}]
  /\ sem' = [sem EXCEPT ![t] = None]
  /\ UNCHANGED <<semvars, ptlock, pstate, killed>>

-----------------------------------------------------------------------------
sem_signal(t, i) ==
  /\ t \in inside[i] /\ ~killed[t]
  /\ semstate[i] # "UNUSED"
  /\ Goto(t, "idle", "s_acquire")
  /\ sem' = [sem EXCEPT ![t] = i]
  /\ Cli(t, 1)
  /\ UNCHANGED <<semvars, lock, ptlock, pstate, killed, inside>>

SignalAcquire(t) ==
  LET i == sem[t] IN
  /\ Goto(t, "s_acquire", "s_wakeup")
  /\ Acquire(t, i) /\ Cli(t, 1)
  /\ count' = [count EXCEPT ![i] = @ + 1]
  /\ inside' = [inside EXCEPT ![i] = @ \ {t}]
  /\ UNCHANGED <<semstate, q, front, back, qcount, limit, inits, ptlock, pstate,
                 killed, sem>>

\* Mutant: the signaller does not wait for ptable.lock.
Early_PtableFree == TRUE

PtableFree == ptlock = None

\* Mutant: front is not wrapped at the end of the ring.
NoWrap_NewFront(i) == IF front[i] = MAXQ - 1 THEN front[i] ELSE front[i] + 1

NewFront(i) == IF front[i] + 1 = MAXQ THEN 0 ELSE front[i] + 1

\* sem_wakeup: pop_front under ptable.lock.
sem_wakeup(t) ==
  LET i == sem[t] IN
  /\ Goto(t, "s_wakeup", "s_done")
  /\ PtableFree
  /\ IF qcount[i] = 0 THEN UNCHANGED <<front, qcount, pstate>>
     ELSE /\ pstate' = [pstate EXCEPT ![q[i][front[i]]] = "RUNNABLE"]
          /\ front' = [front EXCEPT ![i] = NewFront(i)]
          /\ qcount' = [qcount EXCEPT ![i] = @ - 1]
  /\ UNCHANGED <<semstate, count, q, back, limit, inits, lock, ptlock, killed,
                 ncli, sem, inside>>

SignalDone(t) ==
  /\ Goto(t, "s_done", "idle")
  /\ Release(sem[t]) /\ Cli(t, -2)
  /\ sem' = [sem EXCEPT ![t] = None]
  /\ UNCHANGED <<semvars, ptlock, pstate, killed, inside>>

\* kill of a thread: only a SLEEPING process is made RUNNABLE.
kill(t) ==
  /\ t \in Killable /\ ~killed[t]
  /\ killed' = [killed EXCEPT ![t] = TRUE]
  /\ UNCHANGED <<semvars, lock, ptlock, pstate, ncli, pc, sem, inside>>

\* The steps of a call that a thread is in.
Step(t) ==
  \/ WaitAcquire(t) \/ SleepPtable(t) \/ SleepRelease(t) \/ SleepSched(t)
  \/ Resume(t) \/ SleepReacquire(t) \/ WaitDone(t)
  \/ SignalAcquire(t) \/ sem_wakeup(t) \/ SignalDone(t)

SemNext ==
  \E t \in Threads :
    \/ \E n \in InitCounts : sem_initialize(t, n)
    \/ \E i \in Sems : sem_free(t, i) \/ sem_signal(t, i)
    \/ \E i \in Wants[t] : sem_wait(t, i)
    \/ Step(t) \/ kill(t)

SemSpec == SemInit /\ [][SemNext]_allsemvars

\* Locks are spinlocks taken for a few instructions and every thread is on a
\* CPU of its own or scheduled in turn, so a thread that tries again and again
\* to take one gets it; a thread inside a semaphore leaves it in the end, with
\* all that it does inside.
SemFairSpec ==
  /\ SemSpec
  /\ \A t \in Threads :
       SF_allsemvars(Step(t)) /\ \A i \in Wants[t] : SF_allsemvars(sem_signal(t, i))

-----------------------------------------------------------------------------
(* Properties *)

\* At most as many threads as the semaphore was initialised with are past
\* sem_wait and before sem_signal (proc.c:847-849: "The number threads that can
\* enter critical region").
CapacityRespected ==
  \A i \in Sems : semstate[i] = "USED" => Cardinality(inside[i]) <= limit[i]

\* The slot k places behind the front of the ring.
RingSlot(i, k) == IF front[i] + k < MAXQ THEN front[i] + k ELSE front[i] + k - MAXQ

\* The slots of the ring that hold waiting threads, front first.
Waiting(i) == [k \in 1 .. qcount[i] |-> q[i][RingSlot(i, k - 1)]]

\* "Else it decrements the count and enters a sleeping queue" (proc.c:894):
\* every sleeping thread is in the queue of its semaphore exactly once, so
\* that some sem_signal will find it.
SleepersQueued ==
  \A t \in Threads : pstate[t] = "SEM_SLEEPING" =>
    Cardinality({k \in 1 .. qcount[sem[t]] : Waiting(sem[t])[k] = t}) = 1

\* The signaller makes a thread RUNNABLE only after that thread has left the
\* CPU: a thread that is on its way to sleep is not woken too early, and its
\* wakeup is not lost (proc.c:962-976, 990-995).  It leaves the CPU with
\* exactly one pushcli outstanding, as sched demands ("sched locks",
\* proc.c:679).
WokenAfterSleep ==
  \A t \in Threads :
    /\ pc[t] = "w_asleep" => pstate[t] # "RUNNING" /\ ncli[t] = 1
    /\ pc[t] # "w_asleep" => pstate[t] = "RUNNING"

NobodyKilled == [](\A t \in Threads : ~killed[t])

\* A sem_wait returns, and its thread is inside, as long as no thread is killed
\* before it signals: no signal is spent on anybody else and no waiter is
\* forgotten (proc.c:870-871: "one of the waiting threads is woken up and
\* enters"), nested semaphores taken in order included.
WaiterEnters ==
  NobodyKilled =>
    \A t \in Threads : (pc[t] = "w_acquire") ~> (pc[t] = "idle")
=============================================================================
