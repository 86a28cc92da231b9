------------------------- MODULE SemaphoreInvariant -------------------------
(***************************************************************************)
(* The inductive invariant of Semaphore, and the proofs that the steps of  *)
(* sem_wait and sem_signal that leave the ring of waiters alone preserve   *)
(* it, as sem_initialize and sem_free do.  A proof that counts threads     *)
(* does so under the assumption Counting, which ThreadProofs discharges.   *)
(***************************************************************************)
EXTENDS Semaphore, TLAPS

\* Where a thread is while it holds its semaphore's lock, and ptable.lock.
Holding == {"w_ptable", "w_release", "w_done", "s_wakeup", "s_done"}
HoldingPtable == {"w_release", "w_sched"}

\* The pushcli's outstanding at each place.
Depth(place) ==
  CASE place = "idle" -> 0
    [] place \in {"w_acquire", "w_asleep", "w_reacquire", "s_acquire"} -> 1
    [] place = "w_release" -> 3
    [] OTHER -> 2

Places ==
  {"idle", "w_acquire", "w_ptable", "w_release", "w_sched", "w_asleep",
   "w_reacquire", "w_done", "s_acquire", "s_wakeup", "s_done"}

\* Threads that sem_wait has turned away and no sem_signal has picked yet.
Waits(t) ==
  \/ pc[t] \in {"w_ptable", "w_release", "w_sched"}
  \/ pc[t] = "w_asleep" /\ pstate[t] = "SEM_SLEEPING"
Waiters(i) == {t \in Threads : sem[t] = i /\ Waits(t)}

\* Threads that are inside, or that nothing but a lock keeps from it.
Enters(t) ==
  \/ pc[t] \in {"w_reacquire", "w_done"}
  \/ pc[t] = "w_asleep" /\ pstate[t] = "RUNNABLE"
Entered(i) == inside[i] \cup {t \in Threads : sem[t] = i /\ Enters(t)}

\* A signaller has counted itself out and has not looked for a waiter yet.
Signalled(i) == \E t \in Threads : sem[t] = i /\ pc[t] = "s_wakeup"

SemTypeOK ==
  /\ semstate \in [Sems -> {"UNUSED", "USED"}]
  /\ count \in [Sems -> Int] /\ limit \in [Sems -> Nat]
  /\ q \in [Sems -> [Ring -> Threads \cup {None}]]
  /\ front \in [Sems -> Ring] /\ back \in [Sems -> -1 .. MAXQ - 1]
  /\ qcount \in [Sems -> 0 .. MAXQ]
  /\ lock \in [Sems -> Threads \cup {None}] /\ ptlock \in Threads \cup {None}
  /\ pstate \in [Threads -> {"RUNNING", "RUNNABLE", "SEM_SLEEPING"}]
  /\ ncli \in [Threads -> Int]
  /\ pc \in [Threads -> Places] /\ sem \in [Threads -> Sems \cup {None}]
  /\ inside \in [Sems -> SUBSET Threads]

\* A thread in a call is in one on a USED semaphore, and it is off the CPU in
\* one place only.
CallInv ==
  \A t \in Threads :
    /\ pc[t] = "idle" <=> sem[t] = None
    /\ sem[t] # None => semstate[sem[t]] = "USED"
    /\ ncli[t] = Depth(pc[t])
    /\ pstate[t] = "RUNNING" <=> pc[t] # "w_asleep"

LockInv ==
  /\ \A t \in Threads, i \in Sems : lock[i] = t <=> sem[t] = i /\ pc[t] \in Holding
  /\ \A t \in Threads : ptlock = t <=> pc[t] \in HoldingPtable

\* The only call on a semaphore that a thread inside of it can be in is
\* sem_signal.
InsideInv ==
  /\ \A i \in Sems : \A t \in inside[i] :
       semstate[i] = "USED" /\ (sem[t] = i => pc[t] = "s_acquire")
  /\ \A t \in Threads : pc[t] = "s_acquire" => t \in inside[sem[t]]

\* The occupied slots of a ring hold different waiters, and the next one goes
\* behind them.
RingOK(i) ==
  semstate[i] = "USED" =>
    /\ NewBack(i) = RingSlot(i, qcount[i])
    /\ \A k \in 0 .. qcount[i] - 1 :
         /\ q[i][RingSlot(i, k)] \in Waiters(i)
         /\ pc[q[i][RingSlot(i, k)]] # "w_ptable"
         /\ \A l \in 0 .. k - 1 : q[i][RingSlot(i, l)] # q[i][RingSlot(i, k)]

\* The count says how many more may enter; who signals makes room before it
\* lets a waiter in.
CountOK(i) ==
  semstate[i] = "USED" =>
    /\ limit[i] \in InitCounts
    /\ Cardinality(Entered(i)) + Cardinality(Waiters(i)) + count[i] = limit[i]
    /\ Cardinality(Entered(i)) <= limit[i]
    /\ Signalled(i) => Cardinality(Entered(i)) < limit[i]

RingInv == \A i \in Sems : RingOK(i)
CountInv == \A i \in Sems : CountOK(i)

SemInv ==
  SemTypeOK /\ CallInv /\ LockInv /\ InsideInv /\ RingInv /\ CountInv

\* When the ring is large enough: nobody is dropped, and threads wait only
\* while the semaphore is full.
QueuedOK(i) ==
  semstate[i] = "USED" =>
    /\ \A t \in Waiters(i) : pc[t] # "w_ptable" =>
         \E k \in 0 .. qcount[i] - 1 : q[i][RingSlot(i, k)] = t
    /\ Waiters(i) # {} =>
         Cardinality(Entered(i)) = limit[i] - IF Signalled(i) THEN 1 ELSE 0
QueuedInv == \A i \in Sems : QueuedOK(i)

\* What the provers need of the constants.
LEMMA SemConsts ==
  /\ None \notin Threads /\ None \notin Sems /\ MAXQ \in Nat /\ MAXQ >= 1
  /\ InitCounts \subseteq Nat
BY SemAssumption DEF Sems

\* What the counting argument needs of Cardinality.
Counting ==
  /\ Cardinality({}) = 0
  /\ \A S \in SUBSET Threads :
       /\ Cardinality(S) \in Nat
       /\ \A t \in Threads \ S : Cardinality(S \cup {t}) = Cardinality(S) + 1
       /\ \A t \in S : Cardinality(S \ {t}) = Cardinality(S) - 1

\* A thread joins a set of threads.
LEMMA ThreadComes ==
  ASSUME Counting, NEW S \in SUBSET Threads, NEW t \in Threads, t \notin S
  PROVE  Cardinality(S \cup {t}) = Cardinality(S) + 1
BY Zenon DEF Counting

\* A thread leaves a set of threads.
LEMMA ThreadGoes ==
  ASSUME Counting, NEW S \in SUBSET Threads, NEW t \in S
  PROVE  Cardinality(S \ {t}) = Cardinality(S) - 1
BY Zenon DEF Counting

\* A semaphore that a step leaves alone: nobody moves in or out of it, of its
\* queue or of a signal.
LEMMA OtherSem ==
  ASSUME SemInv, NEW i \in Sems,
         /\ semstate'[i] = semstate[i] /\ count'[i] = count[i] /\ q'[i] = q[i]
         /\ front'[i] = front[i] /\ back'[i] = back[i] /\ qcount'[i] = qcount[i]
         /\ limit'[i] = limit[i],
         Waiters(i)' = Waiters(i), Entered(i)' = Entered(i), Signalled(i)' <=> Signalled(i),
         \A t \in Waiters(i) : pc'[t] = "w_ptable" <=> pc[t] = "w_ptable"
  PROVE  RingOK(i)' /\ CountOK(i)' /\ (QueuedOK(i) => QueuedOK(i)')
<1>1. /\ NewBack(i)' = NewBack(i)
      /\ \A k \in Int : RingSlot(i, k)' = RingSlot(i, k)
  BY Zenon DEF NewBack, RingSlot
<1>2. RingOK(i)'
  <2>1. RingOK(i) /\ qcount[i] \in Nat
    BY DEF SemInv, SemTypeOK, RingInv
  <2> QED
    BY <1>1, <2>1 DEF RingOK
<1>3. CountOK(i)'
  BY Zenon DEF SemInv, CountInv, CountOK
<1>4. ASSUME QueuedOK(i) PROVE QueuedOK(i)'
  <2>1. ASSUME semstate[i] = "USED"
        PROVE  \A t \in Waiters(i)' : pc'[t] # "w_ptable" =>
                 \E k \in 0 .. qcount'[i] - 1 : q'[i][RingSlot(i, k)'] = t
    <3>1. \A t \in Waiters(i) : pc[t] # "w_ptable" =>
            \E k \in 0 .. qcount[i] - 1 : q[i][RingSlot(i, k)] = t
      BY <1>4, <2>1, Zenon DEF QueuedOK
    <3>2. \A k \in 0 .. qcount[i] - 1 : q'[i][RingSlot(i, k)'] = q[i][RingSlot(i, k)]
      BY <1>1 DEF SemInv, SemTypeOK
    <3> QED
      BY <3>1, <3>2
  <2>2. ASSUME semstate[i] = "USED", Waiters(i) # {}
        PROVE  Cardinality(Entered(i)') = limit'[i] - IF Signalled(i)' THEN 1 ELSE 0
    BY <1>4, <2>2, Zenon DEF QueuedOK
  <2> QED
    BY <2>1, <2>2, Zenon DEF QueuedOK
<1> QED
  BY <1>2, <1>3, <1>4, Zenon

\* A step that leaves every semaphore alone.
LEMMA SemFrame ==
  ASSUME SemInv, UNCHANGED semvars,
         \A i \in Sems : /\ Waiters(i)' = Waiters(i) /\ Entered(i)' = Entered(i)
                         /\ Signalled(i)' <=> Signalled(i),
         \A t \in Threads : pc'[t] = "w_ptable" <=> pc[t] = "w_ptable"
  PROVE  RingInv' /\ CountInv' /\ (QueuedInv => QueuedInv')
<1>1. UNCHANGED <<semstate, count, q, front, back, qcount, limit>>
  BY Zenon DEF semvars
<1>2. \A i \in Sems : Waiters(i) \in SUBSET Threads
  BY Zenon DEF Waiters
<1>3. \A i \in Sems : RingOK(i)' /\ CountOK(i)' /\ (QueuedOK(i) => QueuedOK(i)')
  BY <1>1, <1>2, OtherSem, Zenon
<1> QED
  BY <1>3, Zenon DEF RingInv, CountInv, QueuedInv

\* kill, and a step that changes nothing.
LEMMA SemIdleInv ==
  ASSUME SemInv, UNCHANGED <<semvars, lock, ptlock, pstate, ncli, pc, sem, inside>>
  PROVE  SemInv' /\ (QueuedInv => QueuedInv')
<1>1. UNCHANGED <<semstate, count, q, front, back, qcount, limit>>
  BY Zenon DEF semvars
<1>2. SemTypeOK' /\ CallInv' /\ LockInv' /\ InsideInv'
  BY <1>1 DEF SemInv, SemTypeOK, CallInv, LockInv, InsideInv
<1>3. \A i \in Sems : /\ Waiters(i)' = Waiters(i) /\ Entered(i)' = Entered(i)
                      /\ Signalled(i)' <=> Signalled(i)
  BY Zenon DEF Waiters, Waits, Entered, Enters, Signalled
<1> QED
  BY <1>2, <1>3, SemFrame, Zenon DEF SemInv

\* sem_wait before the lock.
LEMMA sem_waitInv ==
  ASSUME SemInv, NEW t \in Threads, NEW i \in Sems, sem_wait(t, i)
  PROVE  SemInv' /\ (QueuedInv => QueuedInv')
<1>1. /\ pc[t] = "idle" /\ semstate[i] # "UNUSED" /\ t \notin inside[i]
      /\ pc' = [pc EXCEPT ![t] = "w_acquire"]
      /\ sem' = [sem EXCEPT ![t] = i] /\ ncli' = [ncli EXCEPT ![t] = @ + 1]
  <2>1. i \in Int /\ ~(i < i)
    BY DEF Sems
  <2> QED
    BY <2>1, Zenon DEF sem_wait, Goto, Cli, InOrder
<1>2. UNCHANGED <<semvars, lock, ptlock, pstate, inside>>
  BY Zenon DEF sem_wait
<1>3. UNCHANGED <<semstate, count, q, front, back, qcount, limit>>
  BY <1>2, Zenon DEF semvars
<1>4. SemTypeOK'
  BY <1>1, <1>2, <1>3 DEF SemInv, SemTypeOK, Places
<1>5. /\ pc'[t] = "w_acquire" /\ sem'[t] = i /\ ncli'[t] = ncli[t] + 1
      /\ \A u \in Threads \ {t} : pc'[u] = pc[u] /\ sem'[u] = sem[u] /\ ncli'[u] = ncli[u]
  BY <1>1, Zenon DEF SemInv, SemTypeOK
<1>6. sem[t] = None /\ semstate[i] = "USED"
  BY <1>1 DEF SemInv, SemTypeOK, CallInv
<1>7. CallInv'
  BY <1>1, <1>2, <1>3, <1>5, <1>6, SemConsts DEF SemInv, CallInv, Depth
<1>8. LockInv'
  BY <1>1, <1>2, <1>5, <1>6, SemConsts DEF SemInv, LockInv, Holding, HoldingPtable
<1>9. InsideInv'
  BY <1>1, <1>2, <1>3, <1>5 DEF SemInv, InsideInv
<1>10. \A j \in Sems : /\ Waiters(j)' = Waiters(j) /\ Entered(j)' = Entered(j)
                       /\ Signalled(j)' <=> Signalled(j)
  BY <1>1, <1>2, <1>5 DEF Waiters, Waits, Entered, Enters, Signalled
<1>11. RingInv' /\ CountInv' /\ (QueuedInv => QueuedInv')
  BY <1>1, <1>2, <1>5, <1>10, SemFrame, Zenon
<1> QED
  BY <1>4, <1>7, <1>8, <1>9, <1>11, Zenon DEF SemInv

\* sem_sleep lets go of the semaphore and keeps ptable.lock.
LEMMA SleepReleaseInv ==
  ASSUME SemInv, NEW t \in Threads, SleepRelease(t)
  PROVE  SemInv' /\ (QueuedInv => QueuedInv')
<1>0. lock' = [lock EXCEPT ![sem[t]] = None]
  BY Zenon DEF SleepRelease, Release
<1>1. /\ pc[t] = "w_release" /\ pc' = [pc EXCEPT ![t] = "w_sched"]
      /\ ncli' = [ncli EXCEPT ![t] = @ + -1]
  BY Zenon DEF SleepRelease, Goto, Cli
<1>2. UNCHANGED <<semvars, ptlock, pstate, sem, inside>>
  BY Zenon DEF SleepRelease
<1>3. UNCHANGED <<semstate, count, q, front, back, qcount, limit>>
  BY <1>2, Zenon DEF semvars
<1>4. SemTypeOK'
  <2>1. lock' \in [Sems -> Threads \cup {None}]
    BY <1>0, Zenon DEF SemInv, SemTypeOK
  <2> QED
    BY <1>1, <1>2, <1>3, <2>1 DEF SemInv, SemTypeOK, Places
<1>5. /\ pc'[t] = "w_sched" /\ ncli'[t] = ncli[t] - 1
      /\ \A u \in Threads \ {t} : pc'[u] = pc[u] /\ ncli'[u] = ncli[u]
  BY <1>1, Zenon DEF SemInv, SemTypeOK
<1>6. /\ sem[t] \in Sems /\ lock[sem[t]] = t /\ lock'[sem[t]] = None
      /\ \A i \in Sems \ {sem[t]} : lock'[i] = lock[i]
  BY <1>0, <1>1 DEF SemInv, SemTypeOK, CallInv, LockInv, Holding
<1>7. CallInv'
  BY <1>1, <1>2, <1>3, <1>5 DEF SemInv, CallInv, Depth
<1>8. LockInv'
  BY <1>1, <1>2, <1>5, <1>6, SemConsts DEF SemInv, LockInv, Holding, HoldingPtable
<1>9. InsideInv'
  BY <1>1, <1>2, <1>3, <1>5 DEF SemInv, InsideInv
<1>10. \A j \in Sems : /\ Waiters(j)' = Waiters(j) /\ Entered(j)' = Entered(j)
                       /\ Signalled(j)' <=> Signalled(j)
  BY <1>1, <1>2, <1>5 DEF Waiters, Waits, Entered, Enters, Signalled
<1>11. RingInv' /\ CountInv' /\ (QueuedInv => QueuedInv')
  BY <1>1, <1>2, <1>5, <1>10, SemFrame, Zenon
<1> QED
  BY <1>4, <1>7, <1>8, <1>9, <1>11, Zenon DEF SemInv

\* It leaves the CPU, and ptable.lock with it.
LEMMA SleepSchedInv ==
  ASSUME SemInv, NEW t \in Threads, SleepSched(t)
  PROVE  SemInv' /\ (QueuedInv => QueuedInv')
<1>1. /\ pc[t] = "w_sched" /\ pc' = [pc EXCEPT ![t] = "w_asleep"]
      /\ pstate' = [pstate EXCEPT ![t] = "SEM_SLEEPING"]
      /\ ncli' = [ncli EXCEPT ![t] = ncli[t] - 1] /\ ptlock' = None
  BY Zenon DEF SleepSched, Goto, SchedDepth
<1>2. UNCHANGED <<semvars, lock, sem, inside>>
  BY Zenon DEF SleepSched
<1>3. UNCHANGED <<semstate, count, q, front, back, qcount, limit>>
  BY <1>2, Zenon DEF semvars
<1>4. SemTypeOK'
  BY <1>1, <1>2, <1>3 DEF SemInv, SemTypeOK, Places
<1>5. /\ pc'[t] = "w_asleep" /\ ncli'[t] = ncli[t] - 1 /\ pstate'[t] = "SEM_SLEEPING"
      /\ \A u \in Threads \ {t} : /\ pc'[u] = pc[u] /\ ncli'[u] = ncli[u]
                                  /\ pstate'[u] = pstate[u]
  BY <1>1, Zenon DEF SemInv, SemTypeOK
<1>6. ptlock = t
  BY <1>1, Zenon DEF SemInv, LockInv, HoldingPtable
<1>7. CallInv'
  BY <1>1, <1>2, <1>3, <1>5 DEF SemInv, CallInv, Depth
<1>8. LockInv'
  BY <1>1, <1>2, <1>5, <1>6, SemConsts DEF SemInv, LockInv, Holding, HoldingPtable
<1>9. InsideInv'
  BY <1>1, <1>2, <1>3, <1>5 DEF SemInv, InsideInv
<1>10. \A j \in Sems : /\ Waiters(j)' = Waiters(j) /\ Entered(j)' = Entered(j)
                       /\ Signalled(j)' <=> Signalled(j)
  BY <1>1, <1>2, <1>5 DEF Waiters, Waits, Entered, Enters, Signalled
<1>11. RingInv' /\ CountInv' /\ (QueuedInv => QueuedInv')
  BY <1>1, <1>2, <1>5, <1>10, SemFrame, Zenon
<1> QED
  BY <1>4, <1>7, <1>8, <1>9, <1>11, Zenon DEF SemInv

\* The scheduler resumes a thread that was picked.
LEMMA ResumeInv ==
  ASSUME SemInv, NEW t \in Threads, Resume(t)
  PROVE  SemInv' /\ (QueuedInv => QueuedInv')
<1>1. /\ pc[t] = "w_asleep" /\ pc' = [pc EXCEPT ![t] = "w_reacquire"]
      /\ pstate[t] = "RUNNABLE" /\ pstate' = [pstate EXCEPT ![t] = "RUNNING"]
  BY Zenon DEF Resume, Goto
<1>2. UNCHANGED <<semvars, lock, ptlock, ncli, sem, inside>>
  BY Zenon DEF Resume
<1>3. UNCHANGED <<semstate, count, q, front, back, qcount, limit>>
  BY <1>2, Zenon DEF semvars
<1>4. SemTypeOK'
  BY <1>1, <1>2, <1>3, Zenon DEF SemInv, SemTypeOK, Places
<1>5. /\ pc'[t] = "w_reacquire" /\ pstate'[t] = "RUNNING"
      /\ \A u \in Threads \ {t} : pc'[u] = pc[u] /\ pstate'[u] = pstate[u]
  BY <1>1, Zenon DEF SemInv, SemTypeOK
<1>7. CallInv'
  BY <1>1, <1>2, <1>3, <1>5 DEF SemInv, CallInv, Depth
<1>8. LockInv'
  BY <1>1, <1>2, <1>5 DEF SemInv, LockInv, Holding, HoldingPtable
<1>9. InsideInv'
  BY <1>1, <1>2, <1>3, <1>5 DEF SemInv, InsideInv
<1>10. \A j \in Sems : /\ Waiters(j)' = Waiters(j) /\ Entered(j)' = Entered(j)
                       /\ Signalled(j)' <=> Signalled(j)
  BY <1>1, <1>2, <1>5 DEF Waiters, Waits, Entered, Enters, Signalled
<1>11. RingInv' /\ CountInv' /\ (QueuedInv => QueuedInv')
  BY <1>1, <1>2, <1>5, <1>10, SemFrame, Zenon
<1> QED
  BY <1>4, <1>7, <1>8, <1>9, <1>11, Zenon DEF SemInv

\* It takes the semaphore's lock again.
LEMMA SleepReacquireInv ==
  ASSUME SemInv, NEW t \in Threads, SleepReacquire(t)
  PROVE  SemInv' /\ (QueuedInv => QueuedInv')
<1>0. lock[sem[t]] = None /\ lock' = [lock EXCEPT ![sem[t]] = t]
  BY Zenon DEF SleepReacquire, Acquire
<1>1. /\ pc[t] = "w_reacquire" /\ pc' = [pc EXCEPT ![t] = "w_done"]
      /\ ncli' = [ncli EXCEPT ![t] = @ + 1]
  BY Zenon DEF SleepReacquire, Goto, Cli
<1>2. UNCHANGED <<semvars, ptlock, pstate, sem, inside>>
  BY Zenon DEF SleepReacquire
<1>3. UNCHANGED <<semstate, count, q, front, back, qcount, limit>>
  BY <1>2, Zenon DEF semvars
<1>4. SemTypeOK'
  <2>1. lock' \in [Sems -> Threads \cup {None}]
    BY <1>0, Zenon DEF SemInv, SemTypeOK
  <2> QED
    BY <1>1, <1>2, <1>3, <2>1 DEF SemInv, SemTypeOK, Places
<1>5. /\ pc'[t] = "w_done" /\ ncli'[t] = ncli[t] + 1
      /\ \A u \in Threads \ {t} : pc'[u] = pc[u] /\ ncli'[u] = ncli[u]
  BY <1>1, Zenon DEF SemInv, SemTypeOK
<1>6. /\ sem[t] \in Sems /\ lock'[sem[t]] = t
      /\ \A i \in Sems \ {sem[t]} : lock'[i] = lock[i]
  BY <1>0, <1>1 DEF SemInv, SemTypeOK, CallInv
<1>7. CallInv'
  BY <1>1, <1>2, <1>3, <1>5 DEF SemInv, CallInv, Depth
<1>8. LockInv'
  BY <1>0, <1>1, <1>2, <1>5, <1>6, SemConsts DEF SemInv, LockInv, Holding, HoldingPtable
<1>9. InsideInv'
  BY <1>1, <1>2, <1>3, <1>5 DEF SemInv, InsideInv
<1>10. \A j \in Sems : /\ Waiters(j)' = Waiters(j) /\ Entered(j)' = Entered(j)
                       /\ Signalled(j)' <=> Signalled(j)
  BY <1>1, <1>2, <1>5 DEF Waiters, Waits, Entered, Enters, Signalled
<1>11. RingInv' /\ CountInv' /\ (QueuedInv => QueuedInv')
  BY <1>1, <1>2, <1>5, <1>10, SemFrame, Zenon
<1> QED
  BY <1>4, <1>7, <1>8, <1>9, <1>11, Zenon DEF SemInv

\* sem_wait returns.
LEMMA WaitDoneInv ==
  ASSUME SemInv, NEW t \in Threads, WaitDone(t)
  PROVE  SemInv' /\ (QueuedInv => QueuedInv')
<1>0. /\ lock' = [lock EXCEPT ![sem[t]] = None]
      /\ inside' = [inside EXCEPT ![sem[t]] = @ \cup {t}]
  BY Zenon DEF WaitDone, Release
<1>1. /\ pc[t] = "w_done" /\ pc' = [pc EXCEPT ![t] = "idle"]
      /\ ncli' = [ncli EXCEPT ![t] = @ + -2] /\ sem' = [sem EXCEPT ![t] = None]
  BY Zenon DEF WaitDone, Goto, Cli
<1>2. UNCHANGED <<semvars, ptlock, pstate>>
  BY Zenon DEF WaitDone
<1>3. UNCHANGED <<semstate, count, q, front, back, qcount, limit>>
  BY <1>2, Zenon DEF semvars
<1>4. SemTypeOK'
  <2>1. lock' \in [Sems -> Threads \cup {None}] /\ inside' \in [Sems -> SUBSET Threads]
    BY <1>0 DEF SemInv, SemTypeOK
  <2> QED
    BY <1>1, <1>2, <1>3, <2>1 DEF SemInv, SemTypeOK, Places
<1>5. /\ pc'[t] = "idle" /\ ncli'[t] = ncli[t] - 2 /\ sem'[t] = None
      /\ \A u \in Threads \ {t} : pc'[u] = pc[u] /\ ncli'[u] = ncli[u] /\ sem'[u] = sem[u]
  BY <1>1, Zenon DEF SemInv, SemTypeOK
<1>6. /\ sem[t] \in Sems /\ lock[sem[t]] = t /\ lock'[sem[t]] = None
      /\ inside'[sem[t]] = inside[sem[t]] \cup {t}
      /\ \A i \in Sems \ {sem[t]} : lock'[i] = lock[i] /\ inside'[i] = inside[i]
  BY <1>0, <1>1 DEF SemInv, SemTypeOK, CallInv, LockInv, Holding
<1>7. CallInv'
  BY <1>1, <1>2, <1>3, <1>5 DEF SemInv, CallInv, Depth
<1>8. LockInv'
  BY <1>1, <1>2, <1>5, <1>6, SemConsts DEF SemInv, LockInv, Holding, HoldingPtable
<1>9. InsideInv'
  <2>1. semstate[sem[t]] = "USED" /\ t \notin inside[sem[t]]
    BY <1>1, <1>6, SemConsts, Zenon DEF SemInv, CallInv, InsideInv
  <2>2. /\ \A i \in Sems : inside[i] \subseteq Threads
        /\ \A u \in Threads : pc[u] = "s_acquire" => sem[u] \in Sems
    BY DEF SemInv, SemTypeOK, CallInv
  <2>3. ASSUME NEW i \in Sems, NEW u \in inside'[i]
        PROVE  semstate'[i] = "USED" /\ (sem'[u] = i => pc'[u] = "s_acquire")
    BY <1>3, <1>5, <1>6, <2>1, <2>2, <2>3, SemConsts DEF SemInv, InsideInv
  <2>4. \A u \in Threads : pc'[u] = "s_acquire" => u \in inside'[sem'[u]]
    BY <1>5, <1>6, <2>2 DEF SemInv, InsideInv
  <2> QED
    BY <2>3, <2>4, Zenon DEF InsideInv
<1>10. \A j \in Sems : /\ Waiters(j)' = Waiters(j) /\ Entered(j)' = Entered(j)
                       /\ Signalled(j)' <=> Signalled(j)
  <2>1. \A j \in Sems : Waiters(j)' = Waiters(j) /\ (Signalled(j)' <=> Signalled(j))
    BY <1>1, <1>2, <1>5, SemConsts DEF Waiters, Waits, Signalled
  <2>2. \A j \in Sems : Entered(j)' = Entered(j)
    BY <1>1, <1>2, <1>5, <1>6, SemConsts DEF Entered, Enters
  <2> QED
    BY <2>1, <2>2, Zenon
<1>11. RingInv' /\ CountInv' /\ (QueuedInv => QueuedInv')
  BY <1>1, <1>2, <1>5, <1>10, SemFrame, Zenon
<1> QED
  BY <1>4, <1>7, <1>8, <1>9, <1>11, Zenon DEF SemInv

\* A thread that is inside calls sem_signal.
LEMMA sem_signalInv ==
  ASSUME SemInv, NEW t \in Threads, NEW i \in Sems, sem_signal(t, i)
  PROVE  SemInv' /\ (QueuedInv => QueuedInv')
<1>0. t \in inside[i] /\ semstate[i] = "USED"
  BY Zenon DEF sem_signal, SemInv, SemTypeOK
<1>1. /\ pc[t] = "idle" /\ pc' = [pc EXCEPT ![t] = "s_acquire"]
      /\ ncli' = [ncli EXCEPT ![t] = @ + 1] /\ sem' = [sem EXCEPT ![t] = i]
  BY Zenon DEF sem_signal, Goto, Cli
<1>2. UNCHANGED <<semvars, lock, ptlock, pstate, inside>>
  BY Zenon DEF sem_signal
<1>3. UNCHANGED <<semstate, count, q, front, back, qcount, limit>>
  BY <1>2, Zenon DEF semvars
<1>4. SemTypeOK'
  BY <1>1, <1>2, <1>3 DEF SemInv, SemTypeOK, Places
<1>5. /\ pc'[t] = "s_acquire" /\ ncli'[t] = ncli[t] + 1 /\ sem'[t] = i
      /\ \A u \in Threads \ {t} : pc'[u] = pc[u] /\ ncli'[u] = ncli[u] /\ sem'[u] = sem[u]
  BY <1>1, Zenon DEF SemInv, SemTypeOK
<1>7. CallInv'
  BY <1>0, <1>1, <1>2, <1>3, <1>5, SemConsts DEF SemInv, CallInv, Depth
<1>8. LockInv'
  BY <1>1, <1>2, <1>5 DEF SemInv, LockInv, Holding, HoldingPtable
<1>9. InsideInv'
  <2>1. \A j \in Sems : inside[j] \subseteq Threads
    BY Zenon DEF SemInv, SemTypeOK
  <2> QED
    BY <1>0, <1>1, <1>2, <1>3, <1>5, <2>1 DEF SemInv, InsideInv
<1>10. \A j \in Sems : /\ Waiters(j)' = Waiters(j) /\ Entered(j)' = Entered(j)
                       /\ Signalled(j)' <=> Signalled(j)
  BY <1>1, <1>2, <1>5 DEF Waiters, Waits, Entered, Enters, Signalled
<1>11. RingInv' /\ CountInv' /\ (QueuedInv => QueuedInv')
  BY <1>1, <1>2, <1>5, <1>10, SemFrame, Zenon
<1> QED
  BY <1>4, <1>7, <1>8, <1>9, <1>11, Zenon DEF SemInv

\* sem_signal returns.
LEMMA SignalDoneInv ==
  ASSUME SemInv, NEW t \in Threads, SignalDone(t)
  PROVE  SemInv' /\ (QueuedInv => QueuedInv')
<1>0. lock' = [lock EXCEPT ![sem[t]] = None]
  BY Zenon DEF SignalDone, Release
<1>1. /\ pc[t] = "s_done" /\ pc' = [pc EXCEPT ![t] = "idle"]
      /\ ncli' = [ncli EXCEPT ![t] = @ + -2] /\ sem' = [sem EXCEPT ![t] = None]
  BY Zenon DEF SignalDone, Goto, Cli
<1>2. UNCHANGED <<semvars, ptlock, pstate, inside>>
  BY Zenon DEF SignalDone
<1>3. UNCHANGED <<semstate, count, q, front, back, qcount, limit>>
  BY <1>2, Zenon DEF semvars
<1>4. SemTypeOK'
  <2>1. lock' \in [Sems -> Threads \cup {None}]
    BY <1>0, Zenon DEF SemInv, SemTypeOK
  <2> QED
    BY <1>1, <1>2, <1>3, <2>1 DEF SemInv, SemTypeOK, Places
<1>5. /\ pc'[t] = "idle" /\ ncli'[t] = ncli[t] - 2 /\ sem'[t] = None
      /\ \A u \in Threads \ {t} : pc'[u] = pc[u] /\ ncli'[u] = ncli[u] /\ sem'[u] = sem[u]
  BY <1>1, Zenon DEF SemInv, SemTypeOK
<1>6. /\ sem[t] \in Sems /\ lock[sem[t]] = t /\ lock'[sem[t]] = None
      /\ \A i \in Sems \ {sem[t]} : lock'[i] = lock[i]
  BY <1>0, <1>1 DEF SemInv, SemTypeOK, CallInv, LockInv, Holding
<1>7. CallInv'
  BY <1>1, <1>2, <1>3, <1>5 DEF SemInv, CallInv, Depth
<1>8. LockInv'
  BY <1>1, <1>2, <1>5, <1>6, SemConsts DEF SemInv, LockInv, Holding, HoldingPtable
<1>9. InsideInv'
  <2>1. \A j \in Sems : inside[j] \subseteq Threads
    BY Zenon DEF SemInv, SemTypeOK
  <2> QED
    BY <1>1, <1>2, <1>3, <1>5, <2>1, SemConsts DEF SemInv, InsideInv
<1>10. \A j \in Sems : /\ Waiters(j)' = Waiters(j) /\ Entered(j)' = Entered(j)
                       /\ Signalled(j)' <=> Signalled(j)
  BY <1>1, <1>2, <1>5, SemConsts DEF Waiters, Waits, Entered, Enters, Signalled
<1>11. RingInv' /\ CountInv' /\ (QueuedInv => QueuedInv')
  BY <1>1, <1>2, <1>5, <1>10, SemFrame, Zenon
<1> QED
  BY <1>4, <1>7, <1>8, <1>9, <1>11, Zenon DEF SemInv

\* A semaphore that nobody is inside of and nobody is in a call on.
LEMMA NobodyThere ==
  ASSUME NEW i \in Sems, inside[i] = {}, \A t \in Threads : sem[t] # i
  PROVE  /\ Waiters(i) = {} /\ Entered(i) = {} /\ ~Signalled(i)
BY Zenon DEF Waiters, Entered, Signalled

\* The first UNUSED semaphore becomes an empty one; nobody is left over from
\* its last use.
LEMMA sem_initializeInv ==
  ASSUME Counting, SemInv, NEW t \in Threads, NEW n \in InitCounts, sem_initialize(t, n)
  PROVE  SemInv' /\ (QueuedInv => QueuedInv')
<1>1. PICK i \in Sems :
        /\ semstate[i] = "UNUSED" /\ semstate' = [semstate EXCEPT ![i] = "USED"]
        /\ lock' = [lock EXCEPT ![i] = None] /\ count' = [count EXCEPT ![i] = n]
        /\ limit' = [limit EXCEPT ![i] = n]
        /\ q' = [q EXCEPT ![i] = [r \in Ring |-> None]]
        /\ front' = [front EXCEPT ![i] = 0] /\ back' = [back EXCEPT ![i] = -1]
        /\ qcount' = [qcount EXCEPT ![i] = 0]
  BY Zenon DEF sem_initialize
<1>2. UNCHANGED <<ptlock, pstate, ncli, pc, sem, inside>>
  BY Zenon DEF sem_initialize
<1>3. n \in Nat /\ MAXQ \in Nat /\ MAXQ >= 1 /\ 0 \in Ring
  BY SemConsts DEF Ring
<1>4. SemTypeOK'
  <2>1. /\ semstate' \in [Sems -> {"UNUSED", "USED"}]
        /\ count' \in [Sems -> Int] /\ limit' \in [Sems -> Nat]
        /\ lock' \in [Sems -> Threads \cup {None}]
    BY <1>1, <1>3 DEF SemInv, SemTypeOK
  <2>2. /\ q' \in [Sems -> [Ring -> Threads \cup {None}]]
        /\ front' \in [Sems -> Ring] /\ back' \in [Sems -> -1 .. MAXQ - 1]
        /\ qcount' \in [Sems -> 0 .. MAXQ]
    BY <1>1, <1>3 DEF SemInv, SemTypeOK
  <2> QED
    BY <1>2, <2>1, <2>2, Zenon DEF SemInv, SemTypeOK
<1>5. /\ semstate'[i] = "USED" /\ lock'[i] = None /\ count'[i] = n /\ limit'[i] = n
      /\ front'[i] = 0 /\ back'[i] = -1 /\ qcount'[i] = 0
  BY <1>1, Zenon DEF SemInv, SemTypeOK
<1>6. \A j \in Sems \ {i} :
        /\ semstate'[j] = semstate[j] /\ lock'[j] = lock[j] /\ count'[j] = count[j]
        /\ q'[j] = q[j] /\ front'[j] = front[j] /\ back'[j] = back[j]
        /\ qcount'[j] = qcount[j] /\ limit'[j] = limit[j]
  BY <1>1, Zenon DEF SemInv, SemTypeOK
<1>7. CallInv'
  BY <1>2, <1>5, <1>6 DEF SemInv, SemTypeOK, CallInv, Depth
<1>8. inside[i] = {} /\ \A u \in Threads : sem[u] # i
  BY <1>1, SemConsts DEF SemInv, CallInv, InsideInv
<1>9. LockInv' /\ InsideInv'
  <2>1. LockInv'
    BY <1>2, <1>5, <1>6, <1>8, SemConsts DEF SemInv, LockInv, Holding, HoldingPtable
  <2>2. InsideInv'
    BY <1>2, <1>5, <1>6, <1>8 DEF SemInv, InsideInv
  <2> QED
    BY <2>1, <2>2, Zenon
<1>10. \A j \in Sems : /\ Waiters(j)' = Waiters(j) /\ Entered(j)' = Entered(j)
                       /\ Signalled(j)' <=> Signalled(j)
  BY <1>2, Zenon DEF Waiters, Waits, Entered, Enters, Signalled
<1>11. ASSUME NEW j \in Sems, j # i
       PROVE  RingOK(j)' /\ CountOK(j)' /\ (QueuedOK(j) => QueuedOK(j)')
  BY <1>2, <1>6, <1>10, <1>11, OtherSem, Zenon
<1>12. RingOK(i)' /\ CountOK(i)' /\ QueuedOK(i)'
  <2>1. Waiters(i)' = {} /\ Entered(i)' = {} /\ ~Signalled(i)'
    BY <1>8, <1>10, NobodyThere, Zenon
  <2>2. RingOK(i)'
    BY <1>3, <1>5 DEF RingOK, NewBack, RingSlot
  <2>3. CountOK(i)'
    BY <1>3, <1>5, <2>1 DEF CountOK, Counting
  <2>4. QueuedOK(i)'
    BY <2>1, Zenon DEF QueuedOK
  <2> QED
    BY <2>2, <2>3, <2>4, Zenon
<1> QED
  BY <1>4, <1>7, <1>9, <1>11, <1>12, Zenon DEF SemInv, RingInv, CountInv, QueuedInv

\* sem_free of a semaphore that nobody uses.
LEMMA sem_freeInv ==
  ASSUME SemInv, NEW t \in Threads, NEW i \in Sems, sem_free(t, i)
  PROVE  SemInv' /\ (QueuedInv => QueuedInv')
<1>1. /\ inside[i] = {} /\ \A u \in Threads : sem[u] # i
      /\ semstate' = [semstate EXCEPT ![i] = "UNUSED"]
  BY Zenon DEF sem_free
<1>2. UNCHANGED <<count, q, front, back, qcount, limit, lock, ptlock, pstate, ncli,
                  pc, sem, inside>>
  BY Zenon DEF sem_free
<1>4. SemTypeOK'
  BY <1>1, <1>2, Zenon DEF SemInv, SemTypeOK
<1>5. semstate'[i] = "UNUSED" /\ \A j \in Sems \ {i} : semstate'[j] = semstate[j]
  BY <1>1, Zenon DEF SemInv, SemTypeOK
<1>7. CallInv'
  BY <1>1, <1>2, <1>5 DEF SemInv, SemTypeOK, CallInv, Depth
<1>8. LockInv' /\ InsideInv'
  BY <1>1, <1>2, <1>5 DEF SemInv, LockInv, InsideInv, Holding, HoldingPtable
<1>10. \A j \in Sems : /\ Waiters(j)' = Waiters(j) /\ Entered(j)' = Entered(j)
                       /\ Signalled(j)' <=> Signalled(j)
  BY <1>2, Zenon DEF Waiters, Waits, Entered, Enters, Signalled
<1>11. ASSUME NEW j \in Sems, j # i
       PROVE  RingOK(j)' /\ CountOK(j)' /\ (QueuedOK(j) => QueuedOK(j)')
  BY <1>2, <1>5, <1>10, <1>11, OtherSem, Zenon
<1>12. RingOK(i)' /\ CountOK(i)' /\ QueuedOK(i)'
  BY <1>5, Zenon DEF RingOK, CountOK, QueuedOK
<1> QED
  BY <1>4, <1>7, <1>8, <1>11, <1>12, Zenon DEF SemInv, RingInv, CountInv, QueuedInv

\* The sets of the counting argument are sets of threads, and disjoint.
LEMMA EnteredAndWaiters ==
  ASSUME Counting, SemInv, NEW i \in Sems
  PROVE  /\ Waiters(i) \in SUBSET Threads /\ Entered(i) \in SUBSET Threads
         /\ Waiters(i) \cap Entered(i) = {}
         /\ Cardinality(Waiters(i)) \in Nat /\ Cardinality(Entered(i)) \in Nat
         /\ count[i] \in Int /\ limit[i] \in Nat
<1>1. Waiters(i) \in SUBSET Threads /\ Entered(i) \in SUBSET Threads
  BY Zenon DEF SemInv, SemTypeOK, Waiters, Entered
<1>2. Waiters(i) \cap Entered(i) = {}
  BY Zenon DEF SemInv, InsideInv, Waiters, Waits, Entered, Enters
<1>3. count[i] \in Int /\ limit[i] \in Nat
  BY Zenon DEF SemInv, SemTypeOK
<1> QED
  BY <1>1, <1>2, <1>3, Zenon DEF Counting

\* sem_wait counts the thread, and lets it in or turns it away.
LEMMA WaitAcquireInv ==
  ASSUME Counting, SemInv, NEW t \in Threads, WaitAcquire(t)
  PROVE  SemInv' /\ (QueuedInv => QueuedInv')
<1>3. PICK i \in Sems : i = sem[t] /\ semstate[i] = "USED"
  BY DEF WaitAcquire, SemInv, SemTypeOK, CallInv
<1>to. PICK to \in {"w_ptable", "w_done"} : to = IF MustSleep(i) THEN "w_ptable" ELSE "w_done"
  BY Zenon
<1>0. lock[i] = None /\ lock' = [lock EXCEPT ![i] = t] /\ count' = [count EXCEPT ![i] = @ - 1]
  BY <1>3, Zenon DEF WaitAcquire, Acquire
<1>1. /\ pc[t] = "w_acquire" /\ pc' = [pc EXCEPT ![t] = to]
      /\ ncli' = [ncli EXCEPT ![t] = @ + 1]
  BY <1>3, <1>to, Zenon DEF WaitAcquire, Cli
<1>2. UNCHANGED <<semstate, q, front, back, qcount, limit, ptlock, pstate, sem, inside>>
  BY Zenon DEF WaitAcquire
<1>4. SemTypeOK'
  <2>1. lock' \in [Sems -> Threads \cup {None}] /\ count' \in [Sems -> Int]
    BY <1>0, <1>3 DEF SemInv, SemTypeOK
  <2>2. pc' \in [Threads -> Places] /\ ncli' \in [Threads -> Int]
    BY <1>1 DEF SemInv, SemTypeOK, Places
  <2> QED
    BY <1>2, <2>1, <2>2, Zenon DEF SemInv, SemTypeOK
<1>5. /\ pc'[t] = to /\ ncli'[t] = ncli[t] + 1
      /\ \A u \in Threads \ {t} : pc'[u] = pc[u] /\ ncli'[u] = ncli[u]
  BY <1>1, Zenon DEF SemInv, SemTypeOK
<1>6. /\ lock'[i] = t /\ count'[i] = count[i] - 1
      /\ \A j \in Sems \ {i} : lock'[j] = lock[j] /\ count'[j] = count[j]
  BY <1>0, <1>3, Zenon DEF SemInv, SemTypeOK
<1>7. CallInv'
  BY <1>1, <1>2, <1>3, <1>5 DEF SemInv, CallInv, Depth
<1>8. LockInv'
  BY <1>0, <1>1, <1>2, <1>3, <1>5, <1>6, SemConsts
  DEF SemInv, LockInv, Holding, HoldingPtable
<1>9. InsideInv'
  BY <1>1, <1>2, <1>3, <1>5 DEF SemInv, InsideInv
<1>10. ASSUME NEW j \in Sems, j # i
       PROVE  RingOK(j)' /\ CountOK(j)' /\ (QueuedOK(j) => QueuedOK(j)')
  <2>1. /\ Waiters(j)' = Waiters(j) /\ Entered(j)' = Entered(j)
        /\ Signalled(j)' <=> Signalled(j)
    BY <1>1, <1>2, <1>3, <1>5, <1>10, Zenon DEF Waiters, Waits, Entered, Enters, Signalled
  <2>2. t \notin Waiters(j)
    BY <1>3, <1>10, Zenon DEF Waiters
  <2> QED
    BY <1>2, <1>5, <1>6, <1>10, <2>1, <2>2, OtherSem, Zenon DEF Waiters
<1>11. /\ Waiters(i)' = IF to = "w_ptable" THEN Waiters(i) \cup {t} ELSE Waiters(i)
       /\ Entered(i)' = IF to = "w_ptable" THEN Entered(i) ELSE Entered(i) \cup {t}
       /\ t \notin Waiters(i) /\ ~Signalled(i) /\ ~Signalled(i)'
  <2>1. /\ Waiters(i)' = IF to = "w_ptable" THEN Waiters(i) \cup {t} ELSE Waiters(i)
        /\ Entered(i)' = IF to = "w_ptable" THEN Entered(i) ELSE Entered(i) \cup {t}
        /\ t \notin Waiters(i)
    BY ONLY <1>1, <1>2, <1>3, <1>5 DEF Waiters, Waits, Entered, Enters
  <2>2. ~Signalled(i) /\ ~Signalled(i)'
    BY <1>0, <1>1, <1>2, <1>3, <1>5, SemConsts DEF SemInv, LockInv, Holding, Signalled
  <2> QED
    BY <2>1, <2>2, Zenon
<1>12. t \notin Entered(i)
  BY <1>1, <1>3, Zenon DEF SemInv, InsideInv, Entered, Enters
<1>13. /\ Cardinality(Waiters(i)') = Cardinality(Waiters(i)) + IF to = "w_ptable" THEN 1 ELSE 0
       /\ Cardinality(Entered(i)') = Cardinality(Entered(i)) + IF to = "w_ptable" THEN 0 ELSE 1
  BY <1>3, <1>11, <1>12, EnteredAndWaiters, ThreadComes
<1>14. /\ limit[i] \in InitCounts /\ Cardinality(Entered(i)) <= limit[i]
       /\ Cardinality(Entered(i)) + Cardinality(Waiters(i)) + count[i] = limit[i]
  BY <1>3, Zenon DEF SemInv, CountInv, CountOK
<1>15. to = "w_ptable" <=> count[i] <= 0
  BY <1>to, Zenon DEF MustSleep
<1>n. /\ Cardinality(Waiters(i)) \in Nat /\ Cardinality(Entered(i)) \in Nat
      /\ limit[i] \in Nat /\ count[i] \in Int
  BY EnteredAndWaiters, Zenon
<1>16. CountOK(i)'
  <2>1. limit'[i] = limit[i] /\ count'[i] = count[i] - 1
    BY ONLY <1>2, <1>6, Zenon
  <2>2. /\ Cardinality(Entered(i)') + Cardinality(Waiters(i)') + (count[i] - 1) = limit[i]
        /\ Cardinality(Entered(i)') <= limit[i]
    BY ONLY <1>13, <1>14, <1>15, <1>n
  <2> QED
    BY <1>11, <1>14, <2>1, <2>2, Zenon DEF CountOK
<1>17. RingOK(i)'
  <2>1. RingOK(i) /\ qcount[i] \in Nat
    BY <1>3 DEF SemInv, SemTypeOK, RingInv
  <2>2. /\ NewBack(i)' = NewBack(i)
        /\ \A k \in Int : RingSlot(i, k)' = RingSlot(i, k)
    BY <1>2, <1>3, Zenon DEF NewBack, RingSlot
  <2>3. \A u \in Waiters(i) : u \in Waiters(i)' /\ pc'[u] = pc[u]
    BY <1>5, <1>11, Zenon DEF Waiters
  <2> QED
    BY <1>2, <2>1, <2>2, <2>3 DEF RingOK
<1>18. ASSUME QueuedOK(i) PROVE QueuedOK(i)'
  <2>1. \A u \in Waiters(i)' : pc'[u] # "w_ptable" =>
          \E k \in 0 .. qcount'[i] - 1 : q'[i][RingSlot(i, k)'] = u
    <3>1. \A u \in Waiters(i) : pc[u] # "w_ptable" =>
            \E k \in 0 .. qcount[i] - 1 : q[i][RingSlot(i, k)] = u
      BY <1>3, <1>18, Zenon DEF QueuedOK
    <3>2. \A u \in Waiters(i)' : pc'[u] # "w_ptable" => u \in Waiters(i) /\ pc'[u] = pc[u]
      BY <1>5, <1>11, Zenon DEF Waiters
    <3>3. \A k \in Int : RingSlot(i, k)' = RingSlot(i, k)
      BY <1>2, <1>3, Zenon DEF RingSlot
    <3> QED
      BY ONLY <1>2, <1>3, <3>1, <3>2, <3>3
  <2>2. ASSUME Waiters(i)' # {} PROVE Cardinality(Entered(i)') = limit'[i]
    <3>1. Waiters(i) # {} => Cardinality(Entered(i)) = limit[i]
      BY <1>3, <1>11, <1>18, EnteredAndWaiters DEF QueuedOK
    <3>2. Waiters(i) = {} => Cardinality(Waiters(i)) = 0
      BY Zenon DEF Counting
    <3>3. limit'[i] = limit[i] /\ (Waiters(i) = {} => to = "w_ptable")
      BY <1>2, <1>11, <2>2, Zenon
    <3> QED
      BY ONLY <1>13, <1>14, <1>15, <1>n, <3>1, <3>2, <3>3
  <2> QED
    BY <1>3, <1>2, <1>11, <2>1, <2>2, EnteredAndWaiters DEF QueuedOK
<1> QED
  BY <1>3, <1>4, <1>7, <1>8, <1>9, <1>10, <1>16, <1>17, <1>18, Zenon
  DEF SemInv, RingInv, CountInv, QueuedInv

\* sem_signal counts the thread out.
LEMMA SignalAcquireInv ==
  ASSUME Counting, SemInv, NEW t \in Threads, SignalAcquire(t)
  PROVE  SemInv' /\ (QueuedInv => QueuedInv')
<1>3. PICK i \in Sems : i = sem[t] /\ semstate[i] = "USED" /\ t \in inside[i]
  BY DEF SignalAcquire, Goto, SemInv, SemTypeOK, CallInv, InsideInv
<1>0. /\ lock[i] = None /\ lock' = [lock EXCEPT ![i] = t]
      /\ count' = [count EXCEPT ![i] = @ + 1] /\ inside' = [inside EXCEPT ![i] = @ \ {t}]
  BY <1>3, Zenon DEF SignalAcquire, Acquire
<1>1. /\ pc[t] = "s_acquire" /\ pc' = [pc EXCEPT ![t] = "s_wakeup"]
      /\ ncli' = [ncli EXCEPT ![t] = @ + 1]
  BY Zenon DEF SignalAcquire, Goto, Cli
<1>2. UNCHANGED <<semstate, q, front, back, qcount, limit, ptlock, pstate, sem>>
  BY Zenon DEF SignalAcquire
<1>4. SemTypeOK'
  <2>1. lock' \in [Sems -> Threads \cup {None}] /\ count' \in [Sems -> Int]
    BY <1>0, <1>3 DEF SemInv, SemTypeOK
  <2>2. /\ pc' \in [Threads -> Places] /\ ncli' \in [Threads -> Int]
        /\ inside' \in [Sems -> SUBSET Threads]
    BY <1>0, <1>1 DEF SemInv, SemTypeOK, Places
  <2> QED
    BY <1>2, <2>1, <2>2, Zenon DEF SemInv, SemTypeOK
<1>5. /\ pc'[t] = "s_wakeup" /\ ncli'[t] = ncli[t] + 1
      /\ \A u \in Threads \ {t} : pc'[u] = pc[u] /\ ncli'[u] = ncli[u]
  BY <1>1, Zenon DEF SemInv, SemTypeOK
<1>6. /\ lock'[i] = t /\ count'[i] = count[i] + 1 /\ inside'[i] = inside[i] \ {t}
      /\ \A j \in Sems \ {i} : /\ lock'[j] = lock[j] /\ count'[j] = count[j]
                               /\ inside'[j] = inside[j]
  BY <1>0, <1>3, Zenon DEF SemInv, SemTypeOK
<1>7. CallInv'
  BY <1>1, <1>2, <1>3, <1>5 DEF SemInv, CallInv, Depth
<1>8. LockInv'
  BY <1>0, <1>1, <1>2, <1>3, <1>5, <1>6, SemConsts
  DEF SemInv, LockInv, Holding, HoldingPtable
<1>9. InsideInv'
  <2>1. /\ \A j \in Sems : inside[j] \subseteq Threads /\ inside'[j] \subseteq inside[j]
        /\ t \notin inside'[i]
    BY <1>6, Zenon DEF SemInv, SemTypeOK
  <2>2. \A u \in Threads : pc'[u] = "s_acquire" => u \in inside'[sem'[u]]
    <3>1. \A u \in Threads : pc[u] = "s_acquire" => sem[u] \in Sems
      BY DEF SemInv, SemTypeOK, CallInv
    <3> QED
      BY <1>2, <1>5, <1>6, <3>1 DEF SemInv, InsideInv
  <2>3. ASSUME NEW j \in Sems, NEW u \in inside'[j]
        PROVE  semstate'[j] = "USED" /\ (sem'[u] = j => pc'[u] = "s_acquire")
    <3>1. u \in Threads /\ u \in inside[j]
      BY <2>1, <2>3, Zenon
    <3>2. semstate[j] = "USED" /\ (sem[u] = j => pc[u] = "s_acquire")
      BY <3>1, Zenon DEF SemInv, InsideInv
    <3>3. CASE u = t
      BY <1>2, <1>3, <2>1, <2>3, <3>2, <3>3, Zenon
    <3>4. CASE u # t
      BY <1>2, <1>5, <3>1, <3>2, <3>4, Zenon
    <3> QED
      BY <3>3, <3>4, Zenon
  <2> QED
    BY <2>2, <2>3, Zenon DEF InsideInv
<1>10. ASSUME NEW j \in Sems, j # i
       PROVE  RingOK(j)' /\ CountOK(j)' /\ (QueuedOK(j) => QueuedOK(j)')
  <2>1. /\ Waiters(j)' = Waiters(j) /\ Entered(j)' = Entered(j)
        /\ Signalled(j)' <=> Signalled(j)
    <3>1. \A u \in Threads : sem[u] = j => u \in Threads \ {t}
      BY <1>3, <1>10, Zenon
    <3>2. \A u \in Threads : sem[u] = j => pc'[u] = pc[u] /\ pstate'[u] = pstate[u] /\ sem'[u] = sem[u]
      BY <1>2, <1>5, <3>1, Zenon
    <3>3. inside'[j] = inside[j] /\ sem' = sem
      BY <1>2, <1>6, <1>10, Zenon
    <3> QED
      BY ONLY <3>2, <3>3 DEF Waiters, Waits, Entered, Enters, Signalled
  <2> QED
    BY <1>1, <1>2, <1>5, <1>6, <1>10, <2>1, OtherSem, Zenon DEF Waiters
<1>11. /\ Waiters(i)' = Waiters(i) /\ Entered(i)' = Entered(i) \ {t} /\ t \in Entered(i)
       /\ ~Signalled(i) /\ Signalled(i)'
  <2>1. Waiters(i)' = Waiters(i) /\ Entered(i)' = Entered(i) \ {t} /\ t \in Entered(i)
    BY <1>1, <1>2, <1>3, <1>5, <1>6 DEF Waiters, Waits, Entered, Enters
  <2>2. ~Signalled(i) /\ Signalled(i)'
    BY <1>0, <1>1, <1>2, <1>3, <1>5, SemConsts DEF SemInv, LockInv, Holding, Signalled
  <2> QED
    BY <2>1, <2>2, Zenon
<1>12. Cardinality(Entered(i)') = Cardinality(Entered(i)) - 1
  BY <1>11, EnteredAndWaiters, ThreadGoes, Zenon
<1>13. /\ limit[i] \in InitCounts /\ Cardinality(Entered(i)) <= limit[i]
       /\ Cardinality(Entered(i)) + Cardinality(Waiters(i)) + count[i] = limit[i]
  BY <1>3, Zenon DEF SemInv, CountInv, CountOK
<1>14. CountOK(i)'
  <2>1. limit'[i] = limit[i] /\ count'[i] = count[i] + 1 /\ Cardinality(Waiters(i)') = Cardinality(Waiters(i))
    BY <1>2, <1>6, <1>11, Zenon
  <2>2. /\ Cardinality(Waiters(i)) \in Nat /\ Cardinality(Entered(i)) \in Nat
        /\ count[i] \in Int /\ limit[i] \in Nat
    BY EnteredAndWaiters, Zenon
  <2>3. /\ Cardinality(Entered(i)') + Cardinality(Waiters(i)') + count'[i] = limit'[i]
        /\ Cardinality(Entered(i)') < limit'[i] /\ Cardinality(Entered(i)') <= limit'[i]
    BY ONLY <1>12, <1>13, <2>1, <2>2
  <2> QED
    BY <1>2, <1>13, <2>3, Zenon DEF CountOK
<1>15. /\ NewBack(i)' = NewBack(i)
       /\ \A k \in Int : RingSlot(i, k)' = RingSlot(i, k)
  BY <1>2, Zenon DEF NewBack, RingSlot
<1>16. \A u \in Waiters(i) : pc'[u] = pc[u]
  BY <1>1, <1>5, Zenon DEF Waiters, Waits
<1>q. qcount[i] \in Nat
  <2>1. qcount[i] \in 0 .. MAXQ
    BY Zenon DEF SemInv, SemTypeOK
  <2> QED
    BY ONLY <2>1, SemConsts
<1>17. RingOK(i)'
  <2>1. RingOK(i)
    BY Zenon DEF SemInv, RingInv
  <2> QED
    BY ONLY <1>2, <1>11, <1>15, <1>16, <1>q, <2>1 DEF RingOK
<1>18. ASSUME QueuedOK(i) PROVE QueuedOK(i)'
  <2>1. \A u \in Waiters(i) : pc[u] # "w_ptable" =>
          \E k \in 0 .. qcount[i] - 1 : q[i][RingSlot(i, k)] = u
    BY <1>3, <1>18, Zenon DEF QueuedOK
  <2>2. \A u \in Waiters(i)' : pc'[u] # "w_ptable" =>
          \E k \in 0 .. qcount'[i] - 1 : q'[i][RingSlot(i, k)'] = u
    <3>1. \A k \in 0 .. qcount[i] - 1 : RingSlot(i, k)' = RingSlot(i, k)
      BY ONLY <1>15, <1>q
    <3> QED
      BY <1>2, <1>11, <1>16, <2>1, <3>1, Zenon
  <2>3. Waiters(i) # {} => Cardinality(Entered(i)) = limit[i]
    <3>1. Waiters(i) # {} => Cardinality(Entered(i)) = limit[i] - 0
      BY <1>3, <1>11, <1>18, Zenon DEF QueuedOK
    <3>2. limit[i] \in Nat
      BY EnteredAndWaiters, Zenon
    <3> QED
      BY ONLY <3>1, <3>2
  <2> QED
    BY <1>2, <1>11, <1>12, <2>2, <2>3, Zenon DEF QueuedOK
<1> QED
  BY <1>4, <1>7, <1>8, <1>9, <1>10, <1>14, <1>17, <1>18, Zenon
  DEF SemInv, RingInv, CountInv, QueuedInv
=============================================================================
