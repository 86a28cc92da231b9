---------------------------- MODULE ThreadProofs ----------------------------
(***************************************************************************)
(* Machine-checked proofs about the two thread libraries: Semaphore, for   *)
(* every number of threads, semaphores and ring slots, and Uthread, for    *)
(* every table size.  Here are the steps that push a waiter into the ring  *)
(* and pop one, the theorems about Semaphore and, from the section on user *)
(* threads on, the proofs about Uthread.  Facts about finite sets are      *)
(* instantiated where the first proof needs one.                           *)
(***************************************************************************)
EXTENDS SemaphoreInvariant, Uthread

\* A waiter's place in the ring: behind the others when there is room.
LEMMA PushedBack ==
  ASSUME SemInv, NEW i \in Sems, semstate[i] = "USED", qcount[i] # MAXQ,
         NEW t \in Threads, push_back(i, t), front' = front
  PROVE  /\ q' \in [Sems -> [Ring -> Threads \cup {None}]]
         /\ back' \in [Sems -> -1 .. MAXQ - 1] /\ qcount' \in [Sems -> 0 .. MAXQ]
         /\ \A j \in Sems \ {i} : q'[j] = q[j] /\ back'[j] = back[j] /\ qcount'[j] = qcount[j]
         /\ qcount'[i] = qcount[i] + 1
         /\ NewBack(i)' = RingSlot(i, qcount[i] + 1)
         /\ q'[i][RingSlot(i, qcount[i])] = t
         /\ \A k \in 0 .. qcount[i] - 1 : q'[i][RingSlot(i, k)] = q[i][RingSlot(i, k)]
<1>1. /\ q' = [q EXCEPT ![i][NewBack(i)] = t] /\ back' = [back EXCEPT ![i] = NewBack(i)]
      /\ qcount' = [qcount EXCEPT ![i] = @ + 1]
  BY Zenon DEF push_back
<1>2. /\ front[i] \in 0 .. MAXQ - 1 /\ back[i] \in -1 .. MAXQ - 1
      /\ qcount[i] \in 0 .. MAXQ - 1 /\ MAXQ \in Nat /\ MAXQ >= 1
  BY SemConsts DEF SemInv, SemTypeOK, Ring
<1>3. NewBack(i) \in 0 .. MAXQ - 1 /\ NewBack(i) = RingSlot(i, qcount[i])
  BY <1>2 DEF SemInv, RingInv, RingOK, NewBack
<1>4. \A k \in 0 .. qcount[i] - 1 : RingSlot(i, k) # NewBack(i) /\ RingSlot(i, k) \in 0 .. MAXQ - 1
  BY <1>2, <1>3 DEF RingSlot
<1>5. /\ q' \in [Sems -> [Ring -> Threads \cup {None}]]
      /\ \A j \in Sems \ {i} : q'[j] = q[j]
      /\ q'[i][NewBack(i)] = t
      /\ \A r \in Ring : r # NewBack(i) => q'[i][r] = q[i][r]
  <2>1. q \in [Sems -> [Ring -> Threads \cup {None}]] /\ NewBack(i) \in Ring
    BY <1>3, Zenon DEF SemInv, SemTypeOK, Ring
  <2> QED
    BY <1>1, <2>1, Zenon
<1>6. /\ back' \in [Sems -> -1 .. MAXQ - 1] /\ qcount' \in [Sems -> 0 .. MAXQ]
      /\ \A j \in Sems \ {i} : back'[j] = back[j] /\ qcount'[j] = qcount[j]
      /\ qcount'[i] = qcount[i] + 1 /\ back'[i] = NewBack(i)
  <2>1. back \in [Sems -> -1 .. MAXQ - 1] /\ qcount \in [Sems -> 0 .. MAXQ]
    BY Zenon DEF SemInv, SemTypeOK
  <2> QED
    BY <1>1, <1>2, <1>3, <2>1
<1>7. NewBack(i)' = RingSlot(i, qcount[i] + 1)
  <2>1. NewBack(i)' = (IF back'[i] = MAXQ - 1 THEN -1 ELSE back'[i]) + 1
    BY Zenon DEF NewBack
  <2> QED
    BY <1>2, <1>3, <1>6, <2>1 DEF RingSlot
<1> QED
  BY <1>3, <1>4, <1>5, <1>6, <1>7, Zenon DEF Ring

\* A waiter on its way into the ring finds a slot.
Fits ==
  \A i \in Sems : \A t \in Waiters(i) :
    semstate[i] = "USED" /\ pc[t] = "w_ptable" => qcount[i] # MAXQ

\* A waiter enters the queue, or is dropped from it.
LEMMA SleepPtableInv ==
  ASSUME SemInv, NEW t \in Threads, SleepPtable(t)
  PROVE  SemInv' /\ (QueuedInv /\ Fits => QueuedInv')
<1>3. PICK i \in Sems : i = sem[t] /\ semstate[i] = "USED"
  BY Zenon DEF SleepPtable, Goto, SemInv, SemTypeOK, CallInv
<1>0. push_back(i, t)
  BY <1>3, Zenon DEF SleepPtable
<1>1. /\ pc[t] = "w_ptable" /\ pc' = [pc EXCEPT ![t] = "w_release"]
      /\ ncli' = [ncli EXCEPT ![t] = @ + 1] /\ ptlock = None /\ ptlock' = t
  BY Zenon DEF SleepPtable, Goto, Cli
<1>2. UNCHANGED <<semstate, count, front, limit, lock, pstate, sem, inside>>
  BY Zenon DEF SleepPtable
<1>4. SemTypeOK'
  <2>1. /\ q' \in [Sems -> [Ring -> Threads \cup {None}]]
        /\ back' \in [Sems -> -1 .. MAXQ - 1] /\ qcount' \in [Sems -> 0 .. MAXQ]
    <3>1. CASE qcount[i] = MAXQ
      BY <1>0, <3>1, Zenon DEF push_back, SemInv, SemTypeOK
    <3>2. CASE qcount[i] # MAXQ
      BY <1>0, <1>2, <1>3, <3>2, PushedBack, Zenon
    <3> QED
      BY <3>1, <3>2, Zenon
  <2>2. pc' \in [Threads -> Places] /\ ncli' \in [Threads -> Int]
    BY <1>1 DEF SemInv, SemTypeOK, Places
  <2> QED
    BY <1>1, <1>2, <2>1, <2>2, Zenon DEF SemInv, SemTypeOK
<1>5. /\ pc'[t] = "w_release" /\ ncli'[t] = ncli[t] + 1
      /\ \A u \in Threads \ {t} : pc'[u] = pc[u] /\ ncli'[u] = ncli[u]
  BY <1>1, Zenon DEF SemInv, SemTypeOK
<1>6. \A j \in Sems \ {i} : q'[j] = q[j] /\ back'[j] = back[j] /\ qcount'[j] = qcount[j]
  <2>1. CASE qcount[i] = MAXQ
    BY <1>0, <2>1, Zenon DEF push_back
  <2>2. CASE qcount[i] # MAXQ
    BY <1>0, <1>2, <1>3, <2>2, PushedBack, Zenon
  <2> QED
    BY <2>1, <2>2, Zenon
<1>7. CallInv'
  BY <1>1, <1>2, <1>3, <1>5 DEF SemInv, CallInv, Depth
<1>8. LockInv'
  BY <1>1, <1>2, <1>3, <1>5, SemConsts DEF SemInv, LockInv, Holding, HoldingPtable
<1>9. InsideInv'
  BY <1>1, <1>2, <1>5 DEF SemInv, InsideInv
<1>10. \A j \in Sems : /\ Waiters(j)' = Waiters(j) /\ Entered(j)' = Entered(j)
                       /\ Signalled(j)' <=> Signalled(j)
  BY <1>1, <1>2, <1>5 DEF Waiters, Waits, Entered, Enters, Signalled
<1>11. ASSUME NEW j \in Sems, j # i
       PROVE  RingOK(j)' /\ CountOK(j)' /\ (QueuedOK(j) => QueuedOK(j)')
  <2>1. t \notin Waiters(j)
    BY <1>3, <1>11, Zenon DEF Waiters
  <2> QED
    BY <1>2, <1>5, <1>6, <1>10, <1>11, <2>1, OtherSem, Zenon DEF Waiters
<1>12. CountOK(i)'
  BY <1>2, <1>10, Zenon DEF SemInv, CountInv, CountOK
<1>13. t \in Waiters(i) /\ Waiters(i) \subseteq Threads
  BY <1>1, <1>3, Zenon DEF Waiters, Waits
<1>14. RingOK(i) /\ qcount[i] \in Nat /\ \A k \in Int : RingSlot(i, k)' = RingSlot(i, k)
  BY <1>2 DEF SemInv, SemTypeOK, RingInv, RingSlot
<1>15. CASE qcount[i] = MAXQ
  <2>1. q' = q /\ back' = back /\ qcount' = qcount /\ NewBack(i)' = NewBack(i)
    BY <1>0, <1>15, Zenon DEF push_back, NewBack
  <2>2. RingOK(i)'
    BY <1>2, <1>5, <1>10, <1>13, <1>14, <2>1 DEF RingOK
  <2>3. ~(QueuedInv /\ Fits)
    BY <1>1, <1>3, <1>13, <1>15, Zenon DEF Fits
  <2> QED
    BY <1>4, <1>7, <1>8, <1>9, <1>11, <1>12, <2>2, <2>3, Zenon DEF SemInv, RingInv, CountInv
<1>16. CASE qcount[i] # MAXQ
  <2>1. /\ qcount'[i] = qcount[i] + 1 /\ NewBack(i)' = RingSlot(i, qcount[i] + 1)
        /\ q'[i][RingSlot(i, qcount[i])] = t
        /\ \A k \in 0 .. qcount[i] - 1 : q'[i][RingSlot(i, k)] = q[i][RingSlot(i, k)]
    BY <1>0, <1>2, <1>3, <1>16, PushedBack, Zenon
  <2>2. \A k \in 0 .. qcount[i] - 1 :
          /\ q[i][RingSlot(i, k)] \in Waiters(i) \ {t}
          /\ pc[q[i][RingSlot(i, k)]] # "w_ptable"
          /\ \A l \in 0 .. k - 1 : q[i][RingSlot(i, l)] # q[i][RingSlot(i, k)]
    BY <1>1, <1>3, <1>14, Zenon DEF RingOK
  <2>3. RingOK(i)'
    <3>1. ASSUME NEW k \in 0 .. qcount[i]
          PROVE  /\ q'[i][RingSlot(i, k)] \in Waiters(i)
                 /\ pc'[q'[i][RingSlot(i, k)]] # "w_ptable"
                 /\ \A l \in 0 .. k - 1 : q'[i][RingSlot(i, l)] # q'[i][RingSlot(i, k)]
      <4>1. CASE k = qcount[i]
        BY <1>5, <1>13, <1>14, <2>1, <2>2, <4>1, Zenon
      <4>2. CASE k \in 0 .. qcount[i] - 1
        BY <1>5, <1>13, <1>14, <2>1, <2>2, <4>2
      <4> QED
        BY <1>14, <4>1, <4>2
    <3> QED
      BY <1>10, <1>14, <2>1, <3>1 DEF RingOK
  <2>4. ASSUME QueuedOK(i) PROVE QueuedOK(i)'
    <3>1. \A u \in Waiters(i) : pc[u] # "w_ptable" =>
            \E k \in 0 .. qcount[i] - 1 : q[i][RingSlot(i, k)] = u
      BY <1>3, <2>4, Zenon DEF QueuedOK
    <3>2. \A u \in Waiters(i)' : pc'[u] # "w_ptable" =>
            \E k \in 0 .. qcount'[i] - 1 : q'[i][RingSlot(i, k)'] = u
      BY <1>5, <1>10, <1>13, <1>14, <2>1, <3>1
    <3> QED
      BY <1>2, <1>3, <1>10, <2>4, <3>2, Zenon DEF QueuedOK
  <2> QED
    BY <1>4, <1>7, <1>8, <1>9, <1>11, <1>12, <2>3, <2>4, Zenon
    DEF SemInv, RingInv, CountInv, QueuedInv
<1> QED
  BY <1>15, <1>16, Zenon

\* The ring after pop_front: every place moves up by one.
LEMMA PoppedFront ==
  ASSUME SemInv, NEW i \in Sems, qcount[i] # 0,
         front' = [front EXCEPT ![i] = NewFront(i)],
         qcount' = [qcount EXCEPT ![i] = @ - 1], back' = back
  PROVE  /\ front' \in [Sems -> Ring] /\ qcount' \in [Sems -> 0 .. MAXQ]
         /\ \A j \in Sems \ {i} : front'[j] = front[j] /\ qcount'[j] = qcount[j]
         /\ qcount[i] \in 1 .. MAXQ /\ qcount'[i] = qcount[i] - 1
         /\ NewBack(i)' = NewBack(i) /\ front[i] = RingSlot(i, 0)
         /\ \A k \in 0 .. qcount[i] - 1 : RingSlot(i, k)' = RingSlot(i, k + 1)
<1>1. /\ front \in [Sems -> 0 .. MAXQ - 1] /\ qcount \in [Sems -> 0 .. MAXQ]
      /\ MAXQ \in Nat /\ MAXQ >= 1
  BY SemConsts, Zenon DEF SemInv, SemTypeOK, Ring
<1>2. NewFront(i) \in 0 .. MAXQ - 1
  BY <1>1 DEF NewFront
<1>3. /\ front' \in [Sems -> 0 .. MAXQ - 1] /\ front'[i] = NewFront(i)
      /\ \A j \in Sems \ {i} : front'[j] = front[j]
  BY <1>1, <1>2, Zenon
<1>4. /\ qcount' \in [Sems -> 0 .. MAXQ] /\ qcount'[i] = qcount[i] - 1
      /\ qcount[i] \in 1 .. MAXQ
      /\ \A j \in Sems \ {i} : qcount'[j] = qcount[j]
  BY <1>1
<1>5. \A k \in 0 .. qcount[i] - 1 : RingSlot(i, k)' = RingSlot(i, k + 1)
  <2>1. \A k \in Int : RingSlot(i, k)' =
          IF NewFront(i) + k < MAXQ THEN NewFront(i) + k ELSE NewFront(i) + k - MAXQ
    BY <1>3, Zenon DEF RingSlot
  <2>2. NewFront(i) = IF front[i] + 1 = MAXQ THEN 0 ELSE front[i] + 1
    BY Zenon DEF NewFront
  <2> QED
    BY <1>1, <1>4, <2>1, <2>2 DEF RingSlot
<1>6. NewBack(i)' = NewBack(i) /\ front[i] = RingSlot(i, 0)
  BY <1>1 DEF NewBack, RingSlot
<1> QED
  BY <1>3, <1>4, <1>5, <1>6, Zenon DEF Ring

\* Who is at the front of the ring when the signaller has ptable.lock is off
\* the CPU.
LEMMA FrontAsleep ==
  ASSUME SemInv, ptlock = None, NEW i \in Sems, semstate[i] = "USED", qcount[i] # 0
  PROVE  LET u == q[i][front[i]] IN
         /\ u \in Waiters(i) /\ u \in Threads /\ sem[u] = i
         /\ pc[u] = "w_asleep" /\ pstate[u] = "SEM_SLEEPING"
<1> DEFINE u == q[i][front[i]]
<1>1. front[i] \in Nat /\ front[i] < MAXQ /\ qcount[i] \in Nat
  BY SemConsts DEF SemInv, SemTypeOK, Ring
<1>2. front[i] = RingSlot(i, 0) /\ 0 \in 0 .. qcount[i] - 1
  BY <1>1 DEF RingSlot
<1>3. u \in Waiters(i) /\ pc[u] # "w_ptable"
  BY <1>2, Zenon DEF SemInv, RingInv, RingOK
<1>4. pc[u] \notin HoldingPtable
  <2>1. u \in Threads
    BY <1>3, Zenon DEF Waiters
  <2> QED
    BY <2>1, SemConsts, Zenon DEF SemInv, LockInv
<1> QED
  BY <1>3, <1>4, Zenon DEF Waiters, Waits, HoldingPtable

\* sem_signal wakes nobody: nobody waits, and if the ring has dropped no
\* waiter, then nobody has been turned away either.
LEMMA WakeNobodyInv ==
  ASSUME SemInv, NEW t \in Threads, sem_wakeup(t), qcount[sem[t]] = 0
  PROVE  SemInv' /\ (QueuedInv => QueuedInv')
<1>3. PICK i \in Sems : i = sem[t] /\ semstate[i] = "USED"
  BY Zenon DEF sem_wakeup, Goto, SemInv, SemTypeOK, CallInv
<1>1. pc[t] = "s_wakeup" /\ pc' = [pc EXCEPT ![t] = "s_done"]
  BY Zenon DEF sem_wakeup, Goto
<1>2. UNCHANGED <<semstate, count, q, front, back, qcount, limit, lock, ptlock,
                  pstate, ncli, sem, inside>>
  BY Zenon DEF sem_wakeup
<1>4. SemTypeOK'
  BY <1>1, <1>2, Zenon DEF SemInv, SemTypeOK, Places
<1>5. pc'[t] = "s_done" /\ \A u \in Threads \ {t} : pc'[u] = pc[u]
  BY <1>1, Zenon DEF SemInv, SemTypeOK
<1>7. CallInv'
  BY <1>1, <1>2, <1>5 DEF SemInv, CallInv, Depth
<1>8. LockInv'
  BY <1>1, <1>2, <1>5 DEF SemInv, LockInv, Holding, HoldingPtable
<1>9. InsideInv'
  BY <1>1, <1>2, <1>5 DEF SemInv, InsideInv
<1>10. \A j \in Sems : /\ Waiters(j)' = Waiters(j) /\ Entered(j)' = Entered(j)
                       /\ j # i => (Signalled(j)' <=> Signalled(j))
  BY <1>1, <1>2, <1>3, <1>5 DEF Waiters, Waits, Entered, Enters, Signalled
<1>11. ASSUME NEW j \in Sems, j # i
       PROVE  RingOK(j)' /\ CountOK(j)' /\ (QueuedOK(j) => QueuedOK(j)')
  <2>1. \A u \in Waiters(j) : pc'[u] = "w_ptable" <=> pc[u] = "w_ptable"
    BY <1>1, <1>5, Zenon DEF Waiters
  <2> QED
    BY <1>2, <1>10, <1>11, <2>1, OtherSem, Zenon
<1>12. /\ qcount[i] = 0 /\ NewBack(i)' = NewBack(i)
       /\ RingSlot(i, 0)' = RingSlot(i, 0)
  BY <1>2, <1>3, Zenon DEF NewBack, RingSlot
<1>13. RingOK(i)'
  BY <1>2, <1>3, <1>12 DEF SemInv, RingInv, RingOK
<1>14. Signalled(i) /\ ~Signalled(i)'
  BY <1>1, <1>2, <1>3, <1>5 DEF SemInv, LockInv, Holding, Signalled
<1>15. CountOK(i)'
  BY <1>2, <1>10, <1>14, Zenon DEF SemInv, CountInv, CountOK
<1>16. ASSUME QueuedOK(i) PROVE QueuedOK(i)'
  <2>1. \A u \in Waiters(i) : pc[u] = "w_ptable"
    BY <1>3, <1>12, <1>16 DEF QueuedOK
  <2>2. Waiters(i) = {}
    BY <1>1, <1>3, <2>1 DEF SemInv, LockInv, Holding, Waiters
  <2> QED
    BY <1>10, <2>2, Zenon DEF QueuedOK
<1> QED
  BY <1>4, <1>7, <1>8, <1>9, <1>11, <1>13, <1>15, <1>16, Zenon
  DEF SemInv, RingInv, CountInv, QueuedInv

\* sem_signal lets the first of the queue in.
LEMMA WakeOneInv ==
  ASSUME Counting, SemInv, NEW t \in Threads, sem_wakeup(t), qcount[sem[t]] # 0
  PROVE  SemInv' /\ (QueuedInv => QueuedInv')
<1>3. PICK i \in Sems : i = sem[t] /\ semstate[i] = "USED"
  BY DEF sem_wakeup, Goto, SemInv, SemTypeOK, CallInv
<1>u. PICK u \in Threads :
        /\ u = q[i][front[i]] /\ u \in Waiters(i) /\ sem[u] = i
        /\ pc[u] = "w_asleep" /\ pstate[u] = "SEM_SLEEPING"
  BY <1>3, FrontAsleep DEF sem_wakeup, PtableFree
<1>1. /\ pc[t] = "s_wakeup" /\ pc' = [pc EXCEPT ![t] = "s_done"]
      /\ pstate' = [pstate EXCEPT ![u] = "RUNNABLE"]
  BY <1>3, <1>u, Zenon DEF sem_wakeup, Goto
<1>0. /\ front' = [front EXCEPT ![i] = NewFront(i)]
      /\ qcount' = [qcount EXCEPT ![i] = @ - 1]
  BY <1>3, Zenon DEF sem_wakeup
<1>2. UNCHANGED <<semstate, count, q, back, limit, lock, ptlock, ncli, sem, inside>>
  BY Zenon DEF sem_wakeup
<1>6. /\ front' \in [Sems -> Ring] /\ qcount' \in [Sems -> 0 .. MAXQ]
      /\ \A j \in Sems \ {i} : front'[j] = front[j] /\ qcount'[j] = qcount[j]
      /\ qcount[i] \in 1 .. MAXQ /\ qcount'[i] = qcount[i] - 1
      /\ NewBack(i)' = NewBack(i) /\ front[i] = RingSlot(i, 0)
      /\ \A k \in 0 .. qcount[i] - 1 : RingSlot(i, k)' = RingSlot(i, k + 1)
  BY <1>0, <1>2, <1>3, PoppedFront, Zenon
<1>4. SemTypeOK'
  BY <1>1, <1>2, <1>6, Zenon DEF SemInv, SemTypeOK, Places
<1>5. /\ pc'[t] = "s_done" /\ \A v \in Threads \ {t} : pc'[v] = pc[v]
      /\ pstate'[u] = "RUNNABLE" /\ \A v \in Threads \ {u} : pstate'[v] = pstate[v]
      /\ u # t
  BY <1>1, <1>u, Zenon DEF SemInv, SemTypeOK
<1>7. CallInv'
  BY <1>1, <1>2, <1>u, <1>5 DEF SemInv, CallInv, Depth
<1>8. LockInv'
  BY <1>1, <1>2, <1>5 DEF SemInv, LockInv, Holding, HoldingPtable
<1>9. InsideInv'
  BY <1>1, <1>2, <1>5 DEF SemInv, InsideInv
<1>w. pc[t] = "s_wakeup" /\ sem' = sem /\ inside' = inside
  BY <1>1, <1>2, Zenon
<1>10. ASSUME NEW j \in Sems, j # i
       PROVE  RingOK(j)' /\ CountOK(j)' /\ (QueuedOK(j) => QueuedOK(j)')
  <2>1. /\ Waiters(j)' = Waiters(j) /\ Entered(j)' = Entered(j)
        /\ Signalled(j)' <=> Signalled(j)
    <3>1. Waiters(j)' = Waiters(j)
      BY <1>u, <1>w, <1>5, <1>10 DEF Waiters, Waits
    <3>2. Entered(j)' = Entered(j)
      BY <1>u, <1>w, <1>5, <1>10 DEF Entered, Enters
    <3>3. Signalled(j)' <=> Signalled(j)
      BY <1>2, <1>3, <1>5, <1>10, Zenon DEF Signalled
    <3> QED
      BY <3>1, <3>2, <3>3, Zenon
  <2>2. \A v \in Waiters(j) : pc'[v] = "w_ptable" <=> pc[v] = "w_ptable"
    BY <1>1, <1>5, Zenon DEF Waiters
  <2> QED
    BY <1>2, <1>6, <1>10, <2>1, <2>2, OtherSem, Zenon
<1>11. /\ Waiters(i)' = Waiters(i) \ {u} /\ Entered(i)' = Entered(i) \cup {u}
       /\ Signalled(i) /\ ~Signalled(i)'
  <2>1. Waiters(i)' = Waiters(i) \ {u} /\ Entered(i)' = Entered(i) \cup {u}
    <3>1. Waiters(i)' = Waiters(i) \ {u}
      BY <1>u, <1>w, <1>5 DEF Waiters, Waits
    <3>2. Entered(i)' = Entered(i) \cup {u}
      BY <1>u, <1>w, <1>5 DEF Entered, Enters
    <3> QED
      BY <3>1, <3>2, Zenon
  <2>2. Signalled(i) /\ ~Signalled(i)'
    BY <1>1, <1>2, <1>3, <1>5 DEF SemInv, LockInv, Holding, Signalled
  <2> QED
    BY <2>1, <2>2, Zenon
<1>12. /\ Cardinality(Waiters(i)') = Cardinality(Waiters(i)) - 1
       /\ Cardinality(Entered(i)') = Cardinality(Entered(i)) + 1
  BY <1>u, <1>11, EnteredAndWaiters, ThreadComes, ThreadGoes, Zenon
<1>13. /\ limit[i] \in InitCounts /\ Cardinality(Entered(i)) < limit[i]
       /\ Cardinality(Entered(i)) + Cardinality(Waiters(i)) + count[i] = limit[i]
  BY <1>3, <1>11, Zenon DEF SemInv, CountInv, CountOK
<1>14. CountOK(i)'
  BY <1>2, <1>11, <1>12, <1>13, EnteredAndWaiters DEF CountOK
<1>15. /\ NewBack(i) = RingSlot(i, qcount[i])
       /\ \A k \in 0 .. qcount[i] - 1 :
            /\ q[i][RingSlot(i, k)] \in Waiters(i)
            /\ pc[q[i][RingSlot(i, k)]] # "w_ptable"
            /\ \A l \in 0 .. k - 1 : q[i][RingSlot(i, l)] # q[i][RingSlot(i, k)]
  BY <1>3, Zenon DEF SemInv, RingInv, RingOK
<1>16. \A v \in Waiters(i) : pc'[v] = pc[v]
  BY <1>1, <1>5, Zenon DEF Waiters, Waits
<1>17. RingOK(i)'
  <2>1. ASSUME NEW k \in 0 .. qcount'[i] - 1
        PROVE  /\ q'[i][RingSlot(i, k)'] \in Waiters(i)'
               /\ pc'[q'[i][RingSlot(i, k)']] # "w_ptable"
               /\ \A l \in 0 .. k - 1 : q'[i][RingSlot(i, l)'] # q'[i][RingSlot(i, k)']
    <3>1. k + 1 \in 0 .. qcount[i] - 1 /\ 0 \in 0 .. (k + 1) - 1 /\ k \in 0 .. qcount[i] - 1
      BY <1>6
    <3>2. q'[i][RingSlot(i, k)'] = q[i][RingSlot(i, k + 1)]
      BY <1>2, <1>6, <3>1, Zenon
    <3>3. q[i][RingSlot(i, k + 1)] \in Waiters(i) \ {u}
      BY <1>u, <1>6, <1>15, <3>1
    <3>4. ASSUME NEW l \in 0 .. k - 1
          PROVE  q'[i][RingSlot(i, l)'] # q'[i][RingSlot(i, k)']
      <4>1. l + 1 \in 0 .. (k + 1) - 1 /\ l \in 0 .. qcount[i] - 1
        BY <1>6, <3>1
      <4> QED
        BY ONLY <1>2, <1>6, <1>15, <3>1, <3>2, <4>1
    <3> QED
      BY <1>11, <1>15, <1>16, <3>1, <3>2, <3>3, <3>4, Zenon
  <2>2. NewBack(i)' = RingSlot(i, qcount[i])'
    <3>1. PICK n \in 0 .. qcount[i] - 1 : n = qcount'[i] /\ n + 1 = qcount[i]
      BY <1>6
    <3>2. NewBack(i)' = RingSlot(i, n)'
      BY <1>6, <1>15, <3>1
    <3> QED
      BY <3>1, <3>2, Zenon
  <2> QED
    BY <2>1, <2>2, Zenon DEF RingOK
<1>18. ASSUME QueuedOK(i) PROVE QueuedOK(i)'
  <2>1. ASSUME NEW v \in Waiters(i)', pc'[v] # "w_ptable"
        PROVE  \E k \in 0 .. qcount'[i] - 1 : q'[i][RingSlot(i, k)'] = v
    <3>1. PICK k \in 0 .. qcount[i] - 1 : q[i][RingSlot(i, k)] = v
      BY <1>3, <1>11, <1>16, <1>18, <2>1, Zenon DEF QueuedOK
    <3>2. k # 0
      BY <1>u, <1>6, <1>11, <2>1, <3>1, Zenon
    <3>3. k - 1 \in 0 .. qcount'[i] - 1 /\ k - 1 \in 0 .. qcount[i] - 1 /\ (k - 1) + 1 = k
      BY <1>6, <3>2
    <3>4. RingSlot(i, k - 1)' = RingSlot(i, k)
      BY <1>6, <3>3, Zenon
    <3> QED
      BY <1>2, <3>1, <3>3, <3>4, Zenon
  <2>2. Cardinality(Entered(i)) = limit[i] - 1
    BY <1>3, <1>u, <1>11, <1>18, Zenon DEF QueuedOK
  <2>3. Cardinality(Entered(i)') = limit'[i] - 0
    BY <1>2, <1>12, <1>13, <2>2, EnteredAndWaiters
  <2> QED
    BY <1>11, <2>1, <2>3, Zenon DEF QueuedOK
<1> QED
  BY <1>4, <1>7, <1>8, <1>9, <1>10, <1>14, <1>17, <1>18, Zenon
  DEF SemInv, RingInv, CountInv, QueuedInv

-----------------------------------------------------------------------------
\* At boot every semaphore is UNUSED and no thread is in a call.
LEMMA SemInitInv ==
  ASSUME SemInit
  PROVE  SemInv /\ QueuedInv
<1>1. SemTypeOK
  BY SemConsts DEF SemInit, SemTypeOK, Ring, Places
<1>2. CallInv /\ LockInv /\ InsideInv
  BY SemConsts, Zenon DEF SemInit, CallInv, LockInv, InsideInv, Depth, Holding, HoldingPtable
<1>3. RingInv /\ CountInv /\ QueuedInv
  BY Zenon DEF SemInit, RingInv, RingOK, CountInv, CountOK, QueuedInv, QueuedOK
<1> QED
  BY <1>1, <1>2, <1>3, Zenon DEF SemInv

\* One step of the semaphores: only QueuedInv needs room in the ring.
LEMMA SemStep ==
  ASSUME Counting, SemInv, [SemNext]_allsemvars
  PROVE  SemInv' /\ (QueuedInv /\ Fits => QueuedInv')
<1>1. CASE UNCHANGED allsemvars
  BY <1>1, SemIdleInv, Zenon DEF allsemvars
<1>2. ASSUME NEW t \in Threads, NEW n \in InitCounts, sem_initialize(t, n)
      PROVE  SemInv' /\ (QueuedInv => QueuedInv')
  BY <1>2, sem_initializeInv, Zenon
<1>3. ASSUME NEW t \in Threads, NEW i \in Sems,
             sem_free(t, i) \/ sem_wait(t, i) \/ sem_signal(t, i)
      PROVE  SemInv' /\ (QueuedInv => QueuedInv')
  BY <1>3, sem_freeInv, sem_waitInv, sem_signalInv, Zenon
<1>4. ASSUME NEW t \in Threads, Step(t)
      PROVE  SemInv' /\ (QueuedInv /\ Fits => QueuedInv')
  <2>1. ASSUME sem_wakeup(t) PROVE SemInv' /\ (QueuedInv => QueuedInv')
    BY <2>1, WakeNobodyInv, WakeOneInv, Zenon
  <2> QED
    BY Zenon, <1>4, <2>1, WaitAcquireInv, SleepPtableInv, SleepReleaseInv, SleepSchedInv,
       ResumeInv, SleepReacquireInv, WaitDoneInv, SignalAcquireInv, SignalDoneInv
    DEF Step
<1>5. ASSUME NEW t \in Threads, kill(t)
      PROVE  SemInv' /\ (QueuedInv => QueuedInv')
  BY <1>5, SemIdleInv, Zenon DEF kill
<1>6. \A t \in Threads : Wants[t] \subseteq Sems
  BY SemAssumption, Zenon DEF Sems
<1> QED
  BY <1>1, <1>2, <1>3, <1>4, <1>5, <1>6, Zenon DEF SemNext

-----------------------------------------------------------------------------
INSTANCE FiniteSetTheorems

\* Sets of threads are finite.
LEMMA ThreadSets ==
  ASSUME NEW S \in SUBSET Threads
  PROVE  IsFiniteSet(S) /\ Cardinality(S) \in Nat
BY SemAssumption, FS_Subset, FS_CardinalityType, Zenon

\* So they can be counted.
LEMMA ThreadsCount == Counting
<1>1. Cardinality({}) = 0
  BY FS_EmptySet, Zenon
<1>2. ASSUME NEW S \in SUBSET Threads
      PROVE  /\ Cardinality(S) \in Nat
             /\ \A t \in Threads \ S : Cardinality(S \cup {t}) = Cardinality(S) + 1
             /\ \A t \in S : Cardinality(S \ {t}) = Cardinality(S) - 1
  BY ThreadSets, FS_AddElement, FS_RemoveElement, Zenon
<1> QED
  BY <1>1, <1>2, Zenon DEF Counting

\* The waiters in the ring are different ones, so there are at least as many
\* waiters as occupied slots, and one more if one of them is on its way in.
LEMMA RingSmall ==
  ASSUME Counting, SemInv, NEW i \in Sems, semstate[i] = "USED", NEW t \in Waiters(i),
         pc[t] = "w_ptable"
  PROVE  qcount[i] + 1 <= Cardinality(Waiters(i))
<1> DEFINE S == 0 .. qcount[i] - 1
           W == Waiters(i) \ {t}
           f == [k \in S |-> q[i][RingSlot(i, k)]]
<1>1. qcount[i] \in Nat /\ RingOK(i)
  BY DEF SemInv, SemTypeOK, RingInv
<1>2. \A k \in S : f[k] \in W
  BY <1>1, Zenon DEF RingOK
<1>3. \A k, l \in S : k # l => f[k] # f[l]
  BY <1>1 DEF RingOK
<1>4. IsFiniteSet(W) /\ Cardinality(W) = Cardinality(Waiters(i)) - 1
  BY EnteredAndWaiters, ThreadGoes, ThreadSets, Zenon
<1>5. IsFiniteSet(S) /\ Cardinality(S) = qcount[i]
  <2>1. qcount[i] - 1 \in Int /\ 0 \in Int
    BY <1>1
  <2>2. IsFiniteSet(S) /\ Cardinality(S) = IF 0 > qcount[i] - 1 THEN 0 ELSE qcount[i] - 1 - 0 + 1
    BY <2>1, FS_Interval, Zenon
  <2> QED
    BY <1>1, <2>2
<1>6. ~(Cardinality(W) < Cardinality(S))
  <2>1. f \in [S -> W]
    BY <1>2, Zenon
  <2> HIDE DEF f, S, W
  <2> QED
    BY <1>3, <1>4, <1>5, <2>1, FS_PigeonHole
<1> QED
  BY <1>1, <1>4, <1>5, <1>6, EnteredAndWaiters

\* As many threads as the ring and the smallest semaphore hold: at most MAXQ of
\* them can be waiting while the semaphore is full.
Room == \A n \in InitCounts : Cardinality(Threads) <= MAXQ + n

\* With that room, a waiter always finds a slot.
LEMMA FindsSlot ==
  ASSUME Counting, SemInv, Room, NEW i \in Sems, semstate[i] = "USED", QueuedOK(i),
         NEW t \in Waiters(i), pc[t] = "w_ptable"
  PROVE  qcount[i] # MAXQ
<1>1. Cardinality(Entered(i)) = limit[i]
  <2>1. ~Signalled(i)
    BY DEF SemInv, LockInv, Holding, Signalled, Waiters
  <2> QED
    BY <2>1, EnteredAndWaiters DEF QueuedOK
<1>2. Cardinality(Entered(i)) + Cardinality(Waiters(i)) <= Cardinality(Threads)
  <2> DEFINE B == Entered(i) \cup Waiters(i)
  <2>1. Cardinality(B) = Cardinality(Entered(i)) + Cardinality(Waiters(i))
    <3>1. Entered(i) \cap Waiters(i) = {}
      BY EnteredAndWaiters, Zenon
    <3>2. /\ IsFiniteSet(Entered(i)) /\ IsFiniteSet(Waiters(i))
          /\ Cardinality(Entered(i)) \in Nat /\ Cardinality(Waiters(i)) \in Nat
      BY EnteredAndWaiters, ThreadSets, Zenon
    <3>3. Cardinality(Entered(i) \cap Waiters(i)) = 0
      BY <3>1, FS_EmptySet, Zenon
    <3>4. Cardinality(B) = Cardinality(Entered(i)) + Cardinality(Waiters(i))
                             - Cardinality(Entered(i) \cap Waiters(i))
      BY <3>2, FS_Union, Zenon
    <3> QED
      BY <3>2, <3>3, <3>4
  <2>2. Cardinality(B) <= Cardinality(Threads)
    BY EnteredAndWaiters, SemAssumption, FS_Subset, Zenon
  <2> QED
    BY <2>1, <2>2, Zenon
<1>3. Cardinality(Threads) <= MAXQ + limit[i]
  BY Zenon DEF SemInv, CountInv, CountOK, Room
<1>4. qcount[i] + 1 <= Cardinality(Waiters(i)) /\ qcount[i] \in Nat
  BY RingSmall DEF SemInv, SemTypeOK
<1>5. Cardinality(Threads) \in Nat
  BY ThreadSets, Zenon
<1> QED
  BY <1>1, <1>2, <1>3, <1>4, <1>5, EnteredAndWaiters, SemConsts

\* So every waiter does.
LEMMA RoomFits ==
  ASSUME SemInv, QueuedInv, Room
  PROVE  Fits
BY FindsSlot, ThreadsCount, Zenon DEF Fits, QueuedInv

\* In every reachable state: SemInv.
LEMMA SemInvariant == SemSpec => []SemInv
<1>1. SemInit => SemInv
  BY SemInitInv, Zenon
<1>2. SemInv /\ [SemNext]_allsemvars => SemInv'
  BY SemStep, ThreadsCount, Zenon
<1> QED
  BY <1>1, <1>2, PTL DEF SemSpec

\* No more threads are past sem_wait and before sem_signal than the semaphore
\* was initialised with (proc.c:847-849), however many threads, semaphores and
\* slots there are, and even when the ring overflows.
THEOREM SemaphoreCapacity == SemSpec => []CapacityRespected
<1>1. SemInv => CapacityRespected
  <2> SUFFICES ASSUME SemInv, NEW i \in Sems, semstate[i] = "USED"
               PROVE  Cardinality(inside[i]) <= limit[i]
    BY Zenon DEF CapacityRespected
  <2>1. Cardinality(Entered(i)) <= limit[i]
    BY Zenon DEF SemInv, CountInv, CountOK
  <2>2. inside[i] \subseteq Entered(i)
    BY Zenon DEF Entered
  <2>3. Cardinality(inside[i]) \in Nat /\ Cardinality(inside[i]) <= Cardinality(Entered(i))
    BY <2>2, EnteredAndWaiters, ThreadsCount, ThreadSets, FS_Subset, Zenon
  <2> QED
    BY <2>1, <2>3, EnteredAndWaiters, ThreadsCount
<1> QED
  BY <1>1, SemInvariant, PTL

\* A signaller makes a thread RUNNABLE only after it has left the CPU, and it
\* leaves the CPU with one pushcli outstanding (proc.c:962-976, 990-995, 679).
THEOREM WokenAfterTheySleep == SemSpec => []WokenAfterSleep
<1>1. SemInv => WokenAfterSleep
  BY Zenon DEF SemInv, CallInv, Depth, WokenAfterSleep
<1> QED
  BY <1>1, SemInvariant, PTL

\* A thread that sleeps on a semaphore is in its queue exactly once, so that
\* some sem_signal finds it (proc.c:894), if the number of threads is at most
\* MAXQ more than any semaphore's initial count; with one thread more
\* push_back can drop one (proc.c:1025-1027).
THEOREM SleepersAreQueued ==
  ASSUME \A n \in InitCounts : Cardinality(Threads) <= MAXQ + n
  PROVE  SemSpec => []SleepersQueued
<1>0. Room
  BY Zenon DEF Room
<1>1. SemInit => SemInv /\ QueuedInv
  BY SemInitInv, Zenon
<1>2. SemInv /\ QueuedInv /\ [SemNext]_allsemvars => SemInv' /\ QueuedInv'
  BY <1>0, SemStep, RoomFits, ThreadsCount, Zenon
<1>3. SemInv /\ QueuedInv => SleepersQueued
  <2> SUFFICES ASSUME SemInv, QueuedInv, NEW t \in Threads, pstate[t] = "SEM_SLEEPING"
               PROVE  Cardinality({k \in 1 .. qcount[sem[t]] : Waiting(sem[t])[k] = t}) = 1
    BY Zenon DEF SleepersQueued
  <2>1. PICK i \in Sems : i = sem[t] /\ semstate[i] = "USED" /\ pc[t] = "w_asleep"
    BY DEF SemInv, SemTypeOK, CallInv
  <2>2. t \in Waiters(i) /\ pc[t] # "w_ptable"
    BY <2>1, Zenon DEF Waiters, Waits
  <2>3. PICK k \in 0 .. qcount[i] - 1 : q[i][RingSlot(i, k)] = t
    BY <2>1, <2>2, Zenon DEF QueuedInv, QueuedOK
  <2>4. qcount[i] \in Nat
    BY DEF SemInv, SemTypeOK
  <2>5. \A l \in 0 .. qcount[i] - 1 : l # k => q[i][RingSlot(i, l)] # t
    <3>1. \A m \in 0 .. qcount[i] - 1 : \A l \in 0 .. m - 1 :
            q[i][RingSlot(i, l)] # q[i][RingSlot(i, m)]
      BY <2>1, Zenon DEF SemInv, RingInv, RingOK
    <3> QED
      BY <2>3, <2>4, <3>1
  <2>6. \A m \in 1 .. qcount[i] : Waiting(i)[m] = q[i][RingSlot(i, m - 1)]
    BY Zenon DEF Waiting
  <2>7. {m \in 1 .. qcount[i] : Waiting(i)[m] = t} = {k + 1}
    <3>1. ASSUME NEW m \in 1 .. qcount[i] PROVE Waiting(i)[m] = t <=> m = k + 1
      <4>1. m - 1 \in 0 .. qcount[i] - 1
        BY <2>4
      <4> QED
        BY <2>3, <2>4, <2>5, <2>6, <4>1
    <3>2. k + 1 \in 1 .. qcount[i]
      BY <2>4
    <3> QED
      BY <3>1, <3>2, Zenon
  <2>8. Cardinality({k + 1}) = 1
    BY FS_Singleton, Zenon
  <2> QED
    BY <2>1, <2>7, <2>8, Zenon
<1> QED
  BY <1>1, <1>2, <1>3, PTL DEF SemSpec

-----------------------------------------------------------------------------
\* While there is no table the process runs on the root's stack, outside
\* UT_shutdown (uthread.c:142-143).
RootOutsideTable == ~allocated => running = 0 /\ ~shutting

\* The inductive invariant: the three safety invariants need each other.
\* UT_exit clears the slot of the right thread because CurrIsRunning holds,
\* CountIsUsed survives because that slot was USED, and the root is never
\* cleared because sched_index = 1 identifies it.
IInv ==
  TypeOK /\ CurrIsRunning /\ CountIsUsed /\ ReadyToSwitch /\ RootOutsideTable

\* The set of USED slots is finite and no larger than the table.
LEMMA UsedFinite ==
  ASSUME NEW T, T \subseteq Slots
  PROVE  IsFiniteSet(T) /\ Cardinality(T) \in 0 .. UT_COUNT
<1>1. IsFiniteSet(Slots) /\ Cardinality(Slots) = UT_COUNT
  BY FS_Interval, UthreadAssumption DEF Slots
<1>2. IsFiniteSet(T) /\ Cardinality(T) <= UT_COUNT
  BY <1>1, FS_Subset, Zenon
<1>3. QED
  BY <1>2, FS_CardinalityType, UthreadAssumption

\* UT_Scheduler keeps sched_index one past the running thread, and saves and
\* resumes the right contexts (uthread.c:95-123).
LEMMA SchedulerStep ==
  ASSUME NEW st \in [Slots -> {"UNUSED", "USED"}], NEW cnt \in 0 .. UT_COUNT,
         TypeOK, CurrTpcb = running, st[0] = "USED",
         \A i \in Slots \ {running} :
            st[i] = "USED" => context[i] \in {"entry", "suspended"},
         running = 0 => st[running] = "USED",
         UT_Scheduler(st, cnt)
  PROVE  /\ sched_index' \in Slots /\ running' \in Slots
         /\ context' \in [Slots -> Contexts]
         /\ CurrTpcb' = running' /\ st[running'] = "USED"
         /\ \A i \in Slots \ {running'} :
               st[i] = "USED" => context'[i] \in {"entry", "suspended"}
<1> USE UthreadAssumption DEF Slots, Contexts
<1>1. CASE cnt = 1 /\ sched_index = 1
  <2>1. UNCHANGED <<sched_index, context, running>>
    BY <1>1, Zenon DEF UT_Scheduler
  <2>2. running = 0
    BY <1>1 DEF CurrTpcb
  <2>3. QED
    BY <2>1, <2>2, Zenon DEF TypeOK, CurrTpcb
<1>2. CASE ~(cnt = 1 /\ sched_index = 1)
  <2>1. PICK t \in Slots :
          /\ IsNextThread(st, t)
          /\ sched_index' = increment_sched_index(t)
          /\ context' = [context EXCEPT ![CurrTpcb] = "suspended",
                                        ![t] = "stale"]
          /\ running' = t
    BY <1>2, Zenon DEF UT_Scheduler
  <2>2. st[t] = "USED"
    BY <2>1, Zenon DEF IsNextThread
  <2>3. sched_index' \in Slots /\ CurrTpcb' = t
    BY <2>1 DEF increment_sched_index, CurrTpcb
  <2>4. context' \in [Slots -> Contexts]
    BY <2>1, Zenon DEF TypeOK
  <2>5. ASSUME NEW i \in Slots \ {t}, st[i] = "USED"
        PROVE  context'[i] \in {"entry", "suspended"}
    BY <2>1, <2>5, Zenon DEF TypeOK
  <2>6. QED
    BY <2>1, <2>2, <2>3, <2>4, <2>5
<1>3. QED
  BY <1>1, <1>2, Zenon

\* The invariant holds at the start.
LEMMA IInvInit == Init => IInv
<1> SUFFICES ASSUME Init PROVE IInv
  BY Zenon
<1>1. ~allocated /\ ~shutting /\ allocated \in BOOLEAN /\ shutting \in BOOLEAN
  BY Zenon DEF Init
<1>2. TypeOK /\ running = 0
  BY <1>1, UthreadAssumption DEF Init, TypeOK, Slots, Contexts
<1>3. QED
  BY <1>1, <1>2, Zenon
  DEF IInv, CurrIsRunning, CountIsUsed, ReadyToSwitch, RootOutsideTable

\* Every step preserves the invariant.
LEMMA IInvNext == IInv /\ [Next]_vars => IInv'
<1> SUFFICES ASSUME IInv, [Next]_vars PROVE IInv'
  BY Zenon
<1> USE UthreadAssumption DEF IInv
<1>1. CASE UT_Init
  <2>1. running' = 0 /\ allocated' /\ TypeOK' /\ CurrTpcb' = 0
    BY <1>1 DEF UT_Init, RootOutsideTable, TypeOK, Slots, Contexts, CurrTpcb
  <2>2. Used' = {0}
    BY <1>1 DEF UT_Init, Used, Slots
  <2>3. Cardinality({0}) = 1
    BY FS_Singleton, Zenon
  <2>4. QED
    BY <1>1, <2>1, <2>2, <2>3
    DEF UT_Init, CurrIsRunning, CountIsUsed, ReadyToSwitch, RootOutsideTable,
        Slots
<1>2. CASE UT_Create
  <2>1. PICK t \in Slots \ Used :
          /\ state' = [state EXCEPT ![t] = "USED"]
          /\ context' = [context EXCEPT ![t] = "entry"]
    BY <1>2, Zenon DEF UT_Create
  <2>2. /\ allocated /\ allocated' = allocated /\ tid < MaxTid
        /\ tid' = tid + 1 /\ uthread_count' = uthread_count + 1
        /\ UNCHANGED <<sched_index, running, shutting>>
    BY <1>2, Zenon DEF UT_Create, InThreadCode
  <2>3. Used' = Used \cup {t}
    BY <2>1, Zenon DEF Used, TypeOK
  <2>4. Cardinality(Used') = uthread_count + 1
    BY <2>1, <2>2, <2>3, UsedFinite, FS_AddElement, Zenon DEF CountIsUsed, Used
  <2>5. Cardinality(Used') \in 0 .. UT_COUNT
    BY UsedFinite, Zenon DEF Used
  <2>6. state' \in [Slots -> {"UNUSED", "USED"}]
        /\ context' \in [Slots -> Contexts]
    BY <2>1, Zenon DEF TypeOK, Contexts
  <2>7. TypeOK'
    BY <2>2, <2>4, <2>5, <2>6 DEF TypeOK
  <2>8. ReadyToSwitch'
    BY <2>1, <2>2, <2>3 DEF ReadyToSwitch, TypeOK, Used, Slots
  <2>9. QED
    BY <2>2, <2>4, <2>7, <2>8, Zenon
    DEF CurrIsRunning, CurrTpcb, CountIsUsed, RootOutsideTable
<1>3. CASE UT_yield
  <2>1. /\ allocated /\ UT_Scheduler(state, uthread_count)
        /\ UNCHANGED <<allocated, state, tid, uthread_count, shutting>>
    BY <1>3, Zenon DEF UT_yield, InThreadCode
  <2>2. /\ sched_index' \in Slots /\ running' \in Slots
        /\ context' \in [Slots -> Contexts]
        /\ CurrTpcb' = running' /\ state[running'] = "USED"
        /\ \A i \in Slots \ {running'} :
              state[i] = "USED" => context'[i] \in {"entry", "suspended"}
    <3> HIDE DEF TypeOK, CurrTpcb, UT_Scheduler
    <3>1. /\ state \in [Slots -> {"UNUSED", "USED"}]
          /\ uthread_count \in 0 .. UT_COUNT
      BY Zenon DEF TypeOK
    <3>2. /\ CurrTpcb = running /\ state[0] = "USED"
          /\ \A i \in Slots \ {running} :
               state[i] = "USED" => context[i] \in {"entry", "suspended"}
          /\ running = 0 => state[running] = "USED"
      BY <2>1, Zenon DEF CurrIsRunning, ReadyToSwitch, Used
    <3>3. QED
      BY <2>1, <3>1, <3>2, SchedulerStep, Zenon
  <2>3. QED
    BY <2>1, <2>2, Zenon
    DEF TypeOK, CurrIsRunning, CountIsUsed, ReadyToSwitch, RootOutsideTable, Used
<1>4. CASE UT_shutdown
  <2>1. running = 0
    BY <1>4 DEF UT_shutdown, CurrIsRunning, CurrTpcb, TypeOK, Slots
  <2>2. CASE uthread_count # 1
    <3>1. /\ allocated /\ UT_Scheduler(state, uthread_count) /\ shutting' = TRUE
          /\ UNCHANGED <<allocated, state, tid, uthread_count>>
      BY <1>4, <2>2, Zenon DEF UT_shutdown
    <3>2. /\ state \in [Slots -> {"UNUSED", "USED"}]
          /\ uthread_count \in 0 .. UT_COUNT
      BY Zenon DEF TypeOK
    <3>3. /\ CurrTpcb = running /\ state[0] = "USED"
          /\ \A i \in Slots \ {running} :
               state[i] = "USED" => context[i] \in {"entry", "suspended"}
          /\ running = 0 => state[running] = "USED"
      BY <3>1, Zenon DEF CurrIsRunning, ReadyToSwitch, Used
    <3>4. /\ sched_index' \in Slots /\ running' \in Slots
          /\ context' \in [Slots -> Contexts]
          /\ CurrTpcb' = running' /\ state[running'] = "USED"
          /\ \A i \in Slots \ {running'} :
                state[i] = "USED" => context'[i] \in {"entry", "suspended"}
      BY <3>1, <3>2, <3>3, SchedulerStep, Zenon
    <3>5. QED
      BY <3>1, <3>4, Zenon
      DEF TypeOK, CurrIsRunning, CountIsUsed, ReadyToSwitch, RootOutsideTable,
          Used
  <2>3. CASE uthread_count = 1
    BY <1>4, <2>1, <2>3, Zenon
    DEF UT_shutdown, TypeOK, CurrIsRunning, CountIsUsed, ReadyToSwitch,
        RootOutsideTable
  <2>4. QED
    BY <2>2, <2>3, Zenon
<1>5. CASE UT_exit
  <2> DEFINE st == [state EXCEPT ![running] = "UNUSED"]
  <2>1. /\ allocated /\ sched_index # 1 /\ CurrTpcb = running
        /\ state' = st /\ uthread_count' = uthread_count - 1
        /\ UT_Scheduler(state', uthread_count')
        /\ UNCHANGED <<allocated, tid, shutting>>
    BY <1>5, Zenon DEF UT_exit, InThreadCode, CurrIsRunning
  <2>2. running # 0 /\ running \in Slots /\ running \in Used
    BY <2>1 DEF CurrTpcb, ReadyToSwitch, TypeOK, Slots, Used
  <2>3. Used' = Used \ {running}
    BY <2>1, <2>2, Zenon DEF Used, TypeOK
  <2>4. Cardinality(Used') = uthread_count'
    <3>1. IsFiniteSet(Used) /\ Cardinality(Used) = uthread_count
      BY <2>1, UsedFinite, Zenon DEF CountIsUsed, Used
    <3>2. Cardinality(Used \ {running}) = Cardinality(Used) - 1
      BY <2>2, <3>1, FS_RemoveElement, Zenon
    <3> QED
      BY <2>1, <2>3, <3>1, <3>2, Zenon
  <2>5. uthread_count' \in 0 .. UT_COUNT /\ st \in [Slots -> {"UNUSED", "USED"}]
    BY <2>1, <2>4, UsedFinite, Zenon DEF Used, TypeOK
  <2>6. /\ st[0] = "USED"
        /\ \A i \in Slots \ {running} :
             st[i] = "USED" => context[i] \in {"entry", "suspended"}
        /\ running = 0 => st[running] = "USED"
    BY <2>1, <2>2 DEF ReadyToSwitch, TypeOK, Used, Slots
  <2>7. /\ sched_index' \in Slots /\ running' \in Slots
        /\ context' \in [Slots -> Contexts]
        /\ CurrTpcb' = running' /\ st[running'] = "USED"
        /\ \A i \in Slots \ {running'} :
              st[i] = "USED" => context'[i] \in {"entry", "suspended"}
    <3> HIDE DEF st
    <3> QED BY <2>1, <2>5, <2>6, SchedulerStep
  <2>8. QED
    BY <2>1, <2>4, <2>5, <2>6, <2>7
    DEF TypeOK, CurrIsRunning, CountIsUsed, ReadyToSwitch, RootOutsideTable, Used
<1>6. CASE UNCHANGED vars
  BY <1>6, Zenon
  DEF vars, TypeOK, CurrIsRunning, CurrTpcb, CountIsUsed, ReadyToSwitch,
      RootOutsideTable, Used
<1>7. QED
  BY <1>1, <1>2, <1>3, <1>4, <1>5, <1>6, Zenon DEF Next

\* The inductive invariant holds in every reachable state.
THEOREM Invariance == Spec => []IInv
  BY IInvInit, IInvNext, PTL DEF Spec

\* The thread the library infers from sched_index is the one on the CPU,
\* for every table size (uthread.c:101-106, 158-163).
THEOREM CurrentThreadIsRunning == Spec => []CurrIsRunning
<1>1. IInv => CurrIsRunning
  BY Zenon DEF IInv
<1>2. QED
  BY <1>1, Invariance, PTL

\* Every thread that UT_Scheduler can pick has a context that can be resumed
\* (uthread.c:108-122).
THEOREM SwitchTargetsResumable == Spec => []ReadyToSwitch
<1>1. IInv => ReadyToSwitch
  BY Zenon DEF IInv
<1>2. QED
  BY <1>1, Invariance, PTL

\* uthread_count is exact (uthread.c:37, 72, 165).
THEOREM CountExact == Spec => []CountIsUsed
<1>1. IInv => CountIsUsed
  BY Zenon DEF IInv
<1>2. QED
  BY <1>1, Invariance, PTL

\* UT_shutdown frees the table only from the root and only when no other
\* thread is left (uthread.c:136-146).
THEOREM LastThreadFrees == Spec => FreedByLastThread
<1>1. ASSUME IInv, [Next]_vars
      PROVE  [allocated /\ ~allocated' => running = 0 /\ Used = {0}]_vars
  <2> SUFFICES ASSUME Next, allocated, ~allocated'
               PROVE  running = 0 /\ Used = {0}
    BY <1>1, Zenon
  <2>1. UT_shutdown /\ uthread_count = 1
    BY Zenon DEF Next, UT_Init, UT_Create, UT_yield, UT_shutdown, UT_exit
  <2>2. running = 0 /\ 0 \in Used
    BY <1>1, <2>1, UthreadAssumption
    DEF IInv, UT_shutdown, CurrIsRunning, CurrTpcb, ReadyToSwitch, Used, Slots
  <2>3. Cardinality(Used) = 1 /\ IsFiniteSet(Used)
    BY <1>1, <2>1, UsedFinite, Zenon DEF IInv, CountIsUsed, Used
  <2>4. PICK x : Used = {x}
    BY <2>3, FS_Singleton, Zenon
  <2>5. QED
    BY <2>2, <2>4, Zenon
<1>2. QED
  BY <1>1, Invariance, PTL DEF Spec, FreedByLastThread
=============================================================================
