-------------------------- MODULE ProcInvariant -----------------------------
(*****************************************************************************)
(* The inductive invariant of Proc, and the proofs that it holds at boot and *)
(* that fork, KT_Create, exec, exit, kill, the scheduler and a wait that     *)
(* finds nothing preserve it.  A proof that counts stack slots does so under *)
(* the assumption StackCounting, which ProcProofs discharges.                *)
(*****************************************************************************)
EXTENDS Proc, TLAPS

\* init is there, and a call in progress is one of a live process; the slot
\* that fork or clone works on is an EMBRYO that no other call works on.
CallInv ==
  /\ Live(initproc) /\ parent[initproc] = None
  /\ \A p \in Procs :
       /\ pc[p] # "user" => Live(p)
       /\ state[p] = "UNUSED" => psl[p] = None /\ pthread[p] = None
       /\ pc[p] \in {"fork", "copy"} =>
            /\ np[p] \in Procs /\ state[np[p]] = "EMBRYO"
            /\ psl[np[p]] = None /\ pthread[np[p]] = None
            /\ \A q \in Procs \ {p} : pc[q] \in {"fork", "copy"} => np[q] # np[p]

\* Nobody is its own parent, so exit finds the right one to wake.
ParentInv == ParentAlive /\ \A p \in Procs : parent[p] # p

\* What a sleeping process waits for is what exit wakes up.
SleepInv ==
  /\ \A p \in Procs : state[p] = "SLEEPING" =>
       \/ pc[p] = "wait" /\ chan[p] = p
       \/ pc[p] = "join" /\ chan[p] = PslChan(psl[p])
  /\ \A q \in Procs : pthread[q] # None /\ (Live(q) \/ state[q] = "ZOMBIE") =>
       psl[q] # None
  /\ NoMissedChild /\ NoMissedThread /\ NoKilledSleeper

\* A stack list's slots: marked while a thread has one or KT_Create has
\* reserved it, and never for two at once.
SlotInv ==
  /\ \A l \in Psls :
       /\ slstate[l] = "UNUSED" => stackz[l] = {}
       /\ Cardinality(stackz[l]) <= thread_count[l]
  /\ \A p \in Procs : psl[p] # None =>
       /\ slstate[psl[p]] = "USED" /\ slindex[p] \in stackz[psl[p]]
       /\ \A q \in Procs \ {p} : psl[q] = psl[p] => slindex[q] # slindex[p]

\* A KT_Create in progress holds a marked slot that no thread and no other
\* KT_Create has, unless sltable was full.
PendingInv ==
  \A p \in Procs :
    /\ pc[p] \notin {"clone", "copy"} => newslot[p] = None
    /\ pc[p] \in {"clone", "copy"} => (newslot[p] = None <=> psl[p] = None)
    /\ newslot[p] # None =>
         /\ newslot[p] \in stackz[psl[p]]
         /\ \A q \in Procs : psl[q] = psl[p] =>
              /\ slindex[q] # newslot[p]
              /\ q # p => newslot[q] # newslot[p]

\* The inductive invariant: every conjunct needs some of the others.
IInv == TypeOK /\ CallInv /\ ParentInv /\ SleepInv /\ SlotInv /\ PendingInv

-----------------------------------------------------------------------------
(* Calls on processes *)

\* What the proofs need to know of the constants: null points to no slot.
LEMMA Consts ==
  /\ initproc \in Procs /\ None \notin Procs /\ None \notin Psls /\ None \notin Stacks
  /\ 0 \in Stacks /\ 1 \in Stacks
BY ProcAssumption DEF Procs, Psls, Stacks, None, initproc

\* What the stack slots are used for does not change with the processes.
LEMMA SlotFrame ==
  ASSUME SlotInv, UNCHANGED <<stackz, thread_count, slstate, psl, slindex>>
  PROVE  SlotInv'
BY Zenon DEF SlotInv

LEMMA PendingFrame ==
  ASSUME PendingInv, UNCHANGED <<stackz, psl, slindex, newslot>>,
         \A r \in Procs : pc'[r] \in {"clone", "copy"} <=> pc[r] \in {"clone", "copy"}
  PROVE  PendingInv'
BY Zenon DEF PendingInv

LEMMA ParentFrame ==
  ASSUME TypeOK, ParentInv, UNCHANGED parent, \A r \in Procs : Live(r) => Live(r)'
  PROVE  ParentInv'
BY DEF TypeOK, ParentInv, ParentAlive

LEMMA SleepFrame ==
  ASSUME SleepInv,
         \A r \in Procs : state'[r] = "SLEEPING" =>
           /\ state[r] = "SLEEPING" /\ pc'[r] = pc[r] /\ chan'[r] = chan[r]
           /\ psl'[r] = psl[r] /\ (killed'[r] => killed[r]),
         \A r \in Procs : state'[r] = "ZOMBIE" =>
           /\ state[r] = "ZOMBIE" /\ parent'[r] = parent[r]
           /\ pthread'[r] = pthread[r] /\ psl'[r] = psl[r],
         \A r \in Procs : pthread'[r] # None /\ Live(r)' => psl'[r] # None
  PROVE  SleepInv'
BY DEF SleepInv, NoMissedChild, NoMissedThread, NoKilledSleeper, Zombies, Children,
       Live, PslChan

\* The first half of fork preserves it.
LEMMA allocprocInv ==
  ASSUME IInv, NEW p \in Procs, allocproc(p)
  PROVE  IInv'
<1>1. PICK q \in Procs : /\ state[q] = "UNUSED"
                         /\ state' = [state EXCEPT ![q] = "EMBRYO"]
                         /\ pid' = [pid EXCEPT ![q] = nextpid]
                         /\ np' = [np EXCEPT ![p] = q]
  BY Zenon DEF allocproc, UnusedSlots
<1>2. /\ state[p] = "RUNNING" /\ pc[p] = "user" /\ nextpid <= MaxPid
      /\ nextpid' = nextpid + 1 /\ pc' = [pc EXCEPT ![p] = "fork"]
  BY Zenon DEF allocproc, CanCall
<1>3. UNCHANGED <<parent, pthread, psl, slindex, chan, killed, pgdir, newslot,
                  stackz, thread_count, slstate, pgtabs, torn>>
  BY Zenon DEF pgvars, allocproc, slvars
<1>4. TypeOK'
  BY <1>1, <1>2, <1>3, ProcAssumption DEF IInv, TypeOK, States
<1>5. /\ \A r \in Procs : state'[r] = IF r = q THEN "EMBRYO" ELSE state[r]
      /\ \A r \in Procs : pc'[r] = IF r = p THEN "fork" ELSE pc[r]
      /\ \A r \in Procs : np'[r] = IF r = p THEN q ELSE np[r]
  BY <1>1, <1>2, Zenon DEF IInv, TypeOK
<1>6. CallInv'
  BY <1>1, <1>2, <1>3, <1>5, Consts DEF IInv, CallInv, Live
<1>7. ParentInv' /\ SleepInv'
  BY <1>1, <1>2, <1>3, <1>5, ParentFrame, SleepFrame DEF IInv, SleepInv, Live
<1>8. SlotInv' /\ PendingInv'
  BY <1>2, <1>3, <1>5, SlotFrame, PendingFrame DEF IInv
<1> QED
  BY <1>4, <1>6, <1>7, <1>8, Zenon DEF IInv

\* So does the second half of fork,
LEMMA forkInv ==
  ASSUME IInv, NEW p \in Procs, fork(p)
  PROVE  IInv'
<1>1. TypeOK'
  <2>1. np[p] \in Procs
    BY Zenon DEF IInv, CallInv, fork
  <2>2. PICK t \in Tables : /\ pgdir' = [pgdir EXCEPT ![np[p]] = t]
                            /\ pgtabs' = pgtabs \cup {t}
    BY Zenon DEF fork, FreeTables
  <2>3. pgdir' \in [Procs -> Tables \cup {NoTable}] /\ pgtabs' \in SUBSET Tables
    BY <2>1, <2>2, Zenon DEF IInv, TypeOK
  <2> QED
    BY <2>1, <2>3, Consts, ZenonT(30) DEF IInv, TypeOK, States, fork, slvars
<1>2. CallInv'
  BY Consts DEF IInv, TypeOK, CallInv, Live, fork, slvars
<1>3. ParentInv'
  BY Consts
  DEF IInv, TypeOK, CallInv, ParentInv, ParentAlive, Live, fork, slvars
<1>4. SleepInv'
  BY Consts
  DEF IInv, TypeOK, CallInv, SleepInv, Live, NoMissedChild, NoMissedThread,
      NoKilledSleeper, Zombies, Children, PslChan, fork, slvars
<1>5. SlotInv'
  BY Consts DEF IInv, TypeOK, CallInv, SlotInv, fork, slvars
<1>6. PendingInv'
  BY Consts DEF IInv, TypeOK, CallInv, PendingInv, fork, slvars
<1> QED
  BY <1>1, <1>2, <1>3, <1>4, <1>5, <1>6, Zenon DEF IInv

\* also when memory runs out.
LEMMA fork_failsInv ==
  ASSUME IInv, NEW p \in Procs, fork_fails(p)
  PROVE  IInv'
<1>1. TypeOK'
  BY Consts, Zenon DEF IInv, TypeOK, CallInv, States, fork_fails, slvars, pgvars
<1>2. CallInv'
  BY Consts DEF IInv, TypeOK, CallInv, Live, fork_fails, slvars
<1>3. ParentInv'
  BY Consts
  DEF IInv, TypeOK, CallInv, ParentInv, ParentAlive, Live, fork_fails, slvars
<1>4. SleepInv'
  BY Consts
  DEF IInv, TypeOK, CallInv, SleepInv, Live, NoMissedChild, NoMissedThread,
      NoKilledSleeper, Zombies, Children, PslChan, fork_fails, slvars
<1>5. SlotInv'
  BY Consts DEF IInv, TypeOK, CallInv, SlotInv, fork_fails, slvars
<1>6. PendingInv'
  BY Consts DEF IInv, TypeOK, CallInv, PendingInv, fork_fails, slvars
<1> QED
  BY <1>1, <1>2, <1>3, <1>4, <1>5, <1>6, Zenon DEF IInv

\* clone takes an UNUSED slot.
LEMMA tallocprocInv ==
  ASSUME IInv, NEW p \in Procs, tallocproc(p)
  PROVE  IInv'
<1>1. TypeOK'
  BY Consts
  DEF IInv, TypeOK, CallInv, States, tallocproc, UnusedSlots, IsFirst, slvars, pgvars
<1>2. CallInv'
  BY Consts
  DEF IInv, TypeOK, CallInv, Live, tallocproc, UnusedSlots, IsFirst, slvars
<1>3. ParentInv'
  BY Consts
  DEF IInv, TypeOK, CallInv, ParentInv, ParentAlive, Live, tallocproc,
      UnusedSlots, IsFirst, slvars
<1>4. SleepInv'
  BY Consts
  DEF IInv, TypeOK, CallInv, SleepInv, Live, NoMissedChild, NoMissedThread,
      NoKilledSleeper, Zombies, Children, PslChan, tallocproc, UnusedSlots,
      IsFirst, slvars
<1>5. SlotInv'
  BY Consts
  DEF IInv, TypeOK, CallInv, SlotInv, tallocproc, UnusedSlots, IsFirst, slvars
<1>6. PendingInv'
  BY Consts, SMTT(30)
  DEF IInv, TypeOK, CallInv, PendingInv, tallocproc, UnusedSlots, IsFirst,
      slvars
<1> QED
  BY <1>1, <1>2, <1>3, <1>4, <1>5, <1>6, Zenon DEF IInv

\* A slot that clone_fails forgets stays marked.
LEMMA clone_failsInv ==
  ASSUME IInv, NEW p \in Procs, clone_fails(p)
  PROVE  IInv'
<1>1. TypeOK'
  BY Consts, Zenon DEF IInv, TypeOK, CallInv, States, clone_fails, procvars, slvars, pgvars
<1>2. CallInv'
  BY Consts DEF IInv, TypeOK, CallInv, Live, clone_fails, procvars, slvars
<1>3. ParentInv'
  BY Consts, Zenon
  DEF IInv, TypeOK, CallInv, ParentInv, ParentAlive, Live, clone_fails,
      procvars, slvars
<1>4. SleepInv'
  BY Consts
  DEF IInv, TypeOK, CallInv, SleepInv, Live, NoMissedChild, NoMissedThread,
      NoKilledSleeper, Zombies, Children, PslChan, clone_fails, procvars, slvars
<1>5. SlotInv'
  BY Consts DEF IInv, TypeOK, CallInv, SlotInv, clone_fails, procvars, slvars
<1>6. PendingInv'
  BY Consts, SMTT(30) DEF IInv, TypeOK, CallInv, PendingInv, clone_fails, procvars, slvars
<1> QED
  BY <1>1, <1>2, <1>3, <1>4, <1>5, <1>6, Zenon DEF IInv

\* The new thread gets the reserved slot.
LEMMA cloneInv ==
  ASSUME IInv, NEW p \in Procs, clone(p)
  PROVE  IInv'
<1>1. TypeOK'
  BY Consts DEF IInv, TypeOK, CallInv, States, clone, slvars, pgvars
<1>2. CallInv'
  BY Consts DEF IInv, TypeOK, CallInv, Live, clone, slvars
<1>3. ParentInv'
  BY Consts, SMTT(30)
  DEF IInv, TypeOK, CallInv, ParentInv, ParentAlive, Live, clone, slvars
<1>4. SleepInv'
  <2>1. np[p] \in Procs /\ state[np[p]] = "EMBRYO" /\ np[p] # p
    BY Zenon DEF IInv, CallInv, Live, clone
  <2>2. newslot[p] # None => psl[p] # None
    BY Zenon DEF IInv, PendingInv, clone
  <2> QED
    BY <2>1, <2>2, Consts
    DEF IInv, TypeOK, SleepInv, Live, NoMissedChild, NoMissedThread,
        NoKilledSleeper, Zombies, Children, PslChan, clone
<1>5. SlotInv'
  <2>1. np[p] \in Procs /\ psl[np[p]] = None
    BY Zenon DEF IInv, CallInv, clone
  <2>2. psl[p] # None => /\ newslot[p] # None /\ newslot[p] \in stackz[psl[p]]
                         /\ \A q \in Procs : psl[q] = psl[p] => slindex[q] # newslot[p]
    BY Zenon DEF IInv, PendingInv, clone
  <2> QED
    BY <2>1, <2>2, Consts DEF IInv, TypeOK, SlotInv, clone, slvars
<1>6. PendingInv'
  <2>1. np[p] \in Procs /\ psl[np[p]] = None /\ np[p] # p /\ pc[np[p]] = "user"
    BY Zenon DEF IInv, CallInv, Live, clone
  <2>2. newslot[np[p]] = None
    BY <2>1, Zenon DEF IInv, PendingInv
  <2> QED
    BY <2>1, <2>2, Consts DEF IInv, TypeOK, PendingInv, clone, slvars
<1> QED
  BY <1>1, <1>2, <1>3, <1>4, <1>5, <1>6, Zenon DEF IInv

\* exec changes nothing but page tables.
LEMMA execInv ==
  ASSUME IInv, NEW p \in Procs, exec(p)
  PROVE  IInv'
<1>1. UNCHANGED <<state, pid, parent, pthread, psl, slindex, chan, killed, pc, np,
                  newslot, nextpid, stackz, thread_count, slstate>>
  BY Zenon DEF exec, callvars, slvars
<1>2. TypeOK'
  <2>1. PICK t \in Tables : /\ pgdir' = [pgdir EXCEPT ![p] = t]
                            /\ pgtabs' = (pgtabs \cup {t}) \ {pgdir[p]}
    BY Zenon DEF exec, FreeTables
  <2>2. pgdir' \in [Procs -> Tables \cup {NoTable}] /\ pgtabs' \in SUBSET Tables
    BY <2>1, Zenon DEF IInv, TypeOK
  <2>3. torn' \in BOOLEAN
    BY Zenon DEF exec
  <2> QED
    BY <1>1, <2>2, <2>3, Zenon DEF IInv, TypeOK
<1>3. CallInv' /\ ParentInv'
  <2>1. CallInv'
    BY <1>1 DEF IInv, CallInv, Live
  <2>2. ParentInv'
    BY <1>1, Zenon DEF IInv, ParentInv, ParentAlive, Live
  <2> QED
    BY <2>1, <2>2, Zenon
<1>4. SleepInv'
  BY <1>1, Zenon
  DEF IInv, SleepInv, NoMissedChild, NoMissedThread, NoKilledSleeper, Live, Zombies,
      Children
<1>5. SlotInv' /\ PendingInv'
  BY <1>1, Zenon DEF IInv, SlotInv, PendingInv
<1> QED
  BY <1>2, <1>3, <1>4, <1>5, Zenon DEF IInv

\* exit wakes whoever sleeps for the process that exits or for its zombies.
LEMMA exitInv ==
  ASSUME IInv, NEW p \in Procs, exit(p)
  PROVE  IInv'
<1>1. TypeOK'
  BY Consts, Zenon
  DEF IInv, TypeOK, CallInv, States, exit, WokenByExit, Sleepers, Reparented,
      callvars, slvars, pgvars
<1>2. CallInv'
  BY Consts
  DEF IInv, TypeOK, CallInv, Live, exit, WokenByExit, Sleepers, Reparented,
      callvars, slvars
<1>3. ParentInv'
  BY Consts
  DEF IInv, TypeOK, CallInv, ParentInv, ParentAlive, Live, exit, WokenByExit,
      Sleepers, Reparented, callvars, slvars
<1>4. SleepInv'
  <2>1. \A q \in Procs : state'[q] = "SLEEPING" =>
          state[q] = "SLEEPING" /\ q # p /\ q \notin WokenByExit(p)
    BY Zenon DEF exit
  <2>2. \A q \in Procs : state'[q] = "ZOMBIE" => q = p \/ state[q] = "ZOMBIE"
    BY Zenon DEF exit
  <2>3. \A q \in Procs : Live(q)' => Live(q)
    BY Zenon DEF exit, WokenByExit, Sleepers, Live, IInv, TypeOK
  <2>4. UNCHANGED <<pthread, psl, chan, killed, pc>> /\ Live(p)
    BY Zenon DEF exit, callvars, Live
  <2>5. ASSUME NEW r \in Procs, state'[r] = "SLEEPING", pc[r] = "wait",
               NEW q \in Procs, parent'[q] = r, state'[q] = "ZOMBIE"
        PROVE  FALSE
    <3>1. state[r] = "SLEEPING" /\ chan[r] = r /\ r \notin WokenByExit(p)
      BY <2>1, <2>5, Zenon DEF IInv, SleepInv
    <3>2. CASE q = p
      <4>1. parent[p] = r
        BY <2>5, <3>2, Zenon DEF exit, Reparented, IInv, ParentInv
      <4> QED
        BY <3>1, <4>1, Zenon DEF WokenByExit, Sleepers
    <3>3. CASE q # p
      <4>1. state[q] = "ZOMBIE"
        BY <2>2, <2>5, <3>3, Zenon
      <4>2. CASE parent[q] = p
        <5>1. r = initproc
          BY <2>5, <4>2, Zenon DEF exit, Reparented
        <5> QED
          BY <3>1, <4>1, <4>2, <5>1, Zenon DEF WokenByExit, Sleepers
      <4>3. CASE parent[q] # p
        <5>1. parent[q] = r
          BY <2>5, <4>3, Zenon DEF exit, Reparented
        <5> QED
          BY <2>5, <3>1, <4>1, <5>1, Zenon DEF IInv, SleepInv, NoMissedChild, Zombies, Children
      <4> QED
        BY <4>2, <4>3, Zenon
    <3> QED
      BY <3>2, <3>3, Zenon
  <2>6. NoMissedChild'
    BY <2>4, <2>5, Zenon DEF NoMissedChild, Zombies, Children
  <2>7. ASSUME NEW r \in Procs, state'[r] = "SLEEPING", pc[r] = "join",
               NEW q \in Procs, pthread[q] = r, psl[q] = psl[r], state'[q] = "ZOMBIE"
        PROVE  FALSE
    <3>1. state[r] = "SLEEPING" /\ chan[r] = PslChan(psl[r]) /\ r \notin WokenByExit(p)
      BY <2>1, <2>7, Zenon DEF IInv, SleepInv
    <3>2. CASE q = p
      <4>1. psl[p] # None
        BY <2>4, <2>7, <3>2, Consts, Zenon DEF IInv, SleepInv
      <4> QED
        BY <2>7, <3>1, <3>2, <4>1, Zenon DEF WokenByExit, Sleepers
    <3>3. CASE q # p
      BY <2>2, <2>7, <3>1, <3>3, Zenon DEF IInv, SleepInv, NoMissedThread
    <3> QED
      BY <3>2, <3>3, Zenon
  <2>8. NoMissedThread'
    BY <2>4, <2>7, Zenon DEF NoMissedThread
  <2>9. NoKilledSleeper'
    BY <2>1, <2>4, Zenon DEF IInv, SleepInv, NoKilledSleeper
  <2> QED
    BY <2>1, <2>2, <2>3, <2>4, <2>6, <2>8, <2>9, Zenon DEF IInv, SleepInv
<1>5. SlotInv'
  BY Consts
  DEF IInv, TypeOK, CallInv, SlotInv, exit, WokenByExit, Sleepers, Reparented,
      callvars, slvars
<1>6. PendingInv'
  BY Consts
  DEF IInv, TypeOK, CallInv, PendingInv, exit, WokenByExit, Sleepers,
      Reparented, callvars, slvars
<1> QED
  BY <1>1, <1>2, <1>3, <1>4, <1>5, <1>6, Zenon DEF IInv

\* kill wakes what it marks.
LEMMA killInv ==
  ASSUME IInv, NEW p \in Procs, NEW i \in KillPids, kill(p, i)
  PROVE  IInv'
<1>0. PICK q \in Procs : /\ killed' = [killed EXCEPT ![q] = TRUE]
                         /\ state' = [state EXCEPT ![q] = AfterKill(q)]
  BY ZenonT(30) DEF kill
<1>u. UNCHANGED <<pid, parent, pthread, psl, slindex, chan, pgdir, pc, np,
                  newslot, nextpid, stackz, thread_count, slstate, pgtabs, torn>>
  BY Zenon DEF pgvars, kill, callvars, slvars
<1>t. state \in [Procs -> States] /\ DOMAIN killed = Procs
  BY Zenon DEF IInv, TypeOK
<1>l. \A r \in Procs : /\ Live(r)' <=> Live(r)
                       /\ state'[r] = "UNUSED" <=> state[r] = "UNUSED"
                       /\ state'[r] = "EMBRYO" <=> state[r] = "EMBRYO"
                       /\ state'[r] = "ZOMBIE" <=> state[r] = "ZOMBIE"
                       /\ state'[r] = "SLEEPING" => state[r] = "SLEEPING" /\ r # q
                       /\ killed'[r] => killed[r] \/ r = q
  BY <1>0, <1>t, Zenon DEF Live, AfterKill
<1>1. TypeOK'
  BY <1>0, <1>u, Zenon DEF IInv, TypeOK, States, AfterKill
<1>2. CallInv'
  BY <1>u, <1>l, Consts DEF IInv, CallInv, Live
<1>3. ParentInv'
  BY <1>u, <1>l DEF IInv, TypeOK, ParentInv, ParentAlive
<1>4. SleepInv'
  BY <1>u, <1>l
  DEF IInv, SleepInv, NoMissedChild, NoMissedThread, NoKilledSleeper, Zombies,
      Children, PslChan
<1>5. SlotInv' /\ PendingInv'
  BY <1>u, Zenon DEF IInv, SlotInv, PendingInv
<1> QED
  BY <1>1, <1>2, <1>3, <1>4, <1>5, Zenon DEF IInv

\* Scheduling changes only who runs.
LEMMA schedulerInv ==
  ASSUME IInv, NEW p \in Procs, scheduler(p)
  PROVE  IInv'
<1>1. TypeOK'
  BY Consts, Zenon DEF IInv, TypeOK, CallInv, States, scheduler, callvars, slvars, pgvars
<1>2. CallInv'
  BY Consts DEF IInv, TypeOK, CallInv, Live, scheduler, callvars, slvars
<1>3. ParentInv'
  BY Consts
  DEF IInv, TypeOK, CallInv, ParentInv, ParentAlive, Live, scheduler, callvars,
      slvars
<1>4. SleepInv'
  BY Consts
  DEF IInv, TypeOK, CallInv, SleepInv, Live, NoMissedChild, NoMissedThread,
      NoKilledSleeper, Zombies, Children, PslChan, scheduler, callvars, slvars
<1>5. SlotInv'
  BY Consts DEF IInv, TypeOK, CallInv, SlotInv, scheduler, callvars, slvars
<1>6. PendingInv'
  BY Consts, SMTT(30) DEF IInv, TypeOK, CallInv, PendingInv, scheduler, callvars, slvars
<1> QED
  BY <1>1, <1>2, <1>3, <1>4, <1>5, <1>6, Zenon DEF IInv

\* The timer, too.
LEMMA yieldInv ==
  ASSUME IInv, NEW p \in Procs, yield(p)
  PROVE  IInv'
<1>1. TypeOK'
  BY Consts, Zenon DEF IInv, TypeOK, CallInv, States, yield, callvars, slvars, pgvars
<1>2. CallInv'
  BY Consts DEF IInv, TypeOK, CallInv, Live, yield, callvars, slvars
<1>3. ParentInv'
  BY Consts
  DEF IInv, TypeOK, CallInv, ParentInv, ParentAlive, Live, yield, callvars,
      slvars
<1>4. SleepInv'
  BY Consts
  DEF IInv, TypeOK, CallInv, SleepInv, Live, NoMissedChild, NoMissedThread,
      NoKilledSleeper, Zombies, Children, PslChan, yield, callvars, slvars
<1>5. SlotInv'
  BY Consts DEF IInv, TypeOK, CallInv, SlotInv, yield, callvars, slvars
<1>6. PendingInv'
  BY Consts DEF IInv, TypeOK, CallInv, PendingInv, yield, callvars, slvars
<1> QED
  BY <1>1, <1>2, <1>3, <1>4, <1>5, <1>6, Zenon DEF IInv

\* KT_Create up to clone: the caller may get a stack list, and else only its
\* place changes.
LEMMA CreateFrame ==
  ASSUME IInv, NEW p \in Procs, CanThread(p), pc' = [pc EXCEPT ![p] = "clone"],
         UNCHANGED <<state, parent, pthread, chan, killed, np>>,
         \A r \in Procs : psl'[r] = psl[r] \/ (r = p /\ psl'[r] # None)
  PROVE  /\ CallInv' /\ ParentInv' /\ SleepInv'
         /\ pc' \in [Procs -> {"user", "fork", "clone", "copy", "wait", "join"}]
         /\ pc[p] = "user" /\ pc'[p] = "clone" /\ \A r \in Procs : r # p => pc'[r] = pc[r]
<1>1. state[p] = "RUNNING" /\ pc[p] = "user"
  BY Zenon DEF CanThread, CanCall
<1>2. /\ pc' \in [Procs -> {"user", "fork", "clone", "copy", "wait", "join"}]
      /\ pc'[p] = "clone" /\ \A r \in Procs : r # p => pc'[r] = pc[r]
  BY Zenon DEF IInv, TypeOK
<1>3. \A r \in Procs : r # p => psl'[r] = psl[r]
  BY Zenon
<1>4. CallInv'
  <2>1. Live(p) /\ \A r \in Procs : Live(r)' <=> Live(r)
    BY <1>1, Zenon DEF Live
  <2>2. Live(initproc)' /\ parent'[initproc] = None
    BY <2>1, Consts, Zenon DEF IInv, CallInv
  <2>3. \A r \in Procs : pc'[r] # "user" => Live(r)'
    <3>1. \A r \in Procs : r = p \/ pc'[r] = pc[r]
      BY <1>2, Zenon
    <3>2. \A r \in Procs : r = p \/ pc[r] = "user" \/ Live(r)
      BY Zenon DEF IInv, CallInv
    <3> QED
      BY <2>1, <3>1, <3>2
  <2>4. \A r \in Procs : state'[r] = "UNUSED" => psl'[r] = None /\ pthread'[r] = None
    <3>1. \A r \in Procs : state[r] = "UNUSED" => r # p
      BY <1>1
    <3> QED
      BY <1>3, <3>1, Zenon DEF IInv, CallInv
  <2>5. \A r \in Procs : pc'[r] \in {"fork", "copy"} => r # p /\ pc[r] \in {"fork", "copy"}
    BY <1>2
  <2>6. \A r \in Procs : state[r] = "EMBRYO" => psl'[r] = psl[r]
    <3>1. \A r \in Procs : state[r] = "EMBRYO" => r # p
      BY <1>1
    <3> QED
      BY <1>3, <3>1, Zenon
  <2>7. ASSUME NEW r \in Procs, pc'[r] \in {"fork", "copy"}
        PROVE  /\ np'[r] \in Procs /\ state'[np'[r]] = "EMBRYO"
               /\ psl'[np'[r]] = None /\ pthread'[np'[r]] = None
               /\ \A q \in Procs \ {r} : pc'[q] \in {"fork", "copy"} => np'[q] # np'[r]
    <3>1. /\ np[r] \in Procs /\ state[np[r]] = "EMBRYO"
          /\ psl[np[r]] = None /\ pthread[np[r]] = None
          /\ \A q \in Procs \ {r} : pc[q] \in {"fork", "copy"} => np[q] # np[r]
      BY <2>5, <2>7, Zenon DEF IInv, CallInv
    <3>2. psl'[np[r]] = None
      BY <2>6, <3>1, Zenon
    <3> QED
      BY <2>5, <3>1, <3>2, Zenon
  <2> QED
    BY <2>2, <2>3, <2>4, <2>7, Zenon DEF CallInv
<1>5. ParentInv'
  BY Zenon DEF IInv, ParentInv, ParentAlive, Live
<1>6. SleepInv'
  <2>1. \A r \in Procs : state'[r] \in {"SLEEPING", "ZOMBIE"} => r # p
    BY <1>1
  <2>2. \A r \in Procs : pthread'[r] # None /\ Live(r)' => psl'[r] # None
    BY Zenon DEF IInv, SleepInv, Live
  <2>3. \A r \in Procs : state'[r] = "SLEEPING" =>
          /\ state[r] = "SLEEPING" /\ pc'[r] = pc[r] /\ chan'[r] = chan[r]
          /\ psl'[r] = psl[r] /\ (killed'[r] => killed[r])
    BY <1>2, <1>3, <2>1, Zenon
  <2>4. \A r \in Procs : state'[r] = "ZOMBIE" =>
          /\ state[r] = "ZOMBIE" /\ parent'[r] = parent[r]
          /\ pthread'[r] = pthread[r] /\ psl'[r] = psl[r]
    BY <1>3, <2>1, Zenon
  <2> QED
    BY <2>2, <2>3, <2>4, SleepFrame, Zenon DEF IInv
<1> QED
  BY <1>1, <1>2, <1>4, <1>5, <1>6, Zenon

\* Without a stack list there is no reserved slot either.
LEMMA KT_Create_fullInv ==
  ASSUME IInv, NEW p \in Procs, KT_Create_full(p)
  PROVE  IInv'
<1>1. TypeOK'
  BY Consts, Zenon
  DEF IInv, TypeOK, CallInv, States, KT_Create_full, CanThread, CanCall,
      procvars, slvars, pgvars
<1>2. CallInv' /\ ParentInv' /\ SleepInv'
  BY CreateFrame, Zenon DEF KT_Create_full, procvars
<1>5. SlotInv'
  BY SlotFrame, Zenon DEF IInv, KT_Create_full, procvars, slvars
<1>6. PendingInv'
  <2>1. /\ newslot' = [newslot EXCEPT ![p] = None] /\ psl[p] = None
        /\ UNCHANGED <<stackz, psl, slindex>>
    BY Zenon DEF KT_Create_full, procvars, slvars
  <2>2. newslot'[p] = None /\ \A r \in Procs : r # p => newslot'[r] = newslot[r]
    BY <2>1, Zenon DEF IInv, TypeOK
  <2>3. pc'[p] = "clone" /\ \A r \in Procs : r # p => pc'[r] = pc[r]
    BY CreateFrame, Zenon DEF KT_Create_full, procvars
  <2> QED
    BY <2>1, <2>2, <2>3 DEF IInv, PendingInv
<1> QED
  BY <1>1, <1>2, <1>5, <1>6, Zenon DEF IInv

\* What they do when there is none.
LEMMA NothingYetInv ==
  ASSUME IInv, NEW p \in Procs, NEW at, NEW c, NEW kids, InLoop(p, at),
         \/ at = "wait" /\ kids = Children(p) /\ c = p
         \/ at = "join" /\ kids = Threads(p) /\ c = PslChan(psl[p]),
         NothingYet(p, kids, c, at)
  PROVE  IInv'
<1>1. /\ state[p] \in {"RUNNING", "RUNNABLE"} /\ pc[p] \in {"user", "wait", "join"}
      /\ at \in {"wait", "join"}
  BY Zenon DEF InLoop, CanCall
<1>2. c \in Int
  <2>1. psl[p] \in Psls \cup {None}
    BY Zenon DEF IInv, TypeOK
  <2> QED
    BY <2>1, ProcAssumption DEF Procs, Psls, None, PslChan
<1>3. /\ UNCHANGED <<pid, parent, pthread, psl, slindex, killed, pgdir, np,
                     newslot, nextpid, stackz, thread_count, slstate, pgtabs, torn>>
      /\ \A q \in kids : state[q] # "ZOMBIE"
  BY Zenon DEF pgvars, NothingYet, slvars
<1>4. \/ /\ state' = [state EXCEPT ![p] = "RUNNING"]
         /\ chan' = [chan EXCEPT ![p] = None]
         /\ pc' = [pc EXCEPT ![p] = "user"]
      \/ /\ state' = [state EXCEPT ![p] = "SLEEPING"]
         /\ chan' = [chan EXCEPT ![p] = c]
         /\ pc' = [pc EXCEPT ![p] = at]
         /\ ~killed[p]
  BY Zenon DEF NothingYet
<1>5. TypeOK'
  BY <1>1, <1>2, <1>3, <1>4 DEF IInv, TypeOK, States, None
<1>6. CallInv' /\ ParentInv'
  <2>1. \A q \in Procs : state'[q] # state[q] => q = p
    BY <1>4, Zenon DEF IInv, TypeOK
  <2>2. Live(p) /\ Live(p)' /\ pc'[p] \in {"user", "wait", "join"}
    BY <1>1, <1>4, Zenon DEF IInv, TypeOK, Live
  <2>3. \A q \in Procs : q # p => pc'[q] = pc[q]
    BY <1>4, Zenon DEF IInv, TypeOK
  <2>4. \A q \in Procs : Live(q)' <=> Live(q)
    BY <2>1, <2>2, Zenon DEF Live
  <2>5. CallInv'
    BY <1>3, <2>1, <2>2, <2>3, <2>4, Consts DEF IInv, CallInv, Live
  <2>6. ParentInv'
    BY <1>3, <2>4 DEF IInv, TypeOK, ParentInv, ParentAlive
  <2> QED
    BY <2>5, <2>6, SMTT(30)
<1>7. SleepInv'
  <2>1. CASE state' = [state EXCEPT ![p] = "RUNNING"] /\ pc' = [pc EXCEPT ![p] = "user"]
             /\ chan' = [chan EXCEPT ![p] = None]
    BY <1>1, <1>3, <2>1
    DEF IInv, TypeOK, SleepInv, Live, NoMissedChild, NoMissedThread,
        NoKilledSleeper, Zombies, Children, PslChan
  <2>2. CASE state' = [state EXCEPT ![p] = "SLEEPING"] /\ pc' = [pc EXCEPT ![p] = at]
             /\ chan' = [chan EXCEPT ![p] = c] /\ ~killed[p]
    <3>1. CASE at = "wait"
      BY <1>1, <1>3, <2>2, <3>1, SMTT(30)
      DEF IInv, TypeOK, SleepInv, Live, NoMissedChild, NoMissedThread,
          NoKilledSleeper, Zombies, Children, PslChan
    <3>2. CASE at = "join"
      BY <1>1, <1>3, <2>2, <3>2, SMTT(30)
      DEF IInv, TypeOK, SleepInv, Live, NoMissedChild, NoMissedThread,
          NoKilledSleeper, Zombies, Children, Threads, PslChan
    <3> QED
      BY <1>1, <3>1, <3>2, Zenon
  <2> QED
    BY <1>4, <2>1, <2>2, Zenon
<1>8. SlotInv' /\ PendingInv'
  BY <1>1, <1>3, <1>4 DEF IInv, TypeOK, SlotInv, PendingInv
<1> QED
  BY <1>5, <1>6, <1>7, <1>8, Zenon DEF IInv

-----------------------------------------------------------------------------
(* Sets of stack slots *)

\* What the proofs need of Cardinality.
StackCounting ==
  /\ Cardinality({}) = 0 /\ Cardinality({0}) <= 2 /\ Cardinality({0, 1}) <= 2
  /\ \A S \in SUBSET Stacks :
       /\ Cardinality(S) \in Nat /\ (Stacks \ S = {} => Cardinality(S) = NSTACK)
       /\ \A i \in Stacks : Cardinality(S \cup {i}) <= Cardinality(S) + 1
       /\ \A i \in S :
            /\ Cardinality(S \ {i}) = Cardinality(S) - 1
            /\ Cardinality(S) >= 1
            /\ Cardinality(S) = 1 => S \ {i} = {}

\* Only the full set has no slot left.
LEMMA StackSets ==
  ASSUME StackCounting, NEW S \in SUBSET Stacks
  PROVE  /\ Cardinality(S) \in Nat
         /\ Stacks \ S = {} => Cardinality(S) = NSTACK
BY Zenon DEF StackCounting

\* Reserving a slot, as KT_Create does, adds at most one.
LEMMA AddSlot ==
  ASSUME StackCounting, NEW S \in SUBSET Stacks, NEW i \in Stacks
  PROVE  Cardinality(S \cup {i}) <= Cardinality(S) + 1
BY Zenon DEF StackCounting

\* Giving a slot back, as clear_psl does, takes exactly one.
LEMMA RemoveSlot ==
  ASSUME StackCounting, NEW S \in SUBSET Stacks, NEW i \in S
  PROVE  /\ Cardinality(S \ {i}) = Cardinality(S) - 1
         /\ Cardinality(S) >= 1
         /\ Cardinality(S) = 1 => S \ {i} = {}
BY Zenon DEF StackCounting

\* userinit establishes the invariant.
LEMMA InitInv ==
  ASSUME StackCounting, Init
  PROVE  IInv
<1>1. TypeOK
  <2>1. 1 \in Tables /\ None \in Int /\ 1 \in 0 .. MaxPid /\ 0 \in 0 .. MaxPid
    BY ProcAssumption DEF Tables, None
  <2>2. 2 \in 1 .. MaxPid + 1 /\ 0 \in Stacks /\ 0 \in 0 .. NSTACK
    BY ProcAssumption DEF Stacks
  <2>3. /\ state \in [Procs -> States] /\ pid \in [Procs -> 0 .. MaxPid]
        /\ pgdir \in [Procs -> Tables \cup {NoTable}] /\ pgtabs \in SUBSET Tables
    BY <2>1, Zenon DEF Init, States
  <2> QED
    BY <2>1, <2>2, <2>3, Zenon DEF Init, TypeOK
<1>2. CallInv
  BY ProcAssumption DEF Init, CallInv, Live, Procs, None, initproc
<1>3. ParentInv
  BY DEF Init, ParentInv, ParentAlive, Procs, None
<1>4. SleepInv
  BY Zenon DEF Init, SleepInv, NoMissedChild, NoMissedThread, NoKilledSleeper, None
<1>5. SlotInv
  BY DEF StackCounting, Init, SlotInv, None
<1>6. PendingInv
  BY Zenon DEF Init, PendingInv
<1> QED
  BY <1>1, <1>2, <1>3, <1>4, <1>5, <1>6, Zenon DEF IInv

-----------------------------------------------------------------------------
(* Calls on threads *)

\* A new stack list belonged to nobody.
LEMMA KT_Create_firstInv ==
  ASSUME StackCounting, IInv, NEW p \in Procs, KT_Create_first(p)
  PROVE  IInv'
<1>1. PICK l \in FreePsls : /\ slstate' = [slstate EXCEPT ![l] = "USED"]
                            /\ thread_count' = [thread_count EXCEPT ![l] = InitialThreads]
                            /\ stackz' = [stackz EXCEPT ![l] = @ \cup {0, 1}]
                            /\ psl' = [psl EXCEPT ![p] = l]
  BY ZenonT(30) DEF KT_Create_first
<1>2. /\ CanThread(p) /\ psl[p] = None /\ slindex' = [slindex EXCEPT ![p] = 0]
      /\ newslot' = [newslot EXCEPT ![p] = 1] /\ pc' = [pc EXCEPT ![p] = "clone"]
      /\ UNCHANGED <<state, pid, parent, pthread, chan, killed, pgdir, np, nextpid, pgtabs, torn>>
  BY Zenon DEF pgvars, KT_Create_first
<1>3. /\ psl \in [Procs -> Psls \cup {None}] /\ slindex \in [Procs -> Stacks \cup {None}]
      /\ newslot \in [Procs -> Stacks \cup {None}] /\ stackz \in [Psls -> SUBSET Stacks]
      /\ thread_count \in [Psls -> 0 .. NSTACK] /\ slstate \in [Psls -> {"UNUSED", "USED"}]
  BY Zenon DEF IInv, TypeOK
<1>4. l \in Psls /\ l # None /\ slstate[l] = "UNUSED" /\ stackz[l] = {}
  BY <1>1, Consts, Zenon DEF FreePsls, IInv, SlotInv
<1>5. \A q \in Procs : psl[q] # l
  <2>1. \A q \in Procs : psl[q] # None => slstate[psl[q]] = "USED"
    BY Zenon DEF IInv, SlotInv
  <2> QED
    BY <1>4, <2>1
<1>6. /\ psl'[p] = l /\ slindex'[p] = 0 /\ newslot'[p] = 1
      /\ \A r \in Procs : r # p => /\ psl'[r] = psl[r] /\ slindex'[r] = slindex[r]
                                    /\ newslot'[r] = newslot[r]
  BY <1>1, <1>2, <1>3, Zenon
<1>7. /\ slstate'[l] = "USED" /\ thread_count'[l] = InitialThreads /\ stackz'[l] = {0, 1}
      /\ \A k \in Psls : k # l => /\ slstate'[k] = slstate[k] /\ stackz'[k] = stackz[k]
                                   /\ thread_count'[k] = thread_count[k]
  <2>1. stackz[l] \cup {0, 1} = {0, 1}
    BY <1>4, Zenon
  <2> QED
    BY <1>1, <1>3, <1>4, <2>1, Zenon
<1>8. /\ CallInv' /\ ParentInv' /\ SleepInv'
      /\ pc' \in [Procs -> {"user", "fork", "clone", "copy", "wait", "join"}]
      /\ pc[p] = "user" /\ pc'[p] = "clone" /\ \A r \in Procs : r # p => pc'[r] = pc[r]
  <2>1. \A r \in Procs : psl'[r] = psl[r] \/ (r = p /\ psl'[r] # None)
    BY <1>4, <1>6, Zenon
  <2> QED
    BY <1>2, <2>1, CreateFrame, Zenon
<1>9. TypeOK'
  <2>1. InitialThreads \in 0 .. NSTACK
    BY ProcAssumption DEF InitialThreads
  <2>2. stackz[l] \cup {0, 1} \in SUBSET Stacks
    BY <1>4, Consts, Zenon
  <2>3. psl' \in [Procs -> Psls \cup {None}] /\ slstate' \in [Psls -> {"UNUSED", "USED"}]
    BY <1>1, <1>3, <1>4, Zenon
  <2>4. /\ slindex' \in [Procs -> Stacks \cup {None}] /\ newslot' \in [Procs -> Stacks \cup {None}]
        /\ stackz' \in [Psls -> SUBSET Stacks] /\ thread_count' \in [Psls -> 0 .. NSTACK]
    BY <1>1, <1>2, <1>3, <2>1, <2>2, Consts, Zenon
  <2> QED
    BY <1>2, <1>8, <2>3, <2>4, Zenon DEF IInv, TypeOK
<1>10. SlotInv'
  <2>1. Cardinality(stackz'[l]) <= thread_count'[l]
    BY <1>7, Zenon DEF StackCounting, InitialThreads
  <2>2. ASSUME NEW k \in Psls
        PROVE  /\ slstate'[k] = "UNUSED" => stackz'[k] = {}
               /\ Cardinality(stackz'[k]) <= thread_count'[k]
    <3>1. CASE k = l
      BY <1>7, <2>1, <3>1
    <3>2. CASE k # l
      <4>1. slstate'[k] = slstate[k] /\ stackz'[k] = stackz[k] /\ thread_count'[k] = thread_count[k]
        BY <1>7, <3>2, Zenon
      <4>2. /\ slstate[k] = "UNUSED" => stackz[k] = {}
            /\ Cardinality(stackz[k]) <= thread_count[k]
        BY Zenon DEF IInv, SlotInv
      <4> QED
        BY <4>1, <4>2
    <3> QED
      BY <3>1, <3>2, Zenon
  <2>3. ASSUME NEW r \in Procs, psl'[r] # None
        PROVE  /\ slstate'[psl'[r]] = "USED" /\ slindex'[r] \in stackz'[psl'[r]]
               /\ \A q \in Procs \ {r} : psl'[q] = psl'[r] => slindex'[q] # slindex'[r]
    <3>1. CASE r = p
      BY <1>5, <1>6, <1>7, <3>1, Zenon
    <3>2. CASE r # p
      <4>1. psl'[r] = psl[r] /\ slindex'[r] = slindex[r] /\ psl[r] \in Psls /\ psl[r] # l
        <5>1. psl'[r] = psl[r] /\ slindex'[r] = slindex[r]
          BY <1>6, <3>2, Zenon
        <5>2. psl[r] \in Psls /\ psl[r] # l
          BY <1>3, <1>5, <2>3, <5>1, Zenon
        <5> QED
          BY <5>1, <5>2, Zenon
      <4>2. /\ slstate[psl[r]] = "USED" /\ slindex[r] \in stackz[psl[r]]
            /\ \A q \in Procs \ {r} : psl[q] = psl[r] => slindex[q] # slindex[r]
        BY <2>3, <4>1, Zenon DEF IInv, SlotInv
      <4> QED
        <5>1. slstate'[psl[r]] = slstate[psl[r]] /\ stackz'[psl[r]] = stackz[psl[r]]
          BY <1>7, <4>1, Zenon
        <5>2. ASSUME NEW q \in Procs \ {r}, psl'[q] = psl'[r]
              PROVE  slindex'[q] # slindex'[r]
          <6>1. q # p
            BY <1>6, <4>1, <5>2, Zenon
          <6>2. psl'[q] = psl[q] /\ slindex'[q] = slindex[q]
            BY <1>6, <6>1, Zenon
          <6> QED
            BY <4>1, <4>2, <5>2, <6>2, Zenon
        <5> QED
          BY <4>1, <4>2, <5>1, <5>2
    <3> QED
      BY <3>1, <3>2, Zenon
  <2> QED
    BY <2>2, <2>3, Zenon DEF SlotInv
<1>11. PendingInv'
  <2>1. ASSUME NEW r \in Procs, r # p
        PROVE  /\ pc'[r] \notin {"clone", "copy"} => newslot'[r] = None
               /\ pc'[r] \in {"clone", "copy"} => (newslot'[r] = None <=> psl'[r] = None)
    BY <1>6, <1>8, <2>1, Zenon DEF IInv, PendingInv
  <2>2. ASSUME NEW r \in Procs, r # p, newslot'[r] # None
        PROVE  /\ newslot'[r] \in stackz'[psl'[r]]
               /\ \A q \in Procs : psl'[q] = psl'[r] =>
                    /\ slindex'[q] # newslot'[r]
                    /\ q # r => newslot'[q] # newslot'[r]
    <3>1. /\ newslot'[r] = newslot[r] /\ psl'[r] = psl[r] /\ psl[r] # None
      BY <1>6, <2>2, Zenon DEF IInv, PendingInv
    <3>2. psl[r] \in Psls /\ psl[r] # l
      BY <1>3, <1>5, <3>1, Zenon
    <3>3. /\ newslot[r] \in stackz[psl[r]]
          /\ \A q \in Procs : psl[q] = psl[r] =>
               /\ slindex[q] # newslot[r]
               /\ q # r => newslot[q] # newslot[r]
      BY <2>2, <3>1, Zenon DEF IInv, PendingInv
    <3> QED
      BY <1>6, <1>7, <3>1, <3>2, <3>3, Zenon
  <2>3. /\ pc'[p] \in {"clone", "copy"} /\ newslot'[p] # None /\ psl'[p] # None
        /\ newslot'[p] \in stackz'[psl'[p]] /\ slindex'[p] # newslot'[p]
    BY <1>4, <1>6, <1>7, <1>8, Consts
  <2>4. \A q \in Procs : q # p => psl'[q] # psl'[p]
    BY <1>5, <1>6, Zenon
  <2> QED
    BY <2>1, <2>2, <2>3, <2>4, Zenon DEF PendingInv
<1> QED
  BY <1>8, <1>9, <1>10, <1>11, Zenon DEF IInv

\* A list that is not full has fewer than NSTACK threads.
LEMMA Room ==
  ASSUME IInv, NEW p \in Procs, psl[p] # None, ~PslFull(psl[p])
  PROVE  /\ psl[p] \in Psls /\ stackz[psl[p]] \in SUBSET Stacks
         /\ thread_count[psl[p]] \in Nat /\ thread_count[psl[p]] < NSTACK
<1>1. psl[p] \in Psls
  BY Zenon DEF IInv, TypeOK
<1>2. stackz[psl[p]] \in SUBSET Stacks /\ thread_count[psl[p]] \in 0 .. NSTACK
  BY <1>1, Zenon DEF IInv, TypeOK
<1>3. thread_count[psl[p]] # NSTACK
  BY Zenon DEF PslFull
<1> QED
  BY <1>1, <1>2, <1>3, ProcAssumption

\* A list that is not full has a free slot, since its marked slots are counted.
LEMMA KT_Create_moreInv ==
  ASSUME StackCounting, IInv, NEW p \in Procs, KT_Create_more(p)
  PROVE  IInv'
<1>a. /\ psl[p] \in Psls /\ stackz[psl[p]] \in SUBSET Stacks
      /\ thread_count[psl[p]] \in Nat /\ thread_count[psl[p]] < NSTACK
  BY Room, Zenon DEF KT_Create_more
<1>b. FreeStacks(psl[p]) # {}
  <2>1. Cardinality(stackz[psl[p]]) <= thread_count[psl[p]]
    BY <1>a, Zenon DEF IInv, SlotInv
  <2>2. Cardinality(stackz[psl[p]]) \in Nat /\ Cardinality(stackz[psl[p]]) # NSTACK
    BY <1>a, <2>1, StackSets, ProcAssumption
  <2> QED
    BY <1>a, <2>2, StackSets, Zenon DEF FreeStacks
<1>c. PICK i \in FreeStacks(psl[p]) :
        /\ stackz' = [stackz EXCEPT ![psl[p]] = @ \cup {i}]
        /\ newslot' = [newslot EXCEPT ![p] = i]
  BY <1>b, Zenon DEF KT_Create_more
<1>d. i \in Stacks /\ i \notin stackz[psl[p]]
  BY <1>c, Zenon DEF FreeStacks
<1>e. /\ CanThread(p) /\ thread_count' = [thread_count EXCEPT ![psl[p]] = @ + 1]
      /\ pc' = [pc EXCEPT ![p] = "clone"]
      /\ UNCHANGED <<state, pid, parent, pthread, psl, slindex, chan, killed, pgdir>>
      /\ UNCHANGED <<slstate, np, nextpid, pgtabs, torn>>
  BY Zenon DEF pgvars, KT_Create_more, procvars
<1>f. /\ CallInv' /\ ParentInv' /\ SleepInv'
      /\ pc' \in [Procs -> {"user", "fork", "clone", "copy", "wait", "join"}]
      /\ pc[p] = "user" /\ pc'[p] = "clone" /\ \A r \in Procs : r # p => pc'[r] = pc[r]
  BY <1>e, CreateFrame, Zenon
<1>1. TypeOK'
  <2>1. thread_count[psl[p]] + 1 \in 0 .. NSTACK
    BY <1>a, ProcAssumption
  <2>2. /\ thread_count' \in [Psls -> 0 .. NSTACK] /\ stackz' \in [Psls -> SUBSET Stacks]
        /\ newslot' \in [Procs -> Stacks \cup {None}]
    <3>1. stackz[psl[p]] \cup {i} \in SUBSET Stacks
      BY <1>a, <1>d, Zenon
    <3> QED
      BY <1>a, <1>c, <1>d, <1>e, <2>1, <3>1, Zenon DEF IInv, TypeOK
  <2> QED
    BY <1>e, <1>f, <2>2, Zenon DEF IInv, TypeOK
<1>5. SlotInv'
  <2>5. Cardinality(stackz'[psl[p]]) <= thread_count'[psl[p]]
    <3>1. /\ stackz'[psl[p]] = stackz[psl[p]] \cup {i}
          /\ thread_count'[psl[p]] = thread_count[psl[p]] + 1
      BY <1>a, <1>c, <1>e, Zenon DEF IInv, TypeOK
    <3>2. Cardinality(stackz[psl[p]]) <= thread_count[psl[p]]
      BY <1>a, Zenon DEF IInv, SlotInv
    <3>3. Cardinality(stackz[psl[p]] \cup {i}) <= Cardinality(stackz[psl[p]]) + 1
      BY <1>a, <1>d, AddSlot, Zenon
    <3>4. Cardinality(stackz[psl[p]]) \in Nat /\ Cardinality(stackz[psl[p]] \cup {i}) \in Nat
      <4>1. stackz[psl[p]] \cup {i} \in SUBSET Stacks
        BY <1>a, <1>d, Zenon
      <4> QED
        BY <1>a, <4>1, StackSets, Zenon
    <3> QED
      BY <1>a, <3>1, <3>2, <3>3, <3>4
  <2>6. /\ UNCHANGED <<psl, slstate, slindex>>
        /\ thread_count' = [thread_count EXCEPT ![psl[p]] = @ + 1]
    BY <1>e, Zenon
  <2>7. /\ stackz \in [Psls -> SUBSET Stacks] /\ DOMAIN thread_count = Psls
        /\ psl \in [Procs -> Psls \cup {None}] /\ slstate[psl[p]] = "USED"
    <3>1. psl[p] # None
      BY <1>a, Consts, Zenon
    <3> QED
      BY <3>1, Zenon DEF IInv, TypeOK, SlotInv
  <2>8. ASSUME NEW l \in Psls
        PROVE  /\ slstate'[l] = "UNUSED" => stackz'[l] = {}
               /\ Cardinality(stackz'[l]) <= thread_count'[l]
    <3>1. CASE l = psl[p]
      BY <2>5, <2>6, <2>7, <3>1, Zenon
    <3>2. CASE l # psl[p]
      BY <1>c, <2>6, <2>7, <3>2, Zenon DEF IInv, SlotInv
    <3> QED
      BY <3>1, <3>2, Zenon
  <2>9. \A l \in Psls : stackz[l] \subseteq stackz'[l]
    BY <1>c, <2>7, Zenon
  <2>10. ASSUME NEW r \in Procs, psl'[r] # None
         PROVE  /\ slstate'[psl'[r]] = "USED" /\ slindex'[r] \in stackz'[psl'[r]]
                /\ \A q \in Procs \ {r} : psl'[q] = psl'[r] => slindex'[q] # slindex'[r]
    <3>1. psl[r] \in Psls
      BY <2>6, <2>7, <2>10, Zenon
    <3> QED
      BY <2>6, <2>9, <2>10, <3>1, Zenon DEF IInv, SlotInv
  <2> QED
    BY <2>8, <2>10, Zenon DEF SlotInv
<1>6. PendingInv'
  <2>6. /\ DOMAIN stackz = Psls /\ psl \in [Procs -> Psls \cup {None}]
        /\ DOMAIN newslot = Procs /\ DOMAIN pc = Procs
    BY Zenon DEF IInv, TypeOK
  <2>7. /\ newslot'[p] = i /\ pc'[p] = "clone" /\ i # None /\ psl[p] # None
        /\ \A q \in Procs : q # p => newslot'[q] = newslot[q] /\ pc'[q] = pc[q]
    BY <1>a, <1>c, <1>d, <1>f, <2>6, Consts, Zenon
  <2>8. i \in stackz'[psl[p]] /\ \A l \in Psls : stackz[l] \subseteq stackz'[l]
    BY <1>a, <1>c, <2>6, Zenon
  <2>9. \A q \in Procs : psl[q] = psl[p] =>
          slindex[q] # i /\ (newslot[q] # None => newslot[q] # i)
    BY <1>d, <2>7, Zenon DEF IInv, SlotInv, PendingInv
  <2>10. \A q \in Procs : newslot[q] # None => psl[q] \in Psls
    BY <2>6, Zenon DEF IInv, PendingInv
  <2>11. ASSUME NEW q \in Procs, q # p, newslot[q] # None
         PROVE  /\ newslot[q] \in stackz'[psl[q]]
                /\ \A r \in Procs : psl[r] = psl[q] =>
                     /\ slindex[r] # newslot[q]
                     /\ r # q => newslot'[r] # newslot[q]
    BY <2>7, <2>8, <2>9, <2>10, <2>11, Zenon DEF IInv, PendingInv
  <2>12. \A q \in Procs : q # p =>
           /\ pc'[q] \notin {"clone", "copy"} => newslot'[q] = None
           /\ pc'[q] \in {"clone", "copy"} => (newslot'[q] = None <=> psl[q] = None)
    BY <2>7, Zenon DEF IInv, PendingInv
  <2>13. ASSUME NEW q \in Procs
         PROVE  /\ pc'[q] \notin {"clone", "copy"} => newslot'[q] = None
                /\ pc'[q] \in {"clone", "copy"} => (newslot'[q] = None <=> psl'[q] = None)
                /\ newslot'[q] # None =>
                     /\ newslot'[q] \in stackz'[psl'[q]]
                     /\ \A r \in Procs : psl'[r] = psl'[q] =>
                          /\ slindex'[r] # newslot'[q]
                          /\ r # q => newslot'[r] # newslot'[q]
    <3>1. CASE q = p
      <4>1. \A r \in Procs : psl[r] = psl[p] => slindex[r] # i /\ (r # p => newslot'[r] # i)
        <5>1. i # None
          BY <2>7, Zenon
        <5> QED
          BY <2>7, <2>9, <5>1
      <4>2. pc'[p] \in {"clone", "copy"} /\ psl'[p] # None /\ i \in stackz'[psl'[p]]
        BY <1>e, <2>7, <2>8, Zenon
      <4> QED
        BY <1>e, <2>7, <3>1, <4>1, <4>2, Zenon
    <3>2. CASE q # p
      <4>1. newslot'[q] = newslot[q]
        BY <2>7, <3>2, Zenon
      <4> QED
        BY <1>e, <2>11, <2>12, <3>2, <4>1, Zenon
    <3> QED
      BY <3>1, <3>2, Zenon
  <2> QED
    BY <2>13, Zenon DEF PendingInv
<1> QED
  BY <1>1, <1>5, <1>6, <1>f, Zenon DEF IInv
=============================================================================
