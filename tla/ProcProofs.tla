----------------------------- MODULE ProcProofs -----------------------------
(*****************************************************************************)
(* A KT_Create that fails, wait and KT_Join preserve the inductive invariant *)
(* of Proc too, and what follows from it.  Facts about finite sets are       *)
(* instantiated where the first proof needs one; the lemmas before it count  *)
(* slots under the assumption StackCounting, which StacksCount proves.       *)
(*****************************************************************************)
EXTENDS ProcInvariant

\* A KT_Create that fails leaves a count too large, never one too small.
LEMMA KT_Create_failsInv ==
  ASSUME StackCounting, IInv, NEW p \in Procs, KT_Create_fails(p)
  PROVE  IInv'
<1>0. /\ state[p] = "RUNNING" /\ pc[p] = "user"
      /\ UNCHANGED <<state, pid, parent, pthread, chan, killed, pgdir, pc, np,
                     newslot, nextpid>>
  BY Zenon DEF KT_Create_fails, CanThread, CanCall, callvars
<1>1. CASE psl[p] = None
  <2>1. PICK l \in FreePsls :
          /\ slstate' = [slstate EXCEPT ![l] = "USED"]
          /\ thread_count' = [thread_count EXCEPT ![l] = InitialThreads]
          /\ stackz' = [stackz EXCEPT ![l] = @ \cup {0}]
          /\ psl' = [psl EXCEPT ![p] = l]
          /\ slindex' = [slindex EXCEPT ![p] = 0]
    BY <1>1, Zenon DEF KT_Create_fails
  <2>2. l \in Psls /\ stackz[l] = {} /\ \A q \in Procs : psl[q] # l
    BY Consts DEF IInv, TypeOK, SlotInv, FreePsls
  <2>3. /\ stackz'[l] = {0} /\ thread_count'[l] = 2 /\ Cardinality(stackz'[l]) <= 2
        /\ InitialThreads \in 0 .. NSTACK /\ stackz[l] \cup {0} \in SUBSET Stacks
    BY <2>1, <2>2, Consts, ProcAssumption, SMTT(30) DEF StackCounting, IInv, TypeOK, InitialThreads
  <2>4. TypeOK'
    BY <2>1, <2>2, <2>3, Consts, ZenonT(30) DEF IInv, TypeOK, KT_Create_fails, callvars
  <2>5. CallInv'
    <3>1. DOMAIN psl = Procs
      BY Zenon DEF IInv, TypeOK
    <3>2. \A q \in Procs : q # p => psl'[q] = psl[q]
      BY <2>1, <3>1, Zenon
    <3> QED
      BY <1>0, <3>2, Consts DEF IInv, CallInv, Live
  <2>6. ParentInv'
    BY Zenon DEF IInv, ParentInv, ParentAlive, Live, KT_Create_fails
  <2>7. SleepInv'
    BY <1>0, <2>1, <2>2, Consts, SMTT(30)
    DEF IInv, TypeOK, SleepInv, Live, NoMissedChild, NoMissedThread,
        NoKilledSleeper, Zombies, Children, PslChan
  <2>8. SlotInv'
    BY <2>1, <2>2, <2>3, Consts, SMTT(30) DEF IInv, TypeOK, SlotInv
  <2>9. PendingInv'
    <3>1. /\ DOMAIN stackz = Psls /\ psl \in [Procs -> Psls \cup {None}]
          /\ DOMAIN slindex = Procs /\ newslot[p] = None
      BY <1>0, Zenon DEF IInv, TypeOK, PendingInv
    <3>2. \A q \in Procs : q # p => psl'[q] = psl[q] /\ slindex'[q] = slindex[q]
      BY <2>1, <3>1, Zenon
    <3>3. /\ psl'[p] = l
          /\ \A q \in Procs : psl[q] # None => stackz'[psl[q]] = stackz[psl[q]]
      BY <2>1, <2>2, <3>1, Zenon
    <3>4. \A q \in Procs : newslot[q] # None => q # p /\ psl[q] # None
      BY <3>1, Zenon DEF IInv, PendingInv
    <3>5. ASSUME NEW r \in Procs, newslot[r] # None
          PROVE  /\ newslot[r] \in stackz'[psl'[r]]
                 /\ \A q \in Procs : psl'[q] = psl'[r] =>
                      /\ slindex'[q] # newslot[r]
                      /\ q # r => newslot[q] # newslot[r]
      <4>1. newslot[r] \in stackz'[psl'[r]]
        BY <3>2, <3>3, <3>4, <3>5 DEF IInv, PendingInv
      <4>2. \A q \in Procs : psl'[q] = psl'[r] => q # p /\ psl[q] = psl[r]
        BY <2>2, <3>2, <3>3, <3>4, <3>5, Zenon
      <4> QED
        BY <3>2, <3>5, <4>1, <4>2 DEF IInv, PendingInv
    <3>6. \A r \in Procs :
            /\ pc[r] \notin {"clone", "copy"} => newslot[r] = None
            /\ pc[r] \in {"clone", "copy"} => (newslot[r] = None <=> psl'[r] = None)
      BY <1>0, <3>2, Zenon DEF IInv, PendingInv
    <3> QED
      BY <1>0, <3>5, <3>6, Zenon DEF PendingInv
  <2> QED
    BY <2>4, <2>5, <2>6, <2>7, <2>8, <2>9, Zenon DEF IInv
<1>2. CASE psl[p] # None
  <2>1. /\ thread_count' = [thread_count EXCEPT ![psl[p]] = @ + 1]
        /\ UNCHANGED <<stackz, slstate, psl, slindex>> /\ ~PslFull(psl[p])
    BY <1>2, SMTT(30) DEF KT_Create_fails
  <2>2. /\ psl[p] \in Psls /\ thread_count[psl[p]] + 1 \in 0 .. NSTACK
        /\ thread_count[psl[p]] \in Nat
    BY <1>2, <2>1, Room, ProcAssumption, SMTT(30)
  <2>3. TypeOK'
    BY <2>1, <2>2, Consts, ZenonT(30) DEF IInv, TypeOK, KT_Create_fails, callvars
  <2>4. CallInv' /\ ParentInv' /\ PendingInv'
    BY <2>1
    DEF IInv, CallInv, ParentInv, ParentAlive, PendingInv, Live, KT_Create_fails,
        callvars
  <2>5. SleepInv'
    BY <2>1, Zenon
    DEF IInv, SleepInv, Live, NoMissedChild, NoMissedThread, NoKilledSleeper,
        Zombies, Children, KT_Create_fails, callvars
  <2>6. Cardinality(stackz[psl[p]]) <= thread_count[psl[p]] + 1
    BY <2>2, StackSets DEF IInv, TypeOK, SlotInv
  <2>7. SlotInv'
    BY <2>1, <2>2, <2>6, SMTT(30) DEF IInv, TypeOK, SlotInv
  <2> QED
    BY <2>3, <2>4, <2>5, <2>7, Zenon DEF IInv
<1> QED
  BY <1>1, <1>2, Zenon

\* What wait and KT_Join do about an exited child or thread q.
LEMMA ReapInv ==
  ASSUME StackCounting, IInv, NEW p \in Procs, NEW at \in {"wait", "join"}, InLoop(p, at),
         NEW q \in Procs, state[q] = "ZOMBIE", Reap(p, q),
         pgtabs' \in SUBSET Tables, UNCHANGED torn
  PROVE  IInv'
<1>1. /\ state[p] \in {"RUNNING", "RUNNABLE"} /\ pc[p] \in {"user", "wait", "join"}
      /\ p # q /\ q # initproc /\ pc[q] = "user" /\ newslot[q] = None
  BY Zenon DEF InLoop, CanCall, IInv, CallInv, PendingInv, Live
<1>2. /\ state' = [state EXCEPT ![q] = "UNUSED", ![p] = "RUNNING"]
      /\ pid' = [pid EXCEPT ![q] = 0]
      /\ parent' = [parent EXCEPT ![q] = None]
      /\ pthread' = [pthread EXCEPT ![q] = None]
      /\ psl' = [psl EXCEPT ![q] = None]
      /\ slindex' = [slindex EXCEPT ![q] = 0]
      /\ killed' = [killed EXCEPT ![q] = FALSE]
      /\ chan' = [chan EXCEPT ![p] = None]
      /\ pc' = [pc EXCEPT ![p] = "user"]
      /\ pgdir' = [pgdir EXCEPT ![q] = NoTable]
      /\ UNCHANGED <<np, newslot, nextpid, torn>>
  BY Zenon DEF Reap
<1>3. psl[q] # None =>
        /\ psl[q] \in Psls
        /\ slindex[q] \in stackz[psl[q]] /\ stackz[psl[q]] \in SUBSET Stacks
        /\ Cardinality(stackz[psl[q]] \ {slindex[q]}) <= thread_count[psl[q]] - 1
        /\ thread_count[psl[q]] - 1 \in 0 .. NSTACK
        /\ thread_count[psl[q]] = 1 => stackz[psl[q]] \ {slindex[q]} = {}
  <2> SUFFICES ASSUME psl[q] # None
               PROVE  /\ psl[q] \in Psls
                      /\ slindex[q] \in stackz[psl[q]] /\ stackz[psl[q]] \in SUBSET Stacks
                      /\ Cardinality(stackz[psl[q]] \ {slindex[q]}) <= thread_count[psl[q]] - 1
                      /\ thread_count[psl[q]] - 1 \in 0 .. NSTACK
                      /\ thread_count[psl[q]] = 1 => stackz[psl[q]] \ {slindex[q]} = {}
    BY Zenon
  <2>1. psl[q] \in Psls
    BY Zenon DEF IInv, TypeOK
  <2>2. /\ slindex[q] \in stackz[psl[q]] /\ stackz[psl[q]] \in SUBSET Stacks
        /\ thread_count[psl[q]] \in 0 .. NSTACK
        /\ Cardinality(stackz[psl[q]]) <= thread_count[psl[q]]
    BY <2>1, Zenon DEF IInv, TypeOK, SlotInv
  <2>3. Cardinality(stackz[psl[q]]) \in Nat
    BY <2>2, StackSets, Zenon
  <2>4. /\ Cardinality(stackz[psl[q]] \ {slindex[q]}) = Cardinality(stackz[psl[q]]) - 1
        /\ Cardinality(stackz[psl[q]]) >= 1
        /\ Cardinality(stackz[psl[q]]) = 1 => stackz[psl[q]] \ {slindex[q]} = {}
    BY <2>2, RemoveSlot, ZenonT(30)
  <2> QED
    BY <2>1, <2>2, <2>3, <2>4, ProcAssumption, SMTT(30)
<1>t. /\ psl \in [Procs -> Psls \cup {None}] /\ DOMAIN slindex = Procs
      /\ stackz \in [Psls -> SUBSET Stacks] /\ thread_count \in [Psls -> 0 .. NSTACK]
      /\ DOMAIN slstate = Psls /\ DOMAIN pc = Procs
  BY Zenon DEF IInv, TypeOK
<1>r. /\ \A r \in Procs : r # q => psl'[r] = psl[r] /\ slindex'[r] = slindex[r]
      /\ psl'[q] = None /\ UNCHANGED newslot
      /\ \A r \in Procs : pc'[r] \in {"clone", "copy"} <=> pc[r] \in {"clone", "copy"}
  BY <1>1, <1>2, <1>t, Zenon
<1>4. ASSUME psl[q] = None
      PROVE  /\ stackz' \in [Psls -> SUBSET Stacks]
             /\ thread_count' \in [Psls -> 0 .. NSTACK]
             /\ slstate' \in [Psls -> {"UNUSED", "USED"}]
             /\ SlotInv' /\ PendingInv'
  <2>1. UNCHANGED <<stackz, thread_count, slstate>>
    BY <1>4, Zenon DEF Reap, clear_psl, slvars
  <2>2. SlotInv'
    BY <1>r, <2>1 DEF IInv, SlotInv
  <2>3. PendingInv'
    BY <1>1, <1>r, <1>4, <2>1 DEF IInv, PendingInv
  <2> QED
    BY <2>1, <2>2, <2>3, Zenon DEF IInv, TypeOK
<1>5. ASSUME psl[q] # None
      PROVE  /\ stackz' \in [Psls -> SUBSET Stacks]
             /\ thread_count' \in [Psls -> 0 .. NSTACK]
             /\ slstate' \in [Psls -> {"UNUSED", "USED"}]
             /\ SlotInv' /\ PendingInv'
  <2> DEFINE l == psl[q]
  <2>1. /\ stackz' = [stackz EXCEPT ![l] = @ \ {slindex[q]}]
        /\ thread_count' = [thread_count EXCEPT ![l] = @ - 1]
        /\ slstate' = IF thread_count[l] = 1
                      THEN [slstate EXCEPT ![l] = "UNUSED"] ELSE slstate
    BY <1>5, SMTT(30) DEF Reap, clear_psl, StackOf
  <2>2. /\ stackz' \in [Psls -> SUBSET Stacks]
        /\ thread_count' \in [Psls -> 0 .. NSTACK]
    BY <1>3, <1>5, <1>t, <2>1, Zenon
  <2>3. slstate' \in [Psls -> {"UNUSED", "USED"}]
    BY <2>1, Zenon DEF IInv, TypeOK
  <2>4. /\ l \in Psls /\ stackz'[l] = stackz[l] \ {slindex[q]}
        /\ Cardinality(stackz'[l]) <= thread_count'[l]
        /\ slstate'[l] = "UNUSED" => thread_count[l] = 1 \/ slstate[l] = "UNUSED"
    BY <1>3, <1>5, <1>t, <2>1, Zenon
  <2>5. \A m \in Psls : m # l => /\ stackz'[m] = stackz[m] /\ slstate'[m] = slstate[m]
                                 /\ thread_count'[m] = thread_count[m]
    BY <1>t, <2>1, Zenon
  <2>6. ASSUME NEW m \in Psls
        PROVE  /\ slstate'[m] = "UNUSED" => stackz'[m] = {}
               /\ Cardinality(stackz'[m]) <= thread_count'[m]
    <3>1. CASE m = l
      BY <1>3, <1>5, <2>4, <3>1, Zenon DEF IInv, SlotInv
    <3>2. CASE m # l
      BY <2>5, <3>2 DEF IInv, SlotInv
    <3> QED
      BY <3>1, <3>2, Zenon
  <2>7. ASSUME NEW r \in Procs, r # q, psl[r] = l
        PROVE  /\ slindex[r] \in stackz'[l] /\ slindex[r] # slindex[q]
               /\ thread_count[l] # 1 /\ slstate'[l] = "USED"
    <3>1. slstate[l] = "USED" /\ slindex[r] \in stackz[l] /\ slindex[r] # slindex[q]
      BY <1>5, <2>7, Zenon DEF IInv, SlotInv
    <3>2. slindex[r] \in stackz'[l] /\ thread_count[l] # 1
      BY <1>3, <1>5, <2>4, <3>1, Zenon
    <3> QED
      BY <2>1, <3>1, <3>2, Zenon
  <2>8. ASSUME NEW r \in Procs, psl'[r] # None
        PROVE  /\ slstate'[psl'[r]] = "USED" /\ slindex'[r] \in stackz'[psl'[r]]
               /\ \A s \in Procs \ {r} : psl'[s] = psl'[r] => slindex'[s] # slindex'[r]
    <3>1. r # q /\ psl'[r] = psl[r] /\ slindex'[r] = slindex[r] /\ psl[r] \in Psls
      BY <1>r, <1>t, <2>8, Zenon
    <3>2. slstate'[psl[r]] = "USED" /\ slindex[r] \in stackz'[psl[r]]
      BY <2>5, <2>7, <2>8, <3>1 DEF IInv, SlotInv
    <3>3. \A s \in Procs \ {r} : psl'[s] = psl'[r] => slindex'[s] # slindex'[r]
      BY <1>r, <2>8, <3>1 DEF IInv, SlotInv
    <3> QED
      BY <3>1, <3>2, <3>3, Zenon
  <2>9. SlotInv'
    BY <2>6, <2>8, Zenon DEF SlotInv
  <2>10. ASSUME NEW r \in Procs, newslot[r] # None
         PROVE  r # q /\ psl[r] \in Psls /\ newslot[r] \in stackz'[psl[r]]
    <3>1. r # q /\ psl[r] # None /\ newslot[r] \in stackz[psl[r]]
          /\ (psl[r] = l => newslot[r] # slindex[q])
      BY <1>1, <2>10, Zenon DEF IInv, PendingInv
    <3>2. psl[r] \in Psls
      BY <1>t, <3>1, Zenon
    <3> QED
      BY <2>4, <2>5, <3>1, <3>2, Zenon
  <2>11. PendingInv'
    BY <1>1, <1>r, <2>10, Consts DEF IInv, PendingInv
  <2> QED
    BY <2>2, <2>3, <2>9, <2>11, Zenon
<1>6. TypeOK'
  <2>1. /\ stackz' \in [Psls -> SUBSET Stacks]
        /\ thread_count' \in [Psls -> 0 .. NSTACK]
        /\ slstate' \in [Psls -> {"UNUSED", "USED"}]
    BY <1>4, <1>5, Zenon
  <2>2. 0 \in Stacks /\ "UNUSED" \in States /\ "RUNNING" \in States /\ None \in Int
    BY Consts DEF States, None
  <2> QED
    BY <1>2, <2>1, <2>2, ProcAssumption DEF IInv, TypeOK
<1>a. \A r \in Procs :
        /\ r # q => /\ psl'[r] = psl[r] /\ pthread'[r] = pthread[r]
                    /\ parent'[r] = parent[r] /\ killed'[r] = killed[r]
        /\ r # p => chan'[r] = chan[r] /\ pc'[r] = pc[r]
        /\ r # p /\ r # q => state'[r] = state[r]
  BY <1>2, Zenon DEF IInv, TypeOK
<1>b. /\ state'[q] = "UNUSED" /\ psl'[q] = None /\ pthread'[q] = None /\ parent'[q] = None
      /\ state'[p] = "RUNNING" /\ pc'[p] = "user" /\ UNCHANGED np
      /\ killed'[q] = FALSE
  BY <1>1, <1>2, Zenon DEF IInv, TypeOK
<1>c. \A r \in Procs : r # q => (Live(r)' <=> Live(r))
  BY <1>1, <1>a, <1>b, Zenon DEF Live
<1>7. CallInv'
  BY <1>1, <1>a, <1>b, Consts DEF IInv, CallInv, Live
<1>8. ParentInv'
  <2>1. \A r \in Procs : parent[r] # None => parent[r] \in Procs /\ parent[r] # q
    BY DEF IInv, TypeOK, ParentInv, ParentAlive, Live
  <2> QED
    BY <1>a, <1>b, <1>c, <2>1, Consts DEF IInv, ParentInv, ParentAlive
<1>9. SleepInv'
  <2>1. \A r \in Procs : state'[r] = "SLEEPING" => r # p /\ r # q /\ state[r] = "SLEEPING"
    BY <1>a, <1>b, Zenon
  <2>2. \A r \in Procs : state'[r] = "ZOMBIE" => r # p /\ r # q /\ state[r] = "ZOMBIE"
    BY <1>a, <1>b, Zenon
  <2>3. NoMissedChild' /\ NoMissedThread' /\ NoKilledSleeper'
    <3>1. NoMissedChild /\ NoMissedThread /\ NoKilledSleeper
      BY Zenon DEF IInv, SleepInv
    <3>2. NoMissedChild'
      BY ONLY <1>a, <2>1, <2>2, <3>1 DEF NoMissedChild, Zombies, Children
    <3>3. NoMissedThread'
      BY ONLY <1>a, <2>1, <2>2, <3>1 DEF NoMissedThread
    <3>4. NoKilledSleeper'
      BY ONLY <1>a, <2>1, <3>1 DEF NoKilledSleeper
    <3> QED
      BY <3>2, <3>3, <3>4, Zenon
  <2>4. \A r \in Procs : state'[r] = "SLEEPING" =>
          \/ pc'[r] = "wait" /\ chan'[r] = r
          \/ pc'[r] = "join" /\ chan'[r] = PslChan(psl'[r])
    BY <1>a, <2>1 DEF IInv, SleepInv
  <2>5. \A r \in Procs : pthread'[r] # None /\ (Live(r)' \/ state'[r] = "ZOMBIE") =>
          psl'[r] # None
    BY <1>a, <1>b, <1>c, <2>2 DEF IInv, SleepInv
  <2> QED
    BY <2>3, <2>4, <2>5, Zenon DEF SleepInv, PslChan
<1> QED
  BY <1>4, <1>5, <1>6, <1>7, <1>8, <1>9, Zenon DEF IInv

\* wait preserves the invariant.
LEMMA waitInv ==
  ASSUME StackCounting, IInv, NEW p \in Procs, wait(p)
  PROVE  IInv'
<1>1. InLoop(p, "wait")
  BY Zenon DEF wait
<1>2. CASE NothingYet(p, Children(p), p, "wait")
  BY <1>1, <1>2, NothingYetInv, Zenon
<1>3. ASSUME NEW q \in Zombies(Children(p)), Reap(p, q),
             pgtabs' = pgtabs \ FreedByWait(q), UNCHANGED torn
      PROVE  IInv'
  <2>1. q \in Procs /\ state[q] = "ZOMBIE" /\ pgtabs' \in SUBSET Tables
    BY <1>3, ZenonT(30) DEF Zombies, Children, IInv, TypeOK
  <2> QED
    BY <1>1, <1>3, <2>1, ReapInv, Zenon
<1> QED
  BY <1>2, <1>3, Zenon DEF wait

\* KT_Join preserves the invariant.
LEMMA KT_JoinInv ==
  ASSUME StackCounting, IInv, NEW p \in Procs, KT_Join(p)
  PROVE  IInv'
<1>1. InLoop(p, "join")
  BY Zenon DEF KT_Join
<1>2. CASE NothingYet(p, Threads(p), PslChan(psl[p]), "join")
  BY <1>1, <1>2, NothingYetInv, Zenon
<1>3. ASSUME NEW q \in Zombies(Threads(p)), Reap(p, q),
             pgtabs' = IF psl[q] = None \/ thread_count[psl[q]] = 0
                       THEN pgtabs \ {pgdir[q]} ELSE pgtabs,
             UNCHANGED torn
      PROVE  IInv'
  <2>1. q \in Procs /\ state[q] = "ZOMBIE" /\ pgtabs' \in SUBSET Tables
    BY <1>3, ZenonT(30) DEF Zombies, Threads, IInv, TypeOK
  <2> QED
    BY <1>1, <1>3, <2>1, ReapInv, ZenonT(30)
<1> QED
  BY <1>2, <1>3, Zenon DEF KT_Join

\* So every step preserves it.
LEMMA NextInv ==
  ASSUME StackCounting, IInv, [Next]_vars
  PROVE  IInv'
<1>1. CASE UNCHANGED vars
  <2>1. TypeOK'
    BY <1>1, Zenon DEF vars, procvars, slvars, callvars, pgvars, IInv, TypeOK
  <2>2. CallInv'
    BY <1>1 DEF vars, procvars, slvars, callvars, IInv, CallInv, Live
  <2>3. ParentInv'
    BY <1>1, Zenon DEF vars, procvars, slvars, callvars, IInv, ParentInv, ParentAlive, Live
  <2>4. SleepInv'
    BY <1>1, Zenon
    DEF vars, procvars, slvars, callvars, IInv, SleepInv, NoMissedChild,
        NoMissedThread, NoKilledSleeper, Live, Zombies, Children
  <2>5. SlotInv' /\ PendingInv'
    BY <1>1, Zenon DEF vars, procvars, slvars, callvars, IInv, SlotInv, PendingInv
  <2> QED
    BY <2>1, <2>2, <2>3, <2>4, <2>5, Zenon DEF IInv
<1>2. CASE Next
  BY Zenon, <1>2, allocprocInv, forkInv, fork_failsInv, KT_Create_firstInv,
     KT_Create_fullInv, KT_Create_moreInv, KT_Create_failsInv, tallocprocInv,
     clone_failsInv, cloneInv, execInv, exitInv, waitInv, KT_JoinInv, killInv,
     schedulerInv, yieldInv DEF Next
<1> QED
  BY <1>1, <1>2, Zenon

-----------------------------------------------------------------------------
(* Page tables *)

\* A process that is not done with its page table: wait frees the table of a
\* process without a stack list.
Owns(p) == Live(p) \/ (state[p] = "ZOMBIE" /\ psl[p] = None)

\* Processes that share a page table hold stacks of the same list, so wait
\* frees no table that is in use.
PageInv ==
  ~torn => \A p \in Procs : Owns(p) =>
    /\ pgdir[p] \in pgtabs
    /\ \A q \in Procs \ {p} : Owns(q) /\ pgdir[q] = pgdir[p] =>
         psl[p] # None /\ psl[q] = psl[p] /\ pid[q] = pid[p]

\* A thread that KT_Join may find is counted in a stack list, so KT_Join frees
\* no page table.
ThreadsCounted ==
  \A q \in Procs : pthread[q] # None /\ state[q] = "ZOMBIE" =>
    psl[q] # None /\ thread_count[psl[q]] # 0

\* A step that takes nobody's page table away preserves it.
LEMMA PageFrame ==
  ASSUME PageInv, torn' => torn, torn => torn', pgtabs' = pgtabs,
         \A r \in Procs : Owns(r)' =>
           Owns(r) /\ pgdir'[r] = pgdir[r] /\ psl'[r] = psl[r] /\ pid'[r] = pid[r]
  PROVE  PageInv'
BY DEF PageInv

\* A new page table is nobody's: fork and exec.
LEMMA PageNew ==
  ASSUME ~torn, PageInv, NEW p \in Procs, NEW t \in FreeTables, t \in pgtabs',
         pgdir \in [Procs -> Tables \cup {NoTable}], pgdir' = [pgdir EXCEPT ![p] = t],
         UNCHANGED psl,
         \A r \in Procs : r # p /\ Owns(r)' =>
           Owns(r) /\ pgdir[r] \in pgtabs' /\ pid'[r] = pid[r]
  PROVE  PageInv'
<1>1. \A r \in Procs : Owns(r) => pgdir[r] # t
  BY Zenon DEF PageInv, FreeTables
<1>2. \A r \in Procs : pgdir'[r] = IF r = p THEN t ELSE pgdir[r]
  BY Zenon
<1>3. ASSUME NEW r \in Procs, Owns(r)'
      PROVE  pgdir'[r] \in pgtabs'
  BY <1>2, <1>3, Zenon
<1>4. ASSUME NEW r \in Procs, Owns(r)', NEW q \in Procs \ {r}, Owns(q)',
             pgdir'[q] = pgdir'[r]
      PROVE  r # p /\ q # p /\ pgdir[q] = pgdir[r] /\ Owns(r) /\ Owns(q)
  BY <1>1, <1>2, <1>4
<1>5. ASSUME NEW r \in Procs, Owns(r)', NEW q \in Procs \ {r}, Owns(q)',
             pgdir'[q] = pgdir'[r]
      PROVE  psl'[r] # None /\ psl'[q] = psl'[r] /\ pid'[q] = pid'[r]
  BY <1>4, <1>5, Zenon DEF PageInv
<1> QED
  BY <1>3, <1>5, Zenon DEF PageInv

\* Every step keeps page tables apart.
LEMMA PageStep ==
  ASSUME IInv, ThreadsCounted, PageInv, [Next]_vars
  PROVE  PageInv'
<1>0. /\ pid \in [Procs -> 0 .. MaxPid] /\ pgdir \in [Procs -> Tables \cup {NoTable}]
      /\ state \in [Procs -> States] /\ psl \in [Procs -> Psls \cup {None}]
  BY Zenon DEF IInv, TypeOK
<1>1. CASE UNCHANGED vars
  BY <1>1, PageFrame, Zenon DEF Owns, Live, vars, procvars, pgvars
<1>2. ASSUME NEW p \in Procs, allocproc(p) PROVE PageInv'
  <2>1. PICK q \in Procs : /\ state[q] = "UNUSED"
                           /\ state' = [state EXCEPT ![q] = "EMBRYO"]
                           /\ pid' = [pid EXCEPT ![q] = nextpid]
    BY <1>2, ZenonT(30) DEF allocproc, UnusedSlots
  <2>2. UNCHANGED <<psl, pgdir, pgtabs, torn>>
    BY <1>2, Zenon DEF allocproc, pgvars
  <2>3. \A r \in Procs : Owns(r)' => Owns(r) /\ r # q
    BY <1>0, <2>1, <2>2, Zenon DEF Owns, Live
  <2>4. \A r \in Procs : Owns(r)' => pid'[r] = pid[r]
    BY <1>0, <2>1, <2>3, Zenon
  <2> QED
    BY <2>2, <2>3, <2>4, PageFrame, Zenon
<1>3. ASSUME NEW p \in Procs, fork(p) PROVE PageInv'
  <2>0. PICK q \in Procs : q = np[p]
    BY <1>3, Zenon DEF fork, IInv, CallInv
  <2>1. PICK t \in FreeTables : /\ pgdir' = [pgdir EXCEPT ![q] = t]
                                /\ pgtabs' = pgtabs \cup {t}
    BY <1>3, <2>0, Zenon DEF fork
  <2>2. /\ UNCHANGED <<pid, psl, torn>>
        /\ state' = [state EXCEPT ![q] = "RUNNABLE"]
    BY <1>3, <2>0, Zenon DEF fork
  <2>3. \A r \in Procs : r # q /\ Owns(r)' => Owns(r)
    BY <1>0, <2>2, Zenon DEF Owns, Live
  <2>4. ~torn => \A r \in Procs : Owns(r) => pgdir[r] \in pgtabs'
    BY <2>1, Zenon DEF PageInv
  <2>5. CASE torn
    BY <2>2, <2>5, Zenon DEF PageInv
  <2>6. CASE ~torn
    <3>1. t \in pgtabs' /\ pid' = pid /\ psl' = psl
      BY <2>1, <2>2, Zenon
    <3>2. \A r \in Procs : r # q /\ Owns(r)' =>
            Owns(r) /\ pgdir[r] \in pgtabs' /\ pid'[r] = pid[r]
      BY <2>3, <2>4, <2>6, <3>1, Zenon
    <3> QED
      BY <1>0, <2>1, <2>6, <3>1, <3>2, PageNew, Zenon
  <2> QED
    BY <2>5, <2>6, Zenon
<1>4. ASSUME NEW p \in Procs, KT_Create_first(p) PROVE PageInv'
  <2>1. /\ UNCHANGED <<state, pid, pgdir, pgtabs, torn>> /\ psl[p] = None /\ Live(p)
        /\ \A q \in Procs : q # p => psl'[q] = psl[q]
    BY <1>0, <1>4, Zenon
    DEF KT_Create_first, CanThread, CanCall, Live, pgvars
  <2>2. \A r \in Procs : Owns(r)' => Owns(r)
    BY <2>1, Zenon DEF Owns, Live
  <2>3. ~torn => \A r \in Procs \ {p} : Owns(r) => pgdir[r] # pgdir[p]
    BY <2>1, Zenon DEF PageInv, Owns
  <2>4. \A r \in Procs : \A q \in Procs \ {r} :
          ~torn /\ Owns(r)' /\ Owns(q)' /\ pgdir[q] = pgdir[r] =>
            /\ r # p /\ q # p /\ Owns(r) /\ Owns(q)
            /\ psl'[r] = psl[r] /\ psl'[q] = psl[q]
    BY <2>1, <2>2, <2>3, Zenon
  <2> QED
    BY <2>1, <2>2, <2>4, Zenon DEF PageInv
<1>5. ASSUME NEW p \in Procs, KT_Create_full(p) \/ KT_Create_more(p) \/ clone_fails(p)
      PROVE  PageInv'
  <2>1. UNCHANGED <<state, pid, psl, pgdir, pgtabs, torn>>
    BY <1>5, Zenon DEF KT_Create_full, KT_Create_more, clone_fails, procvars, pgvars
  <2> QED
    BY <2>1, PageFrame, Zenon DEF Owns, Live
<1>6. ASSUME NEW p \in Procs, tallocproc(p) \/ fork_fails(p) PROVE PageInv'
  <2>1. UNCHANGED <<pid, psl, pgdir, pgtabs, torn>>
    BY <1>6, Zenon DEF tallocproc, fork_fails, pgvars
  <2>2. PICK q \in Procs, s \in {"EMBRYO", "UNUSED"} : state' = [state EXCEPT ![q] = s]
    BY <1>6, ZenonT(30) DEF tallocproc, fork_fails, UnusedSlots, IInv, CallInv
  <2>3. \A r \in Procs : Owns(r)' => Owns(r)
    BY <1>0, <2>1, <2>2, Zenon DEF Owns, Live
  <2> QED
    BY <2>1, <2>3, PageFrame, Zenon
<1>7. ASSUME NEW p \in Procs, clone(p) PROVE PageInv'
  <2>0. PICK q \in Procs : q = np[p]
    BY <1>7, Zenon DEF clone, IInv, CallInv
  <2>1. state[q] = "EMBRYO" /\ Owns(p)
    BY <1>7, <2>0, Zenon DEF clone, IInv, CallInv, Owns, Live
  <2>2. /\ \A r \in Procs : r # q => state'[r] = state[r]
        /\ newslot[p] = None => state'[q] = "EMBRYO"
        /\ newslot[p] = None <=> psl[p] = None
    BY <1>0, <1>7, <2>0, <2>1, Zenon DEF clone, IInv, PendingInv
  <2>3. /\ UNCHANGED <<pgtabs, torn>> /\ pgdir' = [pgdir EXCEPT ![q] = pgdir[p]]
        /\ pid' = [pid EXCEPT ![q] = pid[p]] /\ psl' = [psl EXCEPT ![q] = psl[p]]
    BY <1>7, <2>0, Zenon DEF clone, pgvars
  <2>4. \A r \in Procs : Owns(r)' =>
          \/ r # q /\ Owns(r) /\ pgdir'[r] = pgdir[r] /\ pid'[r] = pid[r] /\ psl'[r] = psl[r]
          \/ r = q /\ pgdir'[r] = pgdir[p] /\ pid'[r] = pid[p] /\ psl'[r] = psl[p]
             /\ psl[p] # None
    BY <1>0, <2>1, <2>2, <2>3, Zenon DEF Owns, Live
  <2>5. ~torn => \A r \in Procs : Owns(r) /\ pgdir[r] = pgdir[p] =>
                   pid[r] = pid[p] /\ psl[r] = psl[p]
    BY <2>1, Zenon DEF PageInv
  <2>6. ASSUME ~torn, NEW r \in Procs, Owns(r)'
        PROVE  /\ pgdir'[r] \in pgtabs'
               /\ \A s \in Procs \ {r} : Owns(s)' /\ pgdir'[s] = pgdir'[r] =>
                    psl'[r] # None /\ psl'[s] = psl'[r] /\ pid'[s] = pid'[r]
    BY <2>1, <2>3, <2>4, <2>5, <2>6 DEF PageInv
  <2> QED
    BY <2>3, <2>6, Zenon DEF PageInv
<1>8. ASSUME NEW p \in Procs, exit(p) PROVE PageInv'
  <2>1. UNCHANGED <<pid, psl, pgdir, pgtabs, torn>>
    BY <1>8, Zenon DEF exit, pgvars
  <2>2. \A r \in Procs : Owns(r)' => Owns(r)
    BY <1>0, <1>8, <2>1, Zenon DEF Owns, Live, exit, WokenByExit, Sleepers
  <2> QED
    BY <2>1, <2>2, PageFrame, Zenon
<1>9. ASSUME NEW p \in Procs, NEW q \in Procs, NEW at \in {"wait", "join"},
             InLoop(p, at), state[q] = "ZOMBIE", Reap(p, q),
             psl[q] # None => pgtabs' = pgtabs,
             psl[q] = None => pgtabs' = pgtabs \ {pgdir[q]}, UNCHANGED torn
      PROVE  PageInv'
  <2>1. Owns(p) /\ p # q
    BY <1>9, Zenon DEF InLoop, CanCall, Owns, Live
  <2>2. /\ pgdir' = [pgdir EXCEPT ![q] = NoTable]
        /\ pid' = [pid EXCEPT ![q] = 0] /\ psl' = [psl EXCEPT ![q] = None]
        /\ state' = [state EXCEPT ![q] = "UNUSED", ![p] = "RUNNING"]
    BY <1>9, Zenon DEF Reap
  <2>3. \A r \in Procs : Owns(r)' => /\ Owns(r) /\ r # q /\ pgdir'[r] = pgdir[r]
                                     /\ pid'[r] = pid[r] /\ psl'[r] = psl[r]
    BY <1>0, <2>1, <2>2 DEF Owns, Live
  <2>4. ~torn => \A r \in Procs : Owns(r) /\ r # q => pgdir[r] \in pgtabs'
    <3>1. CASE psl[q] # None
      BY <1>9, <3>1, Zenon DEF PageInv
    <3>2. CASE psl[q] = None
      <4>1. ~torn => \A r \in Procs : Owns(r) /\ r # q => pgdir[r] # pgdir[q]
        BY <1>9, <3>2, Zenon DEF PageInv, Owns
      <4> QED
        BY <1>9, <3>2, <4>1, Zenon DEF PageInv
    <3> QED
      BY <3>1, <3>2, Zenon
  <2> QED
    BY <1>9, <2>3, <2>4 DEF PageInv
<1>10. ASSUME NEW p \in Procs, NEW kids, NEW c, NEW at \in {"wait", "join"},
              InLoop(p, at), NothingYet(p, kids, c, at)
       PROVE  PageInv'
  <2>1. UNCHANGED <<pid, psl, pgdir, pgtabs, torn>> /\ Owns(p)
    BY <1>10, Zenon DEF NothingYet, pgvars, InLoop, CanCall, Owns, Live
  <2>2. PICK s : state' = [state EXCEPT ![p] = s]
    BY <1>10, Zenon DEF NothingYet
  <2>3. \A r \in Procs : Owns(r)' => Owns(r)
    BY <1>0, <2>1, <2>2, Zenon DEF Owns, Live
  <2> QED
    BY <2>1, <2>3, PageFrame, Zenon
<1>11. ASSUME NEW p \in Procs, wait(p) PROVE PageInv'
  BY <1>9, <1>10, <1>11, ZenonT(30) DEF wait, Zombies, Children, FreedByWait
<1>12. ASSUME NEW p \in Procs, KT_Join(p) PROVE PageInv'
  <2>1. ASSUME NEW q \in Procs, pthread[q] = p, state[q] = "ZOMBIE"
        PROVE  psl[q] # None /\ thread_count[psl[q]] # 0
    BY <2>1, Consts, Zenon DEF ThreadsCounted
  <2> QED
    BY <1>9, <1>10, <1>12, <2>1, ZenonT(30) DEF KT_Join, Zombies, Threads
<1>13. ASSUME NEW p \in Procs, NEW i \in KillPids, kill(p, i) PROVE PageInv'
  <2>1. UNCHANGED <<pid, psl, pgdir, pgtabs, torn>>
    BY <1>13, Zenon DEF kill, pgvars
  <2>2. PICK q \in Procs : state' = [state EXCEPT ![q] = AfterKill(q)]
    BY <1>13, ZenonT(30) DEF kill
  <2>3. \A r \in Procs : Owns(r)' => Owns(r)
    BY <1>0, <2>1, <2>2, Zenon DEF Owns, Live, AfterKill
  <2> QED
    BY <2>1, <2>3, PageFrame, Zenon
<1>14. ASSUME NEW p \in Procs, scheduler(p) \/ yield(p) PROVE PageInv'
  <2>1. UNCHANGED <<pid, psl, pgdir, pgtabs, torn>>
    BY <1>14, Zenon DEF scheduler, yield, pgvars
  <2>2. \A r \in Procs : Owns(r)' => Owns(r)
    BY <1>0, <1>14, <2>1, Zenon DEF Owns, Live, scheduler, yield
  <2> QED
    BY <2>1, <2>2, PageFrame, Zenon
<1>15. ASSUME NEW p \in Procs, KT_Create_fails(p) PROVE PageInv'
  BY <1>15, Zenon DEF KT_Create_fails, PageInv
<1>16. ASSUME NEW p \in Procs, exec(p) PROVE PageInv'
  <2>1. /\ UNCHANGED <<state, pid, psl>> /\ Live(p)
        /\ torn' <=> torn \/ Sharers(p) # {}
    BY <1>16, Zenon DEF exec, CanThread, CanCall, Live
  <2>2. CASE torn \/ Sharers(p) # {}
    BY <2>1, <2>2, Zenon DEF PageInv
  <2>3. CASE ~torn /\ Sharers(p) = {}
    <3>1. PICK t \in FreeTables : /\ pgdir' = [pgdir EXCEPT ![p] = t]
                                  /\ pgtabs' = (pgtabs \cup {t}) \ {pgdir[p]}
      BY <1>16, Zenon DEF exec
    <3>2. pgdir[p] \in pgtabs /\ Owns(p)
      BY <2>1, <2>3, Zenon DEF PageInv, Owns
    <3>3. t \in pgtabs'
      BY <3>1, <3>2, Zenon DEF FreeTables
    <3>4. ASSUME NEW r \in Procs, r # p, Owns(r) PROVE pgdir[r] # pgdir[p]
      <4>1. CASE Live(r)
        BY <2>3, <3>4, <4>1, Zenon DEF Sharers
      <4>2. CASE psl[r] = None
        BY <2>3, <3>2, <3>4, <4>2, Zenon DEF PageInv
      <4> QED
        BY <3>4, <4>1, <4>2, Zenon DEF Owns
    <3>5. \A r \in Procs : r # p /\ Owns(r)' => Owns(r)
      BY <2>1, Zenon DEF Owns, Live
    <3>6. \A r \in Procs : r # p /\ Owns(r)' =>
            Owns(r) /\ pgdir[r] \in pgtabs' /\ pid'[r] = pid[r]
      BY <2>1, <2>3, <3>1, <3>4, <3>5, Zenon DEF PageInv
    <3> QED
      BY <1>0, <2>1, <2>3, <3>1, <3>3, <3>6, PageNew, Zenon
  <2> QED
    BY <2>2, <2>3, Zenon
<1> QED
  BY <1>1, <1>2, <1>3, <1>4, <1>5, <1>6, <1>7, <1>8, <1>11, <1>12, <1>13, <1>14,
     <1>15, <1>16, Zenon
  DEF Next

\* Its slot is one of those that the list counts.
LEMMA CountedInv ==
  ASSUME StackCounting, IInv
  PROVE  ThreadsCounted
<1> SUFFICES ASSUME NEW q \in Procs, pthread[q] # None, state[q] = "ZOMBIE"
             PROVE  psl[q] # None /\ thread_count[psl[q]] # 0
  BY Zenon DEF ThreadsCounted
<1>1. psl[q] # None
  BY Zenon DEF IInv, SleepInv
<1>2. psl[q] \in Psls
  BY <1>1, Zenon DEF IInv, TypeOK
<1>3. /\ slindex[q] \in stackz[psl[q]] /\ stackz[psl[q]] \in SUBSET Stacks
      /\ Cardinality(stackz[psl[q]]) <= thread_count[psl[q]]
  BY <1>1, <1>2, Zenon DEF IInv, TypeOK, SlotInv
<1>4. Cardinality(stackz[psl[q]]) >= 1 /\ Cardinality(stackz[psl[q]]) \in Nat
  BY <1>3, RemoveSlot, StackSets, ZenonT(30)
<1> QED
  BY <1>1, <1>3, <1>4

-----------------------------------------------------------------------------
(* Theorems *)

INSTANCE FiniteSetTheorems

\* Any set of stack slots is finite.
LEMMA FiniteStacks ==
  ASSUME NEW S \in SUBSET Stacks
  PROVE  IsFiniteSet(S) /\ Cardinality(S) \in Nat /\ Cardinality(Stacks) = NSTACK
<1>1. IsFiniteSet(Stacks) /\ Cardinality(Stacks) = NSTACK
  BY ProcAssumption, FS_Interval DEF Stacks
<1>2. IsFiniteSet(S)
  BY <1>1, FS_Subset, Zenon
<1> QED
  BY <1>1, <1>2, FS_CardinalityType, Zenon

\* So they can be counted.
LEMMA StacksCount == StackCounting
<1>1. ASSUME NEW S \in SUBSET Stacks
      PROVE  Cardinality(S) \in Nat /\ (Stacks \ S = {} => Cardinality(S) = NSTACK)
  <2>1. Stacks \ S = {} => S = Stacks
    BY Zenon
  <2> QED
    BY <2>1, FiniteStacks, Zenon
<1>2. ASSUME NEW S \in SUBSET Stacks, NEW i \in Stacks
      PROVE  Cardinality(S \cup {i}) <= Cardinality(S) + 1
  BY FiniteStacks, FS_AddElement
<1>3. ASSUME NEW S \in SUBSET Stacks, NEW i \in S
      PROVE  /\ Cardinality(S \ {i}) = Cardinality(S) - 1
             /\ Cardinality(S) >= 1
             /\ Cardinality(S) = 1 => S \ {i} = {}
  <2>1. IsFiniteSet(S \ {i}) /\ Cardinality(S \ {i}) = Cardinality(S) - 1
    BY FiniteStacks, FS_RemoveElement, Zenon
  <2>2. Cardinality(S \ {i}) \in Nat /\ Cardinality(S) \in Nat
    BY FiniteStacks, S \ {i} \in SUBSET Stacks, Zenon
  <2>3. Cardinality(S \ {i}) = 0 => S \ {i} = {}
    BY <2>1, FS_EmptySet, Zenon
  <2> QED
    BY <2>1, <2>2, <2>3
<1>4. Cardinality({}) = 0 /\ Cardinality({0}) <= 2 /\ Cardinality({0, 1}) <= 2
  <2>1. 0 \in Stacks /\ 1 \in Stacks
    BY Consts, Zenon
  <2>2. Cardinality({}) = 0
    BY FS_EmptySet, Zenon
  <2>3. Cardinality({0}) \in Nat /\ Cardinality({0}) <= Cardinality({}) + 1
    <3>1. {} \cup {0} = {0}
      BY Zenon
    <3> QED
      BY <1>1, <1>2, <2>1, <3>1, Zenon
  <2>4. Cardinality({0, 1}) \in Nat /\ Cardinality({0, 1}) <= Cardinality({0}) + 1
    <3>1. {0} \cup {1} = {0, 1}
      BY Zenon
    <3> QED
      BY <1>1, <1>2, <2>1, <3>1, Zenon
  <2> QED
    BY <2>2, <2>3, <2>4
<1> QED
  BY <1>1, <1>2, <1>3, <1>4, Zenon DEF StackCounting

\* The conjunction that fork, KT_Create, clone, exit, wait, KT_Join, kill and
\* the scheduler all preserve, whatever their order.
THEOREM Invariance == Spec => []IInv
<1>1. Init => IInv
  BY InitInv, StacksCount, Zenon
<1>2. IInv /\ [Next]_vars => IInv'
  BY NextInv, StacksCount, Zenon
<1> QED
  BY <1>1, <1>2, PTL DEF Spec

\* Every field of ptable and sltable keeps its type; in particular a list's
\* thread_count neither goes below 0 in clear_psl nor above NSTACK in KT_Create.
THEOREM TypeCorrect == Spec => []TypeOK
BY Invariance, PTL DEF IInv

\* A parent pointer never outlives the parent: exit passes children to init,
\* and init never exits.
THEOREM ParentsAlive == Spec => []ParentAlive
<1>1. IInv => ParentAlive
  BY Zenon DEF IInv, ParentInv
<1> QED
  BY <1>1, Invariance, PTL

\* exit never misses a sleeper: neither a parent in wait, nor init when it
\* inherits a zombie, nor a thread in KT_Join; and kill leaves nobody asleep.
THEOREM NoLostWakeup == Spec => [](NoMissedChild /\ NoMissedThread /\ NoKilledSleeper)
<1>1. IInv => NoMissedChild /\ NoMissedThread /\ NoKilledSleeper
  BY Zenon DEF IInv, SleepInv
<1> QED
  BY <1>1, Invariance, PTL

\* KT_Create never hands out a stack that a thread still has, and clear_psl
\* never frees a stack list that a thread still uses, even when KT_Create
\* fails half way.
THEOREM StacksNotShared == Spec => []StacksExclusive
<1>1. IInv => StacksExclusive
  BY Zenon DEF IInv, SlotInv, StacksExclusive, HasStack
<1> QED
  BY <1>1, Invariance, PTL

\* thread_count, which decides when clear_psl frees a list, covers the threads
\* that hold one of its stacks.
THEOREM CountsCover == Spec => []CountCoversThreads
<1>1. IInv => CountCoversThreads
  <2> SUFFICES ASSUME IInv, NEW l \in Psls
               PROVE  Cardinality({p \in Procs : HasStack(p) /\ psl[p] = l})
                        <= thread_count[l]
    BY Zenon DEF CountCoversThreads
  <2> DEFINE S == {p \in Procs : HasStack(p) /\ psl[p] = l}
             f == [p \in S |-> slindex[p]]
  <2>1. /\ stackz[l] \in SUBSET Stacks /\ thread_count[l] \in Nat
        /\ Cardinality(stackz[l]) <= thread_count[l]
    BY ProcAssumption DEF IInv, TypeOK, SlotInv
  <2>2. IsFiniteSet(stackz[l]) /\ Cardinality(stackz[l]) \in Nat
    BY <2>1, FiniteStacks, Zenon
  <2>3. f \in [S -> stackz[l]]
    BY Zenon DEF IInv, SlotInv, HasStack
  <2>4. \A p, q \in S : f[p] = f[q] => p = q
    BY DEF IInv, SlotInv, HasStack
  <2>5. f \in Injection(S, stackz[l])
    BY <2>3, <2>4, Zenon DEF Injection, IsInjective
  <2>6. IsFiniteSet(S) /\ Cardinality(S) <= Cardinality(stackz[l])
    BY <2>2, <2>5, FS_Injection, Zenon
  <2>7. Cardinality(S) \in Nat
    BY <2>6, FS_CardinalityType, Zenon
  <2>8. \A a, b, c \in Nat : a <= b /\ b <= c => a <= c
    OBVIOUS
  <2> QED
    BY <2>1, <2>2, <2>6, <2>7, <2>8, ZenonT(30)
<1> QED
  BY <1>1, Invariance, PTL

\* wait and KT_Join never free a page table that a process still runs on, and
\* only threads of one process share one: it takes the error path of KT_Create
\* (proc.c:413-416) or an exec beside running threads (exec.c:115) to do that.
THEOREM PageTables == Spec => []PageTablesSafe
<1>1. Init => PageInv
  BY DEF Init, PageInv, Owns, Live
<1>2. IInv /\ PageInv /\ [Next]_vars => PageInv'
  BY PageStep, CountedInv, StacksCount, Zenon
<1>3. PageInv => PageTablesSafe
  BY Zenon DEF PageInv, PageTablesSafe, Owns
<1> QED
  BY <1>1, <1>2, <1>3, Invariance, PTL DEF Spec
=============================================================================
