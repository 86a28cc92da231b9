------------------------------- MODULE Uthread -------------------------------
(***************************************************************************)
(* The user-level thread library, uthread.c: a table of UT_COUNT threads   *)
(* of one process, scheduled cooperatively and round robin.                *)
(*                                                                         *)
(* The library never records which thread is running.  It recovers it from *)
(* sched_index, the slot at which the next scan will start, as "the slot   *)
(* before it", and recognises the root thread by sched_index = 1.  The     *)
(* model keeps the thread that is really on the CPU in a variable of its   *)
(* own, running, so that the two can be compared.                          *)
(*                                                                         *)
(* Threads are preempted only inside the library's own calls, so one call  *)
(* is one step; the loop of UT_shutdown is cut at each UT_yield in it.     *)
(***************************************************************************)
EXTENDS Integers, FiniteSets

CONSTANTS
  UT_COUNT,   \* slots in the thread table (8 in the source)
  MaxTid      \* bound: threads created over the life of the process

ASSUME UthreadAssumption ==
  /\ UT_COUNT \in Nat /\ UT_COUNT >= 2
  /\ MaxTid \in Nat

Slots == 0 .. UT_COUNT - 1

VARIABLES
  allocated,      \* utable points to a live table
  state,          \* utable->tpcb[i].state
  context,        \* what utable->tpcb[i].context holds, see Contexts
  tid,            \* next thread id: counts the threads created so far
  sched_index,    \* where the next scan of the table starts
  uthread_count,  \* threads the library believes it has
  running,        \* the slot whose stack the CPU is on (not in the program)
  shutting        \* the root thread is in UT_shutdown's loop

vars == <<allocated, state, context, tid, sched_index, uthread_count,
          running, shutting>>

\* A context is uninitialised memory, a fresh entry point laid out by
\* UT_Create, the point where swtch suspended the thread, or the left-over of
\* an earlier suspension of a thread that has been resumed since.
Contexts == {"garbage", "entry", "suspended", "stale"}

TypeOK ==
  /\ allocated \in BOOLEAN
  /\ state \in [Slots -> {"UNUSED", "USED"}]
  /\ context \in [Slots -> Contexts]
  /\ tid \in 0 .. MaxTid
  /\ sched_index \in Slots
  /\ uthread_count \in 0 .. UT_COUNT
  /\ running \in Slots
  /\ shutting \in BOOLEAN

Init ==
  /\ allocated = FALSE
  /\ state = [i \in Slots |-> "UNUSED"]
  /\ context = [i \in Slots |-> "garbage"]
  /\ tid = 0
  /\ sched_index = 1
  /\ uthread_count = 0
  /\ running = 0
  /\ shutting = FALSE

-----------------------------------------------------------------------------
Used == {i \in Slots : state[i] = "USED"}

\* Slot i after wrapping around the end of the table.
Wrap(i) == IF i >= UT_COUNT THEN i - UT_COUNT ELSE i

\* increment_sched_index applied to index i.
increment_sched_index(i) == IF i = UT_COUNT - 1 THEN 0 ELSE i + 1

\* Mutant: the slot before slot 0 is taken to be slot 0.
NoWrap_CurrTpcb == IF sched_index = 0 THEN 0 ELSE sched_index - 1

\* curr_tpcb, as UT_Scheduler and UT_exit compute it.
CurrTpcb == IF sched_index = 0 THEN UT_COUNT - 1 ELSE sched_index - 1

\* Mutant: the scan starts at slot 0 every time.
FromZero_IsNextThread(st, t) ==
  st[t] = "USED" /\ \A e \in 0 .. t - 1 : st[e] # "USED"

\* UT_Scheduler's scan: the first slot from sched_index on whose state in st
\* is USED.
IsNextThread(st, t) ==
  \E d \in 0 .. UT_COUNT - 1 :
    /\ t = Wrap(sched_index + d)
    /\ st[t] = "USED"
    /\ \A e \in 0 .. d - 1 : st[Wrap(sched_index + e)] # "USED"

\* UT_Scheduler, called when the table's states are st and it counts cnt
\* threads.  swtch saves the caller in the context of curr_tpcb and resumes
\* the one that t's context held before the call.
UT_Scheduler(st, cnt) ==
  IF cnt = 1 /\ sched_index = 1
  THEN UNCHANGED <<sched_index, context, running>>
  ELSE \E t \in Slots :
         /\ IsNextThread(st, t)
         /\ sched_index' = increment_sched_index(t)
         /\ context' = [context EXCEPT ![CurrTpcb] = "suspended",
                                       ![t] = "stale"]
         /\ running' = t

\* The running thread may call into the library: it is not inside
\* UT_shutdown's loop.
InThreadCode == allocated /\ ~(shutting /\ running = 0)

UT_Init ==
  /\ ~allocated /\ tid < MaxTid
  /\ allocated' = TRUE
  /\ state' = [i \in Slots |-> IF i = 0 THEN "USED" ELSE "UNUSED"]
  /\ context' = [i \in Slots |-> "garbage"]
  /\ tid' = tid + 1
  /\ uthread_count' = 1
  /\ sched_index' = 1
  /\ UNCHANGED <<running, shutting>>

\* The first UNUSED slot gets the new thread; with none, the call returns -1
\* and changes nothing.
UT_Create ==
  /\ InThreadCode /\ tid < MaxTid
  /\ \E t \in Slots \ Used :
       /\ \A i \in 0 .. t - 1 : state[i] # "UNUSED"
       /\ state' = [state EXCEPT ![t] = "USED"]
       /\ context' = [context EXCEPT ![t] = "entry"]
  /\ tid' = tid + 1
  /\ uthread_count' = uthread_count + 1
  /\ UNCHANGED <<allocated, sched_index, running, shutting>>

UT_yield ==
  /\ InThreadCode
  /\ UT_Scheduler(state, uthread_count)
  /\ UNCHANGED <<allocated, state, tid, uthread_count, shutting>>

\* Mutant: the loop is an if.
Once_UT_shutdown ==
  /\ allocated
  /\ sched_index = 1
  /\ IF uthread_count # 1 /\ ~shutting
     THEN /\ shutting' = TRUE
          /\ UT_Scheduler(state, uthread_count)
          /\ UNCHANGED allocated
     ELSE /\ shutting' = FALSE
          /\ allocated' = FALSE
          /\ UNCHANGED <<sched_index, context, running>>
  /\ UNCHANGED <<state, tid, uthread_count>>

\* One turn of UT_shutdown's loop, for a caller that sched_index takes for
\* the root thread: yield while other threads are left, else free the table.
UT_shutdown ==
  /\ allocated
  /\ sched_index = 1
  /\ IF uthread_count # 1
     THEN /\ shutting' = TRUE
          /\ UT_Scheduler(state, uthread_count)
          /\ UNCHANGED allocated
     ELSE /\ shutting' = FALSE
          /\ allocated' = FALSE
          /\ UNCHANGED <<sched_index, context, running>>
  /\ UNCHANGED <<state, tid, uthread_count>>

\* UT_exit of a caller that is not taken for the root thread (for which
\* UT_exit is UT_shutdown).
UT_exit ==
  /\ InThreadCode
  /\ sched_index # 1
  /\ state' = [state EXCEPT ![CurrTpcb] = "UNUSED"]
  /\ uthread_count' = uthread_count - 1
  /\ UT_Scheduler(state', uthread_count')
  /\ UNCHANGED <<allocated, tid, shutting>>

Next == UT_Init \/ UT_Create \/ UT_yield \/ UT_shutdown \/ UT_exit

Spec == Init /\ [][Next]_vars

\* The cooperative contract: whoever is on the CPU gives it up in the end.
GiveUp == UT_yield \/ UT_shutdown \/ UT_exit

YieldSpec == Spec /\ WF_vars(GiveUp)

-----------------------------------------------------------------------------
(* Properties *)

\* The thread that UT_Scheduler and UT_exit take for the current one
\* (uthread.c:101-106, 158-163) is the thread that is on the CPU.
CurrIsRunning == allocated => CurrTpcb = running

\* uthread_count, on which UT_shutdown's loop and UT_Scheduler's early return
\* rely, is the number of USED entries of the table.
CountIsUsed == allocated => uthread_count = Cardinality(Used)

\* "userthread is guaranteed to be found" (uthread.c:109): the running thread
\* and the root are USED, and every other USED entry holds a context that can
\* be resumed, never uninitialised memory or the context of an earlier
\* suspension.
ReadyToSwitch ==
  allocated =>
    /\ state[0] = "USED" /\ state[running] = "USED"
    /\ \A i \in Used \ {running} : context[i] \in {"entry", "suspended"}

\* The table is freed only by the root thread, when it is the only thread
\* left: no other thread's stack is freed under it.
FreedByLastThread ==
  [][allocated /\ ~allocated' => running = 0 /\ Used = {0}]_vars

\* Round robin does not starve: a thread in the table gets the CPU, whatever
\* the others do as long as they yield.
NoStarvation ==
  \A i \in Slots :
    (allocated /\ state[i] = "USED") ~> (running = i \/ state[i] = "UNUSED")

=============================================================================
