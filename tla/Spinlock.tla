------------------------------ MODULE Spinlock ------------------------------
(***************************************************************************)
(* Spinlocks and the interrupt flag (spinlock.c).  A processor runs a      *)
(* process or, on top of it, an interrupt handler; pushcli and popcli keep *)
(* handlers away while a lock is held or waited for.                       *)
(***************************************************************************)
EXTENDS Naturals, FiniteSets

CONSTANTS CPUs, Locks, NoCPU

ASSUME SpinlockAssumption == NoCPU \notin CPUs

VARIABLES
  lock,       \* the processor that holds a lock: locked and cpu of the lock
  ncli,       \* depth of pushcli nesting
  intena,     \* were interrupts enabled before pushcli?
  IF_,        \* the interrupt flag
  panicked

lockvars == <<lock, ncli, intena, IF_, panicked>>

SpinlockInit ==
  /\ lock = [l \in Locks |-> NoCPU]
  /\ ncli = [c \in CPUs |-> 0]
  /\ intena = [c \in CPUs |-> FALSE]
  /\ IF_ = [c \in CPUs |-> TRUE]
  /\ panicked = FALSE

\* Mutant: interrupts stay as they are.
No_cli(c) == UNCHANGED IF_

cli(c) == IF_' = [IF_ EXCEPT ![c] = FALSE]

pushcli(c) ==
  /\ cli(c)
  /\ intena' = IF ncli[c] = 0 THEN [intena EXCEPT ![c] = IF_[c]] ELSE intena
  /\ ncli' = [ncli EXCEPT ![c] = @ + 1]

holding(c, l) == lock[l] = c

\* acquire up to its loop.
acquire(c, l) ==
  /\ pushcli(c)
  /\ panicked' = (panicked \/ holding(c, l))

\* The loop ends: xchg found the lock free.
xchg(c, l) == lock[l] = NoCPU /\ lock' = [lock EXCEPT ![l] = c]

popcli(c) ==
  /\ ncli' = [ncli EXCEPT ![c] = @ - 1]
  /\ IF_' = IF ncli[c] = 1 /\ intena[c] THEN [IF_ EXCEPT ![c] = TRUE] ELSE IF_
  /\ UNCHANGED intena

\* release, with the panics of popcli.
release(c, l) ==
  /\ lock' = [lock EXCEPT ![l] = NoCPU]
  /\ popcli(c)
  /\ panicked' = (panicked \/ ~holding(c, l) \/ IF_[c] \/ ncli[c] = 0)
=============================================================================
