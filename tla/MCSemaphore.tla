----------------------------- MODULE MCSemaphore -----------------------------
(* One thread takes the second semaphore inside the first, the others take   *)
(* one each.                                                                 *)
EXTENDS Semaphore

CONSTANT Nester

MCWants == [t \in Threads |-> IF t = Nester THEN Sems ELSE {NSEM - 1}]
=============================================================================
