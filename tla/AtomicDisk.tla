----------------------------- MODULE AtomicDisk -----------------------------
(***************************************************************************)
(* What log.c promises to the file system: a disk whose contents change    *)
(* only from one state between operations to another.  Operations write to *)
(* memory; a commit makes all of memory durable at once, and only while no *)
(* operation is in progress; a crash falls back to the last commit.        *)
(***************************************************************************)
CONSTANTS Procs, Blocks, Data

VARIABLES
  mem,      \* contents of the blocks as operations see them
  durable,  \* contents that a crash falls back to
  active    \* processes with an operation in progress

vars == <<mem, durable, active>>

\* The file system as mkfs made it.
Init ==
  /\ mem \in [Blocks -> Data] /\ durable = mem
  /\ active = {}

Begin(p) ==
  /\ p \notin active
  /\ active' = active \cup {p}
  /\ UNCHANGED <<mem, durable>>

Write(p, b, d) ==
  /\ p \in active
  /\ mem' = [mem EXCEPT ![b] = d]
  /\ UNCHANGED <<durable, active>>

End(p) ==
  /\ p \in active
  /\ active' = active \ {p}
  /\ UNCHANGED <<mem, durable>>

Commit ==
  /\ active = {}
  /\ durable' = mem
  /\ UNCHANGED <<mem, active>>

Crash ==
  /\ mem' = durable
  /\ active' = {}
  /\ UNCHANGED durable

Next ==
  \/ \E p \in Procs : Begin(p) \/ End(p) \/ \E b \in Blocks, d \in Data : Write(p, b, d)
  \/ Commit \/ Crash

Spec == Init /\ [][Next]_vars
=============================================================================
