--------------------------------- MODULE Log ---------------------------------
(***************************************************************************)
(* The redo log of the file system, log.c: operations bracketed by         *)
(* begin_op and end_op, log_write, group commit, and recovery after a      *)
(* crash at any point, recovery itself included.                           *)
(*                                                                         *)
(* bwrite waits for the disk, so disk writes happen one after the other    *)
(* and each is one step that a crash either precedes or follows.  begin_op *)
(* and end_op are one critical section of log.lock each, and one step.     *)
(* log_write reads log.lh.n before it takes the lock, and is cut there.    *)
(*                                                                         *)
(* cache is what bread returns for a home block.  A buffer that is neither *)
(* held nor B_DIRTY may be recycled at any time, after which bread returns *)
(* what is on disk.                                                        *)
(***************************************************************************)
EXTENDS Integers, Sequences, FiniteSets

CONSTANTS
  Procs,        \* processes that make file system calls
  Blocks,       \* home blocks of the file system
  Data,         \* contents of a block
  MAXOPBLOCKS,  \* blocks an operation reserves (10 in the source)
  LOGSIZE,      \* capacity of the header (3 * MAXOPBLOCKS in the source)
  NLOG,         \* blocks of the on-disk log with its header (LOGSIZE in mkfs)
  OpBlocks      \* blocks that one operation writes, at most

ASSUME LogAssumption ==
  /\ IsFiniteSet(Procs) /\ IsFiniteSet(Blocks) /\ Data # {}
  /\ MAXOPBLOCKS \in Nat /\ LOGSIZE \in Nat /\ NLOG \in Nat
  /\ OpBlocks \in 0 .. MAXOPBLOCKS /\ MAXOPBLOCKS <= LOGSIZE

VARIABLES
  disk,         \* home blocks on disk
  logdata,      \* data blocks of the on-disk log
  head,         \* header block of the on-disk log: the logged block numbers
  cache,        \* home blocks as bread returns them
  dirty,        \* blocks whose buffer has B_DIRTY
  lh,           \* log.lh: block numbers of the current transaction
  outstanding, committing,
  pc,           \* what each process is doing
  held,         \* the locked buffer of a process in log_write
  wrote,        \* blocks that a process's operation has written so far
  stage, tail,  \* where commit or recover_from_log is
  panicked      \* the kernel has called panic

diskvars == <<disk, logdata, head>>
opvars == <<outstanding, committing, pc, held, wrote>>
vars == <<diskvars, cache, dirty, lh, opvars, stage, tail, panicked>>

LogSlots == 1 .. NLOG - 1
InSeq(b, s) == \E i \in 1 .. Len(s) : s[i] = b

\* The kernel boots on a disk that mkfs wrote: the log is empty.
Init ==
  /\ \E d \in Data : disk = [b \in Blocks |-> d] /\ logdata = [i \in LogSlots |-> d]
  /\ head = <<>>
  /\ cache = disk /\ dirty = {} /\ lh = <<>>
  /\ outstanding = 0 /\ committing = FALSE
  /\ pc = [p \in Procs |-> "idle"]
  /\ held = [p \in Procs |-> {}] /\ wrote = [p \in Procs |-> {}]
  /\ stage = "boot" /\ tail = 1 /\ panicked = FALSE

-----------------------------------------------------------------------------
(* Recovery and commit: the steps of recover_from_log and commit. *)

\* read_head
read_head ==
  /\ stage = "boot"
  /\ lh' = head
  /\ stage' = "install" /\ tail' = 1
  /\ UNCHANGED <<diskvars, cache, dirty, opvars, panicked>>

\* install_trans: copy one block from the log to its home.  bwrite clears
\* B_DIRTY.
install_trans ==
  /\ stage = "install" /\ tail <= Len(lh)
  /\ disk' = [disk EXCEPT ![lh[tail]] = logdata[tail]]
  /\ cache' = [cache EXCEPT ![lh[tail]] = logdata[tail]]
  /\ dirty' = dirty \ {lh[tail]}
  /\ tail' = tail + 1
  /\ UNCHANGED <<logdata, head, lh, opvars, stage, panicked>>

Installed == tail > Len(lh)

\* The header that write_head writes once log.lh.n is 0.
Erased == <<>>

\* log.lh.n = 0; write_head().  recover_from_log returns here; commit has
\* end_op's last lines left.
erase ==
  /\ stage = "install" /\ Installed
  /\ lh' = <<>>
  /\ head' = Erased
  /\ stage' = IF committing THEN "done" ELSE "run"
  /\ tail' = 1
  /\ UNCHANGED <<disk, logdata, cache, dirty, opvars, panicked>>

\* write_log: copy one block from the cache to the log.
write_log ==
  /\ stage = "write_log" /\ tail <= Len(lh)
  /\ logdata' = [logdata EXCEPT ![tail] = cache[lh[tail]]]
  /\ tail' = tail + 1
  /\ UNCHANGED <<disk, head, cache, dirty, lh, opvars, stage, panicked>>

\* Mutant: the header is written before the last block of the log.
Early_LogWritten == tail >= Len(lh)

LogWritten == tail > Len(lh)

\* write_head, "the true point at which the current transaction commits"
write_head ==
  /\ stage = "write_log" /\ LogWritten
  /\ head' = lh
  /\ stage' = "install" /\ tail' = 1
  /\ UNCHANGED <<disk, logdata, cache, dirty, lh, opvars, panicked>>

-----------------------------------------------------------------------------
(* Operations *)

Running == stage # "boot" /\ (committing \/ stage = "run") /\ ~panicked

\* wakeup(&log)
Woken == [p \in Procs |-> IF pc[p] = "sleeping" THEN "begin" ELSE pc[p]]

\* Mutant: the operation that is about to start is not counted.
OffByOne_HasRoom == Len(lh) + outstanding * MAXOPBLOCKS <= LOGSIZE

HasRoom == Len(lh) + (outstanding + 1) * MAXOPBLOCKS <= LOGSIZE

\* begin_op, called or woken up in its loop.
begin_op(p) ==
  /\ Running /\ pc[p] \in {"idle", "begin"}
  /\ IF committing \/ ~HasRoom
     THEN /\ pc' = [pc EXCEPT ![p] = "sleeping"]
          /\ UNCHANGED outstanding
     ELSE /\ outstanding' = outstanding + 1
          /\ pc' = [pc EXCEPT ![p] = "op"]
  /\ UNCHANGED <<diskvars, cache, dirty, lh, committing, held, wrote, stage,
                 tail, panicked>>

\* An operation changes a block in the cache (bread, and an assignment to
\* b->data) and calls log_write, which first looks for room in the log.
modify(p, b, d) ==
  /\ Running /\ pc[p] = "op"
  /\ \A q \in Procs : b \notin held[q]
  /\ b \in wrote[p] \/ Cardinality(wrote[p]) < OpBlocks
  /\ cache' = [cache EXCEPT ![b] = d]
  /\ held' = [held EXCEPT ![p] = {b}]
  /\ pc' = [pc EXCEPT ![p] = "log_write"]
  /\ panicked' = (Len(lh) >= LOGSIZE \/ Len(lh) >= NLOG - 1 \/ outstanding < 1)
  /\ UNCHANGED <<diskvars, dirty, lh, outstanding, committing, wrote, stage,
                 tail>>

\* Absorption: a block is listed once per transaction.
Logged(b) == IF InSeq(b, lh) THEN lh ELSE Append(lh, b)

Pin(b) == dirty \cup {b}

\* The rest of log_write, and brelse.
log_write(p) ==
  /\ Running /\ pc[p] = "log_write"
  /\ \E b \in held[p] : lh' = Logged(b) /\ dirty' = Pin(b)
  /\ wrote' = [wrote EXCEPT ![p] = @ \cup held[p]]
  /\ held' = [held EXCEPT ![p] = {}]
  /\ pc' = [pc EXCEPT ![p] = "op"]
  /\ UNCHANGED <<diskvars, cache, outstanding, committing, stage, tail, panicked>>

IsLast == outstanding = 1

\* Mutant: nobody is woken for the log space that is free again.
NoWakeup_Freed(p) == [pc EXCEPT ![p] = "idle"]

Freed(p) == [Woken EXCEPT ![p] = "idle"]

\* end_op, up to the commit: the last operation commits, the others wake
\* whoever waits for log space.
end_op(p) ==
  /\ Running /\ pc[p] = "op"
  /\ outstanding' = outstanding - 1
  /\ panicked' = committing
  /\ wrote' = [wrote EXCEPT ![p] = {}]
  /\ IF IsLast
     THEN /\ committing' = TRUE
          /\ pc' = [pc EXCEPT ![p] = "idle"]
          /\ stage' = (IF Len(lh) > 0 THEN "write_log" ELSE "done")
          /\ tail' = 1
     ELSE /\ pc' = Freed(p)
          /\ UNCHANGED <<committing, stage, tail>>
  /\ UNCHANGED <<diskvars, cache, dirty, lh, held>>

\* end_op, after the commit.
committed ==
  /\ stage = "done"
  /\ committing' = FALSE
  /\ pc' = Woken
  /\ stage' = "run"
  /\ UNCHANGED <<diskvars, cache, dirty, lh, outstanding, held, wrote, tail,
                 panicked>>

-----------------------------------------------------------------------------
(* Environment *)

\* bget recycles a buffer that nobody holds and that is not B_DIRTY.
recycle(b) ==
  /\ b \notin dirty /\ \A p \in Procs : b \notin held[p]
  /\ cache' = [cache EXCEPT ![b] = disk[b]]
  /\ UNCHANGED <<diskvars, dirty, lh, opvars, stage, tail, panicked>>

\* The machine stops and is started again: memory is lost.
crash ==
  /\ cache' = disk /\ dirty' = {} /\ lh' = <<>>
  /\ outstanding' = 0 /\ committing' = FALSE
  /\ pc' = [p \in Procs |-> "idle"]
  /\ held' = [p \in Procs |-> {}] /\ wrote' = [p \in Procs |-> {}]
  /\ stage' = "boot" /\ tail' = 1 /\ panicked' = FALSE
  /\ UNCHANGED diskvars

Commit == read_head \/ install_trans \/ erase \/ write_log \/ write_head \/ committed

Next ==
  \/ ~panicked /\ Commit
  \/ \E p \in Procs :
       \/ begin_op(p) \/ log_write(p) \/ end_op(p)
       \/ \E b \in Blocks, d \in Data : modify(p, b, d)
  \/ ~panicked /\ \E b \in Blocks : recycle(b)
  \/ crash

Spec == Init /\ [][Next]_vars

-----------------------------------------------------------------------------
(* Properties *)

\* What recover_from_log would make of the disk as it is now.
Recovered ==
  [b \in Blocks |->
     IF InSeq(b, head)
     THEN logdata[CHOOSE i \in 1 .. Len(head) : head[i] = b]
     ELSE disk[b]]

InOp(p) == pc[p] \in {"op", "log_write"}

\* Until recovery is over, memory is what recovery will produce.
Recovering == stage # "run" /\ ~committing

Atomic == INSTANCE AtomicDisk WITH
  mem <- IF Recovering THEN Recovered ELSE cache,
  durable <- Recovered,
  active <- {p \in Procs : InOp(p)}

\* The log implements the atomic disk: whatever the point of a crash, and
\* however often recovery is interrupted, the disk comes back as it was at
\* the last commit, and commits happen between operations (log.c:9-30).
AtomicSpec == Atomic!Spec

\* The blocks that operations in progress may still log.
StillToCome ==
  {r \in Procs \X (1 .. MAXOPBLOCKS) :
     InOp(r[1]) /\ r[2] > Cardinality(wrote[r[1]])}

\* The log's space is enough for every operation that begin_op has admitted
\* (log.c:132-133), if each writes no more than MAXOPBLOCKS blocks.
SpaceReserved == Len(lh) + Cardinality(StillToCome) <= LOGSIZE

\* No wakeup is lost: whoever sleeps in begin_op has somebody in a commit to
\* wait for, or somebody in an operation while there is still no room; a
\* wakeup is on its way in either case (log.c:130-134, 161, 171).
SleepersWoken ==
  (\E p \in Procs : pc[p] = "sleeping") =>
    committing \/ (outstanding > 0 /\ ~HasRoom)

=============================================================================
