------------------------------- MODULE Bcache -------------------------------
(***************************************************************************)
(* The buffer cache bio.c with the sleep locks of its buffers              *)
(* (sleeplock.c) on top of the disk driver ide.c.                          *)
(*                                                                         *)
(* A use of a buffer is what happens between bread and brelse: a process   *)
(* reads a block, may change it, write it to the disk or leave it dirty    *)
(* for the log, and releases it.  A process may have several uses open, as *)
(* bmap, itrunc, write_log and install_trans have, and works on one at a   *)
(* time.  One action is one critical section of bcache.lock, of a sleep    *)
(* lock's spin lock or of idelock, together with the unlocked code up to   *)
(* the next one, which only touches a buffer the process has locked.       *)
(***************************************************************************)
EXTENDS Integers, Sequences, FiniteSets, Functions

CONSTANTS
  Uses,       \* uses of a buffer that may be open at a time
  Owner,      \* the process or kernel thread that each belongs to
  Pid,        \* the pid of that process, which its threads share
  Blocks,     \* blocks of the disk, numbered from 1
  NBUF,       \* buffers in the cache (30 in the source)
  Data,       \* contents of a block
  Wants,      \* bound: the blocks that each use may be of
  Written,    \* bound: the blocks that processes change
  MaxPinned,  \* most blocks that the log keeps dirty at a time (external)
  MaxErrors   \* bound: reads that the disk fails

ASSUME BcacheAssumption ==
  /\ IsFiniteSet(Uses) /\ Owner \in [Uses -> Nat] /\ Pid \in [Uses -> Nat \ {0}]
  /\ \A t, u \in Uses : Owner[t] = Owner[u] => Pid[t] = Pid[u]
  /\ Blocks \subseteq Nat \ {0}
  /\ NBUF \in Nat \ {0} /\ 0 \in Data /\ Written \subseteq Blocks
  /\ Wants \in [Uses -> SUBSET Blocks]
  /\ MaxPinned \in Nat /\ MaxErrors \in Nat

Bufs == 1 .. NBUF
None == 0

VARIABLES
  lru,                                 \* bcache.head's list, most recent first
  blockno, valid, dirty, refcnt, data, \* struct buf
  lockpid,                             \* b->lock: the holder's pid, None if free
  idequeue,                            \* buffers waiting for the disk
  active,                              \* what the disk is doing (external)
  disk,                                \* its blocks (external)
  errors,
  pc, want, buf,                       \* a use, its block and its buffer
  panicked,
  latest                               \* what was last written to a block

bufvars == <<lru, blockno, valid, dirty, refcnt, data>>
idevars == <<idequeue, active, disk, errors>>
vars == <<bufvars, lockpid, idevars, pc, want, buf, panicked, latest>>

\* A command: a block, and whether it writes and what.
Commands == [block : Blocks, write : BOOLEAN, data : Data]
Idle == [block |-> None]

\* binit pushes the buffers on the list one by one.
Init ==
  /\ lru = [i \in Bufs |-> NBUF + 1 - i]
  /\ blockno = [b \in Bufs |-> None]
  /\ valid = [b \in Bufs |-> FALSE] /\ dirty = [b \in Bufs |-> FALSE]
  /\ refcnt = [b \in Bufs |-> 0]
  /\ data = [b \in Bufs |-> 0]
  /\ lockpid = [b \in Bufs |-> None]
  /\ idequeue = <<>> /\ active = Idle /\ errors = 0
  /\ disk = [n \in Blocks |-> 0] /\ latest = disk
  /\ pc = [u \in Uses |-> "idle"]
  /\ want = [u \in Uses |-> None] /\ buf = [u \in Uses |-> None]
  /\ panicked = "no"

-----------------------------------------------------------------------------
(* bio.c *)

\* The process of use u is not busy with another: it has locked their buffers,
\* or they are not open.
Running(u) ==
  \A t \in Uses \ {u} : Owner[t] = Owner[u] => pc[t] \in {"idle", "held"}

Cached(n) == {b \in Bufs : blockno[b] = n}

\* Mutant: a buffer that the log still needs.
Dirty_Recyclable(b) == refcnt[b] = 0

Recyclable(b) == refcnt[b] = 0 /\ ~dirty[b]

\* bget, up to acquiresleep: a buffer of the block, or else the least recently
\* used buffer that is free.
bget(u, n) ==
  /\ pc[u] = "idle" /\ Running(u)
  /\ \/ \E b \in Cached(n) :
          /\ refcnt' = [refcnt EXCEPT ![b] = @ + 1]
          /\ buf' = [buf EXCEPT ![u] = b]
          /\ UNCHANGED <<blockno, valid, dirty>>
     \/ /\ Cached(n) = {}
        /\ \E i \in Bufs :
             /\ Recyclable(lru[i]) /\ \A j \in i + 1 .. NBUF : ~Recyclable(lru[j])
             /\ blockno' = [blockno EXCEPT ![lru[i]] = n]
             /\ valid' = [valid EXCEPT ![lru[i]] = FALSE]
             /\ dirty' = [dirty EXCEPT ![lru[i]] = FALSE]
             /\ refcnt' = [refcnt EXCEPT ![lru[i]] = 1]
             /\ buf' = [buf EXCEPT ![u] = lru[i]]
  /\ pc' = [pc EXCEPT ![u] = "lock"]
  /\ want' = [want EXCEPT ![u] = n]
  /\ UNCHANGED <<lru, data, lockpid, idevars, panicked, latest>>

\* "bget: no buffers".
bget_panic(u, n) ==
  /\ pc[u] = "idle" /\ Running(u)
  /\ Cached(n) = {} /\ \A b \in Bufs : ~Recyclable(b)
  /\ panicked' = "bget"
  /\ UNCHANGED <<bufvars, lockpid, idevars, pc, want, buf, latest>>

\* acquiresleep, then bread's look at B_VALID.
acquiresleep(u) ==
  /\ pc[u] = "lock"
  /\ LET b == buf[u] IN
       IF lockpid[b] # None
       THEN pc' = [pc EXCEPT ![u] = "asleep"] /\ UNCHANGED lockpid
       ELSE /\ lockpid' = [lockpid EXCEPT ![b] = Pid[u]]
            /\ pc' = [pc EXCEPT ![u] = IF valid[b] THEN "held" ELSE "iderw"]
  /\ UNCHANGED <<bufvars, idevars, want, buf, panicked, latest>>

\* holdingsleep, which bwrite, brelse and iderw check.
holdingsleep(u) == lockpid[buf[u]] = Pid[u]

\* New contents for the block: bwrite sends them to the disk.
bwrite(u, v) ==
  /\ pc[u] = "held" /\ Running(u) /\ want[u] \in Written
  /\ data' = [data EXCEPT ![buf[u]] = v]
  /\ latest' = [latest EXCEPT ![want[u]] = v]
  /\ IF holdingsleep(u)
     THEN /\ dirty' = [dirty EXCEPT ![buf[u]] = TRUE]
          /\ pc' = [pc EXCEPT ![u] = "iderw"] /\ UNCHANGED panicked
     ELSE panicked' = "bwrite" /\ UNCHANGED <<dirty, pc>>
  /\ UNCHANGED <<lru, blockno, valid, refcnt, lockpid, idevars, want, buf>>

\* log_write leaves them in the cache, B_DIRTY, until install_trans writes them.
log_write(u, v) ==
  /\ pc[u] = "held" /\ Running(u) /\ want[u] \in Written
  /\ dirty[buf[u]] \/ Cardinality({b \in Bufs : dirty[b]}) < MaxPinned
  /\ data' = [data EXCEPT ![buf[u]] = v]
  /\ latest' = [latest EXCEPT ![want[u]] = v]
  /\ dirty' = [dirty EXCEPT ![buf[u]] = TRUE]
  /\ UNCHANGED <<lru, blockno, valid, refcnt, lockpid, idevars, pc, want, buf,
                 panicked>>

\* Mutant: nobody is woken.
Nobody_Woken(b) == {}

\* wakeup on a sleep lock.
Woken(b) == {q \in Uses : pc[q] = "asleep" /\ buf[q] = b}

\* The first half of brelse: releasesleep.
releasesleep(u) ==
  /\ pc[u] = "held" /\ Running(u)
  /\ IF holdingsleep(u)
     THEN /\ lockpid' = [lockpid EXCEPT ![buf[u]] = None]
          /\ pc' = [q \in Uses |-> IF q = u THEN "put"
                                   ELSE IF q \in Woken(buf[u]) THEN "lock" ELSE pc[q]]
          /\ UNCHANGED panicked
     ELSE panicked' = "brelse" /\ UNCHANGED <<lockpid, pc>>
  /\ UNCHANGED <<bufvars, idevars, want, buf, latest>>

\* Mutant: the reference is kept.
Kept_Dropped(b) == refcnt[b]

Dropped(b) == refcnt[b] - 1

\* The list with b taken out and put back at its head.
MovedToFront(b) ==
  LET k == CHOOSE i \in Bufs : lru[i] = b
  IN  [i \in Bufs |-> IF i = 1 THEN b ELSE IF i <= k THEN lru[i - 1] ELSE lru[i]]

\* The rest of brelse: drop the reference; a free buffer is most recently used.
brelse(u) ==
  /\ pc[u] = "put"
  /\ LET b == buf[u] IN
       /\ refcnt' = [refcnt EXCEPT ![b] = Dropped(b)]
       /\ lru' = IF Dropped(b) = 0 THEN MovedToFront(b) ELSE lru
  /\ pc' = [pc EXCEPT ![u] = "idle"]
  /\ want' = [want EXCEPT ![u] = None] /\ buf' = [buf EXCEPT ![u] = None]
  /\ UNCHANGED <<blockno, valid, dirty, data, lockpid, idevars, panicked, latest>>

-----------------------------------------------------------------------------
(* ide.c *)

\* idestart: the command that the disk gets.  A write takes the data along.
idestart(b) == [block |-> blockno[b], write |-> dirty[b], data |-> data[b]]

Starts(b) == Head(Append(idequeue, b)) = b

\* iderw queues the buffer, starts an idle disk, and sleeps.
iderw(u) ==
  /\ pc[u] = "iderw"
  /\ LET b == buf[u] IN
       IF ~holdingsleep(u) \/ (valid[b] /\ ~dirty[b])
       THEN panicked' = "iderw" /\ UNCHANGED <<idequeue, active, pc>>
       ELSE /\ idequeue' = Append(idequeue, b)
            /\ active' = IF Starts(b) THEN idestart(b) ELSE active
            /\ pc' = [pc EXCEPT ![u] = "io"] /\ UNCHANGED panicked
  /\ UNCHANGED <<bufvars, lockpid, disk, errors, want, buf, latest>>

\* Mutant: the rest of the queue is forgotten.
Never_Restarted(q) == Idle

\* ideintr starts the disk on the next buffer in the queue.
Restarted(q) == IF q = <<>> THEN Idle ELSE idestart(Head(q))

\* The disk has finished: ideintr completes the first buffer of the queue and
\* starts the next one.  After a failed read the buffer is left as it is, but
\* B_VALID all the same.
ideintr ==
  /\ active # Idle /\ idequeue # <<>>
  /\ LET b == Head(idequeue) IN
       /\ disk' = IF active.write THEN [disk EXCEPT ![active.block] = active.data] ELSE disk
       /\ \/ /\ data' = IF dirty[b] THEN data ELSE [data EXCEPT ![b] = disk[active.block]]
             /\ UNCHANGED errors
          \/ /\ ~dirty[b] /\ errors < MaxErrors
             /\ errors' = errors + 1 /\ UNCHANGED data
       /\ valid' = [valid EXCEPT ![b] = TRUE]
       /\ dirty' = [dirty EXCEPT ![b] = FALSE]
       /\ pc' = [q \in Uses |-> IF pc[q] = "io" /\ buf[q] = b THEN "woken" ELSE pc[q]]
  /\ idequeue' = Tail(idequeue)
  /\ active' = Restarted(Tail(idequeue))
  /\ UNCHANGED <<lru, blockno, refcnt, lockpid, want, buf, panicked, latest>>

\* iderw wakes up, looks at the flags again, and returns or sleeps on.
iderw_return(u) ==
  /\ pc[u] = "woken"
  /\ pc' = [pc EXCEPT ![u] = IF valid[buf[u]] /\ ~dirty[buf[u]] THEN "held" ELSE "io"]
  /\ UNCHANGED <<bufvars, lockpid, idevars, want, buf, panicked, latest>>

Step(u) ==
  \/ acquiresleep(u) \/ iderw(u) \/ iderw_return(u) \/ brelse(u)

\* A panic stops the machine.
Next ==
  /\ panicked = "no"
  /\ \/ ideintr
     \/ \E u \in Uses :
          \/ Step(u) \/ releasesleep(u)
          \/ \E n \in Wants[u] : bget(u, n) \/ bget_panic(u, n)
          \/ \E v \in Data : bwrite(u, v) \/ log_write(u, v)

\* The disk finishes what it was asked to do and processes keep running; a
\* process need not release a buffer, nor ask for one.
Spec == Init /\ [][Next]_vars /\ WF_vars(ideintr) /\ \A u \in Uses : WF_vars(Step(u))

-----------------------------------------------------------------------------
(* Properties *)

Using(u) == pc[u] \in {"iderw", "io", "woken", "held"}

\* What a process gets from bread is the block it asked for, with what was
\* last written to it by anyone, through recycling, log_write's delayed
\* writes and the disk's queue (bio.c:96-106); it has the buffer to itself.
ReadsLatest ==
  \A u \in Uses :
    /\ pc[u] = "held" =>
         /\ blockno[buf[u]] = want[u] /\ valid[buf[u]]
         /\ errors = 0 => data[buf[u]] = latest[want[u]]
    /\ Using(u) => \A q \in Uses \ {u} : Using(q) => buf[q] # buf[u]

\* No wakeup is lost: who sleeps on a sleep lock sleeps while somebody holds
\* it, and who sleeps in iderw has its buffer in the queue (sleeplock.c:25-40,
\* ide.c:120-165).
SleepersWoken ==
  \A u \in Uses :
    /\ pc[u] = "asleep" => \E q \in Uses : Using(q) /\ buf[q] = buf[u]
    /\ pc[u] = "io" => buf[u] \in Range(idequeue)

\* bget runs out of buffers only when the uses that are open, of all processes,
\* and the log really have them all, and whoever calls bwrite, brelse and iderw
\* holds the lock and has something to do (bio.c:92, 113, 124, ide.c:142-145).
NoPanic ==
  /\ panicked \in {"no", "bget"}
  /\ panicked = "bget" =>
       NBUF <= Cardinality({u \in Uses : pc[u] # "idle"})
                 + Cardinality({b \in Bufs : dirty[b] /\ refcnt[b] = 0})

\* Every request that is queued is completed (ide.c:137-168).
IoCompletes ==
  \A u \in Uses : pc[u] = "iderw" ~> (pc[u] = "held" \/ panicked # "no")
=============================================================================
