---------------------------- MODULE BcacheProofs ----------------------------
(*****************************************************************************)
(* The safety of Bcache for any number of uses, blocks and buffers, and any  *)
(* number of failed reads: an inductive invariant, the proof that every step *)
(* preserves it, and the properties that follow from it.  Only the steps     *)
(* that change reference counts, bget and brelse, need facts about           *)
(* cardinality, so they come last.                                           *)
(*****************************************************************************)
EXTENDS Bcache, TLAPS

Places == {"idle", "lock", "asleep", "iderw", "io", "woken", "held", "put"}

TypeOK ==
  /\ lru \in [Bufs -> Bufs]
  /\ blockno \in [Bufs -> Blocks \cup {None}]
  /\ valid \in [Bufs -> BOOLEAN] /\ dirty \in [Bufs -> BOOLEAN]
  /\ refcnt \in [Bufs -> Nat] /\ data \in [Bufs -> Data]
  /\ lockpid \in [Bufs -> Nat]
  /\ idequeue \in Seq(Bufs)
  /\ disk \in [Blocks -> Data] /\ latest \in [Blocks -> Data] /\ errors \in Nat
  /\ pc \in [Uses -> Places]
  /\ want \in [Uses -> Blocks \cup {None}] /\ buf \in [Uses -> Bufs \cup {None}]

Users(b) == {u \in Uses : buf[u] = b}

\* A reference keeps a buffer on its block, and a block is in one buffer.
RefInv ==
  /\ \A u \in Uses :
       /\ pc[u] = "idle" => buf[u] = None
       /\ pc[u] # "idle" => /\ buf[u] \in Bufs /\ want[u] \in Blocks
                            /\ blockno[buf[u]] = want[u]
  /\ \A b \in Bufs : refcnt[b] = Cardinality(Users(b))
  /\ \A b, c \in Bufs : blockno[b] = blockno[c] /\ blockno[b] # None => b = c

\* A sleep lock that is taken has one use inside, whose pid it names.
LockInv ==
  /\ \A u \in Uses : Using(u) =>
       /\ lockpid[buf[u]] = Pid[u]
       /\ \A q \in Uses \ {u} : Using(q) => buf[q] # buf[u]
  /\ \A b \in Bufs : lockpid[b] # None => \E u \in Uses : Using(u) /\ buf[u] = b
  /\ \A u \in Uses : pc[u] = "asleep" => lockpid[buf[u]] # None

\* The queue has the buffers of those who sleep in iderw, once each, and the
\* disk works on the first of them.
QueueInv ==
  /\ \A i, j \in 1 .. Len(idequeue) : idequeue[i] = idequeue[j] => i = j
  /\ \A i \in 1 .. Len(idequeue) : \E u \in Uses : pc[u] = "io" /\ buf[u] = idequeue[i]
  /\ \A u \in Uses : pc[u] = "io" => \E i \in 1 .. Len(idequeue) : idequeue[i] = buf[u]
  /\ active = Restarted(idequeue)

FlagInv ==
  \A u \in Uses :
    /\ pc[u] = "iderw" => ~valid[buf[u]] \/ dirty[buf[u]]
    /\ pc[u] = "woken" => valid[buf[u]] /\ ~dirty[buf[u]]
    /\ pc[u] = "held" => valid[buf[u]]

\* What was last written to a block is in its dirty buffer, or else on the disk;
\* unless a read has failed, a valid buffer has it too.
DataInv ==
  /\ \A b \in Bufs : dirty[b] => blockno[b] # None /\ data[b] = latest[blockno[b]]
  /\ \A n \in Blocks :
       (\A b \in Bufs : blockno[b] = n => ~dirty[b]) => disk[n] = latest[n]
  /\ errors = 0 =>
       \A b \in Bufs : valid[b] /\ blockno[b] # None => data[b] = latest[blockno[b]]

IInv == TypeOK /\ RefInv /\ LockInv /\ QueueInv /\ FlagInv /\ DataInv /\ NoPanic

-----------------------------------------------------------------------------
(* Constants, the queue and steps that change nothing here *)

\* What the proofs need to know of the constants: null is no buffer, no block
\* and nobody's pid.
LEMMA Consts ==
  /\ None \notin Bufs /\ None \notin Blocks /\ None \in Nat
  /\ \A u \in Uses : Pid[u] \in Nat /\ Pid[u] # None
  BY BcacheAssumption DEF Bufs, None

\* A step of u with its own buffer leaves what the queue holds alone.
LEMMA NotQueued ==
  ASSUME TypeOK, RefInv, LockInv, QueueInv, NEW c \in Bufs,
         \A q \in Uses : pc[q] = "io" => buf[q] # c
  PROVE  /\ \A i \in 1 .. Len(idequeue) : idequeue[i] # c
         /\ idequeue # <<>> => Head(idequeue) \in Bufs /\ Head(idequeue) # c
<1>1. \A i \in 1 .. Len(idequeue) : idequeue[i] # c
  BY Zenon DEF QueueInv
<1>2. idequeue # <<>> => Head(idequeue) \in Bufs /\ Head(idequeue) = idequeue[1] /\ 1 \in 1 .. Len(idequeue)
  BY DEF TypeOK
<1>. QED
  BY <1>1, <1>2, Zenon

\* A step that changes neither buffers, locks and the disk nor a use
\* preserves all but NoPanic, which is about panicked.
LEMMA FrameInv ==
  ASSUME TypeOK, RefInv, LockInv, QueueInv, FlagInv, DataInv,
         UNCHANGED <<bufvars, lockpid, idevars, pc, want, buf, latest>>
  PROVE  TypeOK' /\ RefInv' /\ LockInv' /\ QueueInv' /\ FlagInv' /\ DataInv'
<1>1. UNCHANGED <<lru, blockno, valid, dirty, refcnt, data, lockpid, idequeue, active, disk,
                  errors, pc, want, buf, latest>>
  BY Zenon DEF bufvars, idevars
<1>2. TypeOK'
  BY <1>1, Zenon DEF TypeOK
<1>3. RefInv'
  BY <1>1 DEF RefInv, Users
<1>4. LockInv'
  BY <1>1 DEF LockInv, Using
<1>5. QueueInv'
  <2>1. Restarted(idequeue)' = Restarted(idequeue)
    BY <1>1, Zenon DEF Restarted, idestart
  <2>. QED
    BY <1>1, <2>1 DEF QueueInv
<1>6. FlagInv' /\ DataInv'
  BY <1>1 DEF FlagInv, DataInv
<1>. QED
  BY <1>2, <1>3, <1>4, <1>5, <1>6, Zenon

\* Those who use a buffer or sleep on its lock go on doing so.
LEMMA LockFrame ==
  ASSUME LockInv, UNCHANGED lockpid,
         \A q \in Uses : /\ Using(q)' <=> Using(q)
                         /\ Using(q) => buf'[q] = buf[q]
                         /\ pc'[q] = "asleep" => pc[q] = "asleep" /\ buf'[q] = buf[q]
  PROVE  LockInv'
<1>1. \A q \in Uses : Using(q) =>
        /\ lockpid'[buf'[q]] = Pid[q]
        /\ \A r \in Uses \ {q} : Using(r) => buf'[r] # buf'[q]
  BY DEF LockInv
<1>2. \A b \in Bufs : lockpid'[b] # None => \E q \in Uses : Using(q) /\ buf'[q] = b
  BY DEF LockInv
<1>3. \A q \in Uses : pc'[q] = "asleep" => lockpid'[buf'[q]] # None
  BY Zenon DEF LockInv
<1>. QED
  BY <1>1, <1>2, <1>3, Zenon DEF LockInv

\* Those who wait for the disk go on doing so.
LEMMA QueueFrame ==
  ASSUME QueueInv, UNCHANGED <<idequeue, active>>, Restarted(idequeue)' = Restarted(idequeue),
         \A q \in Uses : /\ pc'[q] = "io" <=> pc[q] = "io"
                         /\ pc[q] = "io" => buf'[q] = buf[q]
  PROVE  QueueInv'
<1>1. \A i \in 1 .. Len(idequeue) : \E q \in Uses : pc'[q] = "io" /\ buf'[q] = idequeue[i]
  BY DEF QueueInv
<1>2. \A q \in Uses : pc'[q] = "io" => \E i \in 1 .. Len(idequeue) : idequeue[i] = buf'[q]
  BY DEF QueueInv
<1>. QED
  BY <1>1, <1>2, Zenon DEF QueueInv

\* A stuttering step preserves the invariant.
LEMMA StutterInv ==
  ASSUME IInv, UNCHANGED vars
  PROVE  IInv'
<1>1. UNCHANGED <<bufvars, lockpid, idevars, pc, want, buf, latest>>
  BY Zenon DEF vars
<1>2. NoPanic'
  BY Zenon DEF IInv, NoPanic, vars, bufvars
<1>. QED
  BY <1>1, <1>2, FrameInv, Zenon DEF IInv

-----------------------------------------------------------------------------
(* Sleep locks *)

\* acquiresleep takes a free lock or goes to sleep on one that is taken.
LEMMA acquiresleepInv ==
  ASSUME IInv, panicked = "no", NEW u \in Uses, acquiresleep(u)
  PROVE  IInv'
<1>. USE DEF IInv
<1>. DEFINE b == buf[u]
<1>0. /\ pc[u] = "lock"
      /\ UNCHANGED <<lru, blockno, valid, dirty, refcnt, data, idequeue, active, disk, errors,
                     want, buf, panicked, latest>>
  BY Zenon DEF acquiresleep, bufvars, idevars
<1>1. /\ pc \in [Uses -> Places] /\ lockpid \in [Bufs -> Nat] /\ b \in Bufs
      /\ valid \in [Bufs -> BOOLEAN]
  BY <1>0, Zenon DEF TypeOK, RefInv
<1>2. PICK s \in {"asleep", "held", "iderw"} :
        /\ pc' = [pc EXCEPT ![u] = s]
        /\ s = "asleep" => lockpid' = lockpid /\ lockpid[b] # None
        /\ s # "asleep" => lockpid' = [lockpid EXCEPT ![b] = Pid[u]] /\ lockpid[b] = None
        /\ s = "held" => valid[b]
        /\ s = "iderw" => ~valid[b]
  BY <1>1, Zenon DEF acquiresleep
<1>3. pc'[u] = s /\ \A q \in Uses : q # u => pc'[q] = pc[q]
  BY <1>1, <1>2, Zenon
<1>4. TypeOK'
  <2>1. pc' \in [Uses -> Places]
    BY <1>1, <1>2, Zenon DEF Places
  <2>2. lockpid' \in [Bufs -> Nat]
    BY <1>1, <1>2, Consts, Zenon
  <2>. QED
    BY <1>0, <2>1, <2>2, Zenon DEF TypeOK
<1>5. RefInv'
  BY <1>0, <1>3, Zenon DEF RefInv, Users
<1>6. LockInv'
  <2>1. CASE s = "asleep"
    <3>1. \A q \in Uses : Using(q)' <=> Using(q)
      BY <1>0, <1>3, <2>1, Zenon DEF Using
    <3>. QED
      BY <1>0, <1>2, <1>3, <2>1, <3>1 DEF LockInv
  <2>2. CASE s # "asleep"
    <3>1. Using(u)' /\ ~Using(u) /\ \A q \in Uses : q # u => (Using(q)' <=> Using(q))
      BY <1>0, <1>3, <2>2, Zenon DEF Using
    <3>2. \A q \in Uses : Using(q) => buf[q] # b
      BY <1>2, <2>2, Consts DEF LockInv
    <3>3. lockpid'[b] = Pid[u] /\ \A c \in Bufs : c # b => lockpid'[c] = lockpid[c]
      BY <1>1, <1>2, <2>2, Zenon
    <3>4. \A q \in Uses : Using(q) => buf[q] \in Bufs
      BY Zenon DEF RefInv, Using
    <3>5. \A q \in Uses : Using(q)' =>
            /\ lockpid'[buf[q]] = Pid[q]
            /\ \A r \in Uses \ {q} : Using(r)' => buf[r] # buf[q]
      BY <3>1, <3>2, <3>3, <3>4 DEF LockInv
    <3>6. \A c \in Bufs : lockpid'[c] # None => \E q \in Uses : Using(q)' /\ buf[q] = c
      BY <3>1, <3>3, Zenon DEF LockInv
    <3>7. \A q \in Uses : pc'[q] = "asleep" => lockpid'[buf[q]] # None
      BY <1>2, <1>3, <2>2, <3>3, Consts DEF LockInv, RefInv
    <3>. QED
      BY <1>0, <3>5, <3>6, <3>7, Zenon DEF LockInv
  <2>. QED
    BY <2>1, <2>2, Zenon
<1>7. QueueInv'
  <2>1. Restarted(idequeue)' = Restarted(idequeue)
    BY <1>0, Zenon DEF Restarted, idestart
  <2>2. \A q \in Uses : pc'[q] = "io" <=> pc[q] = "io"
    BY <1>0, <1>3, Zenon
  <2>. QED
    BY <1>0, <2>1, <2>2, QueueFrame, Zenon
<1>8. FlagInv'
  BY <1>0, <1>2, <1>3, Zenon DEF FlagInv
<1>9. DataInv' /\ NoPanic'
  BY <1>0, Zenon DEF DataInv, NoPanic
<1>. QED
  BY <1>4, <1>5, <1>6, <1>7, <1>8, <1>9, Zenon

\* releasesleep frees the lock and wakes everybody who sleeps on it.
LEMMA releasesleepInv ==
  ASSUME IInv, panicked = "no", NEW u \in Uses, releasesleep(u)
  PROVE  IInv'
<1>. USE DEF IInv
<1>. DEFINE b == buf[u]
<1>0. /\ pc[u] = "held"
      /\ UNCHANGED <<lru, blockno, valid, dirty, refcnt, data, idequeue, active, disk, errors,
                     want, buf, latest>>
  BY Zenon DEF releasesleep, bufvars, idevars
<1>1. /\ pc \in [Uses -> Places] /\ lockpid \in [Bufs -> Nat] /\ b \in Bufs
      /\ holdingsleep(u) /\ Using(u)
  BY <1>0, Zenon DEF TypeOK, RefInv, LockInv, Using, holdingsleep
<1>2. /\ lockpid' = [lockpid EXCEPT ![b] = None] /\ panicked' = panicked
      /\ pc' = [q \in Uses |-> IF q = u THEN "put"
                                ELSE IF pc[q] = "asleep" /\ buf[q] = b THEN "lock" ELSE pc[q]]
  BY <1>1, Zenon DEF releasesleep, Woken
<1>3. /\ pc'[u] = "put"
      /\ \A q \in Uses : q # u =>
           IF pc[q] = "asleep" /\ buf[q] = b THEN pc'[q] = "lock" ELSE pc'[q] = pc[q]
  BY <1>2, Zenon
<1>4. TypeOK'
  <2>1. pc' \in [Uses -> Places]
    BY <1>1, <1>2, Zenon DEF Places
  <2>2. lockpid' \in [Bufs -> Nat]
    BY <1>1, <1>2, Consts, Zenon
  <2>. QED
    BY <1>0, <2>1, <2>2, Zenon DEF TypeOK
<1>5. RefInv'
  BY <1>0, <1>3 DEF RefInv, Users
<1>6. LockInv'
  <2>1. \A q \in Uses : Using(q)' <=> Using(q) /\ q # u
    BY <1>3, Zenon DEF Using
  <2>2. \A q \in Uses : Using(q) /\ q # u => buf[q] \in Bufs /\ buf[q] # b
    BY <1>1, Zenon DEF LockInv, RefInv, Using
  <2>3. lockpid'[b] = None /\ \A c \in Bufs : c # b => lockpid'[c] = lockpid[c]
    BY <1>1, <1>2, Zenon
  <2>4. \A q \in Uses : Using(q)' =>
          /\ lockpid'[buf[q]] = Pid[q]
          /\ \A r \in Uses \ {q} : Using(r)' => buf[r] # buf[q]
    BY <2>1, <2>2, <2>3, Zenon DEF LockInv
  <2>5. \A c \in Bufs : lockpid'[c] # None => \E q \in Uses : Using(q)' /\ buf[q] = c
    BY <2>1, <2>3, Zenon DEF LockInv
  <2>6. \A q \in Uses : pc'[q] = "asleep" => lockpid'[buf[q]] # None
    BY <1>3, <2>3 DEF LockInv, RefInv
  <2>. QED
    BY <1>0, <2>4, <2>5, <2>6, Zenon DEF LockInv
<1>7. QueueInv'
  <2>1. Restarted(idequeue)' = Restarted(idequeue)
    BY <1>0, Zenon DEF Restarted, idestart
  <2>2. \A q \in Uses : pc'[q] = "io" <=> pc[q] = "io"
    BY <1>0, <1>3, Zenon
  <2>. QED
    BY <1>0, <2>1, <2>2, QueueFrame, Zenon
<1>8. FlagInv'
  BY <1>0, <1>3 DEF FlagInv
<1>9. DataInv' /\ NoPanic'
  BY <1>0, <1>2, Zenon DEF DataInv, NoPanic
<1>. QED
  BY <1>4, <1>5, <1>6, <1>7, <1>8, <1>9, Zenon

-----------------------------------------------------------------------------
(* Writes *)

\* New contents for the buffer that u holds, dirty from now on.
LEMMA WriteInv ==
  ASSUME IInv, panicked = "no", NEW u \in Uses, NEW v \in Data, pc[u] = "held",
         NEW s \in {"held", "iderw"}, pc' = [pc EXCEPT ![u] = s],
         data' = [data EXCEPT ![buf[u]] = v],
         latest' = [latest EXCEPT ![want[u]] = v],
         dirty' = [dirty EXCEPT ![buf[u]] = TRUE],
         UNCHANGED <<lru, blockno, valid, refcnt, lockpid, idevars, want, buf, panicked>>
  PROVE  IInv'
<1>. USE DEF IInv
<1>. DEFINE b == buf[u]  n == want[u]
<1>0. UNCHANGED <<lru, blockno, valid, refcnt, lockpid, idequeue, active, disk, errors, want, buf,
                  panicked>>
  BY Zenon DEF idevars
<1>1. /\ pc \in [Uses -> Places] /\ data \in [Bufs -> Data] /\ latest \in [Blocks -> Data]
      /\ dirty \in [Bufs -> BOOLEAN] /\ b \in Bufs /\ n \in Blocks /\ blockno[b] = n /\ Using(u)
  BY Zenon DEF TypeOK, RefInv, Using
<1>2. TypeOK'
  <2>1. /\ pc' \in [Uses -> Places] /\ data' \in [Bufs -> Data] /\ latest' \in [Blocks -> Data]
        /\ dirty' \in [Bufs -> BOOLEAN]
    BY <1>1, Zenon DEF Places
  <2>. QED
    BY <1>0, <2>1, Zenon DEF TypeOK
<1>3. /\ pc'[u] = s /\ \A q \in Uses : q # u => pc'[q] = pc[q]
      /\ data'[b] = v /\ dirty'[b] /\ latest'[n] = v
      /\ \A c \in Bufs : c # b => data'[c] = data[c] /\ dirty'[c] = dirty[c]
      /\ \A m \in Blocks : m # n => latest'[m] = latest[m]
  BY <1>1, Zenon
<1>4. RefInv'
  BY <1>0, <1>3 DEF RefInv, Users
<1>5. \A q \in Uses : Using(q)' <=> Using(q)
  BY <1>3, Zenon DEF Using
<1>6. LockInv'
  BY <1>0, <1>3, <1>5 DEF LockInv
<1>7. \A q \in Uses : Using(q) /\ q # u => buf[q] # b
  BY <1>1, Zenon DEF LockInv
<1>8. QueueInv'
  <2>1. \A q \in Uses : pc[q] = "io" => Using(q) /\ q # u
    BY Zenon DEF Using
  <2>2. idequeue # <<>> => Head(idequeue) \in Bufs /\ Head(idequeue) # b
    BY <1>1, <1>7, <2>1, NotQueued, Zenon
  <2>3. Restarted(idequeue)' = Restarted(idequeue)
    BY <1>0, <1>3, <2>2, Zenon DEF Restarted, idestart
  <2>4. \A q \in Uses : pc'[q] = "io" <=> pc[q] = "io"
    BY <1>3, Zenon
  <2>. QED
    BY <1>0, <2>3, <2>4 DEF QueueInv
<1>9. FlagInv'
  <2>1. \A q \in Uses : q # u /\ pc'[q] \in {"iderw", "woken", "held"} => buf[q] \in Bufs /\ buf[q] # b
    BY <1>3, <1>7 DEF Using, RefInv
  <2>2. valid[b]
    BY Zenon DEF FlagInv
  <2>. QED
    BY <1>0, <1>3, <2>1, <2>2 DEF FlagInv
<1>10. DataInv'
  <2>1. \A c \in Bufs : c # b => blockno[c] # n
    BY <1>1, Consts DEF RefInv
  <2>2. \A c \in Bufs : blockno[c] \in Blocks \cup {None}
    BY Zenon DEF TypeOK
  <2>3. \A c \in Bufs : dirty'[c] => blockno[c] # None /\ data'[c] = latest'[blockno[c]]
    BY <1>1, <1>3, <2>1, <2>2, Consts DEF DataInv
  <2>4. ASSUME NEW m \in Blocks, \A c \in Bufs : blockno[c] = m => ~dirty'[c]
        PROVE  disk[m] = latest'[m]
    <3>1. m # n
      BY <1>1, <1>3, <2>4
    <3>2. \A c \in Bufs : blockno[c] = m => ~dirty[c]
      BY <1>1, <1>3, <2>4, <3>1
    <3>. QED
      BY <1>3, <3>1, <3>2, Zenon DEF DataInv
  <2>5. errors = 0 => \A c \in Bufs : valid[c] /\ blockno[c] # None => data'[c] = latest'[blockno[c]]
    <3>1. errors = 0 => \A c \in Bufs : c # b /\ valid[c] /\ blockno[c] # None =>
                          data[c] = latest[blockno[c]] /\ latest'[blockno[c]] = latest[blockno[c]]
      BY <1>3, <2>1, <2>2, Zenon DEF DataInv
    <3>. QED
      BY <1>1, <1>3, <3>1
  <2>. QED
    BY <1>0, <2>3, <2>4, <2>5 DEF DataInv
<1>11. NoPanic'
  BY <1>0, Zenon DEF NoPanic
<1>. QED
  BY <1>2, <1>4, <1>6, <1>8, <1>9, <1>10, <1>11, Zenon

\* bwrite's caller holds the lock, so it does not panic.
LEMMA bwriteInv ==
  ASSUME IInv, panicked = "no", NEW u \in Uses, NEW v \in Data, bwrite(u, v)
  PROVE  IInv'
<1>1. holdingsleep(u)
  BY Zenon DEF IInv, LockInv, Using, holdingsleep, bwrite
<1>. QED
  BY <1>1, WriteInv, Zenon DEF bwrite

\* log_write's change stays in the cache.
LEMMA log_writeInv ==
  ASSUME IInv, panicked = "no", NEW u \in Uses, NEW v \in Data, log_write(u, v)
  PROVE  IInv'
<1>1. pc' = [pc EXCEPT ![u] = "held"]
  BY Zenon DEF log_write, IInv, TypeOK
<1>. QED
  BY <1>1, WriteInv, Zenon DEF log_write

-----------------------------------------------------------------------------
(* ide.c *)

\* iderw's caller holds the lock of a buffer with something to do, which it
\* queues once.
LEMMA iderwInv ==
  ASSUME IInv, panicked = "no", NEW u \in Uses, iderw(u)
  PROVE  IInv'
<1>. USE DEF IInv
<1>. DEFINE b == buf[u]
<1>0. /\ pc[u] = "iderw"
      /\ UNCHANGED <<lru, blockno, valid, dirty, refcnt, data, lockpid, disk, errors, want, buf,
                     latest>>
  BY Zenon DEF iderw, bufvars
<1>1. /\ pc \in [Uses -> Places] /\ b \in Bufs /\ Using(u) /\ idequeue \in Seq(Bufs)
      /\ holdingsleep(u) /\ ~(valid[b] /\ ~dirty[b])
  BY <1>0, Zenon DEF TypeOK, RefInv, LockInv, FlagInv, Using, holdingsleep
<1>2. /\ idequeue' = Append(idequeue, b) /\ pc' = [pc EXCEPT ![u] = "io"]
      /\ active' = (IF Starts(b) THEN idestart(b) ELSE active) /\ panicked' = panicked
  BY <1>1, Zenon DEF iderw
<1>3. pc'[u] = "io" /\ \A q \in Uses : q # u => pc'[q] = pc[q]
  BY <1>1, <1>2, Zenon
<1>4. TypeOK'
  <2>1. pc' \in [Uses -> Places] /\ idequeue' \in Seq(Bufs)
    BY <1>1, <1>2 DEF Places
  <2>. QED
    BY <1>0, <2>1, Zenon DEF TypeOK
<1>5. RefInv'
  BY <1>0, <1>3, Zenon DEF RefInv, Users
<1>6. LockInv'
  <2>1. \A q \in Uses : Using(q)' <=> Using(q)
    BY <1>0, <1>3, Zenon DEF Using
  <2>. QED
    BY <1>0, <1>3, <2>1, Zenon DEF LockInv
<1>7. \A q \in Uses : pc[q] = "io" => buf[q] # b
  BY <1>0, <1>1, Zenon DEF LockInv, Using
<1>8. \A i \in 1 .. Len(idequeue) : idequeue[i] # b
  BY <1>1, <1>7, NotQueued, Zenon
<1>9. /\ Len(idequeue') = Len(idequeue) + 1 /\ Len(idequeue) \in Nat
      /\ idequeue'[Len(idequeue) + 1] = b
      /\ \A i \in 1 .. Len(idequeue) : idequeue'[i] = idequeue[i]
  BY <1>1, <1>2
<1>10. QueueInv'
  <2>1. \A i, j \in 1 .. Len(idequeue') : idequeue'[i] = idequeue'[j] => i = j
    BY <1>8, <1>9 DEF QueueInv
  <2>2. \A i \in 1 .. Len(idequeue') : \E q \in Uses : pc'[q] = "io" /\ buf[q] = idequeue'[i]
    <3>. SUFFICES ASSUME NEW i \in 1 .. Len(idequeue')
                  PROVE  \E q \in Uses : pc'[q] = "io" /\ buf[q] = idequeue'[i]
      BY Zenon
    <3>1. CASE i = Len(idequeue) + 1
      BY <1>3, <1>9, <3>1, Zenon
    <3>2. CASE i \in 1 .. Len(idequeue)
      BY <1>3, <1>9, <3>2 DEF QueueInv
    <3>. QED
      BY <1>9, <3>1, <3>2
  <2>3. \A q \in Uses : pc'[q] = "io" => \E i \in 1 .. Len(idequeue') : idequeue'[i] = buf[q]
    <3>. SUFFICES ASSUME NEW q \in Uses, pc'[q] = "io"
                  PROVE  \E i \in 1 .. Len(idequeue') : idequeue'[i] = buf[q]
      BY Zenon
    <3>1. CASE q = u
      <4>1. Len(idequeue) + 1 \in 1 .. Len(idequeue')
        BY <1>9
      <4>. QED
        BY <1>9, <3>1, <4>1, Zenon
    <3>2. CASE q # u
      <4>1. PICK i \in 1 .. Len(idequeue) : idequeue[i] = buf[q]
        BY <1>3, <3>2, Zenon DEF QueueInv
      <4>2. i \in 1 .. Len(idequeue')
        BY <1>9
      <4>. QED
        BY <1>9, <4>1, <4>2, Zenon
    <3>. QED
      BY <3>1, <3>2, Zenon
  <2>4. active' = Restarted(idequeue)'
    <3>1. CASE idequeue = <<>>
      <4>1. idequeue' = <<b>> /\ Head(idequeue') = b /\ idequeue' # <<>>
        BY <1>2, <3>1
      <4>2. active' = idestart(b)
        BY <1>2, <4>1, Zenon DEF Starts
      <4>. QED
        BY <1>0, <4>1, <4>2, Zenon DEF Restarted, idestart
    <3>2. CASE idequeue # <<>>
      <4>1. Head(idequeue') = Head(idequeue) /\ Head(idequeue) # b /\ idequeue' # <<>>
        BY <1>1, <1>2, <1>8, <3>2
      <4>2. active' = active
        BY <1>2, <4>1, Zenon DEF Starts
      <4>. QED
        BY <1>0, <3>2, <4>1, <4>2, Zenon DEF Restarted, idestart, QueueInv
    <3>. QED
      BY <3>1, <3>2, Zenon
  <2>. QED
    BY <1>0, <2>1, <2>2, <2>3, <2>4, Zenon DEF QueueInv
<1>11. FlagInv'
  BY <1>0, <1>3, Zenon DEF FlagInv
<1>12. DataInv' /\ NoPanic'
  BY <1>0, <1>2, Zenon DEF DataInv, NoPanic
<1>. QED
  BY <1>4, <1>5, <1>6, <1>10, <1>11, <1>12, Zenon

\* Who is woken in iderw finds its buffer done.
LEMMA iderw_returnInv ==
  ASSUME IInv, panicked = "no", NEW u \in Uses, iderw_return(u)
  PROVE  IInv'
<1>. USE DEF IInv
<1>0. /\ pc[u] = "woken" /\ valid[buf[u]] /\ ~dirty[buf[u]]
      /\ UNCHANGED <<lru, blockno, valid, dirty, refcnt, data, lockpid, idequeue, active, disk,
                     errors, want, buf, panicked, latest>>
  BY Zenon DEF iderw_return, bufvars, idevars, FlagInv
<1>1. pc \in [Uses -> Places] /\ pc' = [pc EXCEPT ![u] = "held"]
  BY <1>0, Zenon DEF iderw_return, TypeOK
<1>2. pc'[u] = "held" /\ \A q \in Uses : q # u => pc'[q] = pc[q]
  BY <1>1, Zenon
<1>3. TypeOK'
  <2>1. pc' \in [Uses -> Places]
    BY <1>1, Zenon DEF Places
  <2>. QED
    BY <1>0, <2>1, Zenon DEF TypeOK
<1>4. RefInv'
  BY <1>0, <1>2 DEF RefInv, Users
<1>5. LockInv'
  <2>1. \A q \in Uses : Using(q)' <=> Using(q)
    BY <1>0, <1>2, Zenon DEF Using
  <2>. QED
    BY <1>0, <1>2, <2>1, Zenon DEF LockInv
<1>6. QueueInv'
  <2>1. Restarted(idequeue)' = Restarted(idequeue)
    BY <1>0, Zenon DEF Restarted, idestart
  <2>2. \A q \in Uses : pc'[q] = "io" <=> pc[q] = "io"
    BY <1>0, <1>2, Zenon
  <2>. QED
    BY <1>0, <2>1, <2>2, Zenon DEF QueueInv
<1>7. FlagInv'
  BY <1>0, <1>2, Zenon DEF FlagInv
<1>8. DataInv' /\ NoPanic'
  BY <1>0, Zenon DEF DataInv, NoPanic
<1>. QED
  BY <1>3, <1>4, <1>5, <1>6, <1>7, <1>8, Zenon

\* The interrupt takes the first buffer off the queue, with the block's contents,
\* and wakes the use that waits for it.
LEMMA ideintrInv ==
  ASSUME IInv, panicked = "no", ideintr
  PROVE  IInv'
<1>. USE DEF IInv
<1>1. idequeue # <<>> /\ idequeue \in Seq(Bufs)
  BY Zenon DEF ideintr, TypeOK
<1>2. PICK b \in Bufs : b = Head(idequeue) /\ b = idequeue[1]
  BY <1>1
<1>3. PICK u \in Uses : pc[u] = "io" /\ buf[u] = b
  <2>1. 1 \in 1 .. Len(idequeue)
    BY <1>1
  <2>. QED
    BY <1>2, <2>1 DEF QueueInv
<1>4. PICK n \in Blocks : n = blockno[b]
  BY <1>3, Zenon DEF RefInv
<1>5. active.block = n /\ active.write = dirty[b] /\ active.data = data[b]
  BY <1>1, <1>2, <1>4, Zenon DEF QueueInv, Restarted, idestart
<1>6. /\ disk' = IF dirty[b] THEN [disk EXCEPT ![n] = data[b]] ELSE disk
      /\ \/ data' = (IF dirty[b] THEN data ELSE [data EXCEPT ![b] = disk[n]]) /\ errors' = errors
         \/ ~dirty[b] /\ errors' = errors + 1 /\ data' = data
      /\ valid' = [valid EXCEPT ![b] = TRUE] /\ dirty' = [dirty EXCEPT ![b] = FALSE]
      /\ pc' = [q \in Uses |-> IF pc[q] = "io" /\ buf[q] = b THEN "woken" ELSE pc[q]]
  BY <1>2, <1>5, Zenon DEF ideintr
<1>q. idequeue' = Tail(idequeue) /\ active' = Restarted(Tail(idequeue))
  BY Zenon DEF ideintr
<1>u. UNCHANGED <<lru, blockno, refcnt, lockpid, want, buf, panicked, latest>>
  BY Zenon DEF ideintr
<1>7. /\ valid \in [Bufs -> BOOLEAN] /\ dirty \in [Bufs -> BOOLEAN] /\ data \in [Bufs -> Data]
      /\ disk \in [Blocks -> Data] /\ errors \in Nat /\ pc \in [Uses -> Places]
  BY Zenon DEF TypeOK
<1>8. TypeOK'
  <2>1. pc' \in [Uses -> Places] /\ valid' \in [Bufs -> BOOLEAN] /\ dirty' \in [Bufs -> BOOLEAN]
    BY <1>6, <1>7, Zenon DEF Places
  <2>2. disk' \in [Blocks -> Data] /\ data' \in [Bufs -> Data] /\ errors' \in Nat
    BY <1>6, <1>7
  <2>3. idequeue' \in Seq(Bufs)
    BY <1>1, <1>q
  <2>. QED
    BY <1>u, <2>1, <2>2, <2>3, Zenon DEF TypeOK
<1>9. /\ Using(u) /\ pc'[u] = "woken" /\ \A q \in Uses : q # u => pc'[q] = pc[q]
      /\ \A q \in Uses : q # u /\ Using(q) => buf[q] # b
  <2>1. Using(u) /\ \A q \in Uses : q # u /\ Using(q) => buf[q] # b
    BY <1>3, Zenon DEF LockInv, Using
  <2>2. \A q \in Uses : q # u /\ buf[q] = b => pc[q] # "io"
    BY <2>1, Zenon DEF Using
  <2>. QED
    BY <1>3, <1>6, <1>7, <2>1, <2>2, Zenon
<1>10. /\ valid'[b] /\ ~dirty'[b]
       /\ \A c \in Bufs : c # b => valid'[c] = valid[c] /\ dirty'[c] = dirty[c] /\ data'[c] = data[c]
  BY <1>6, <1>7, Zenon
<1>11. RefInv'
  <2>1. \A q \in Uses : pc'[q] = "idle" <=> pc[q] = "idle"
    BY <1>3, <1>9, Zenon
  <2>2. \A c \in Bufs : Users(c)' = Users(c)
    BY <1>u, Zenon DEF Users
  <2>. QED
    BY <1>u, <2>1, <2>2, Zenon DEF RefInv
<1>12. LockInv'
  <2>1. \A q \in Uses : Using(q)' <=> Using(q)
    BY <1>3, <1>9, Zenon DEF Using
  <2>. QED
    BY <1>u, <1>3, <1>9, <2>1, Zenon DEF LockInv
<1>13. QueueInv'
  <2>1. /\ Len(idequeue') = Len(idequeue) - 1 /\ Len(idequeue) \in Nat \ {0}
        /\ \A i \in 1 .. Len(idequeue') : i + 1 \in 1 .. Len(idequeue) /\ idequeue'[i] = idequeue[i + 1]
    BY <1>1, <1>q
  <2>2. \A i \in 1 .. Len(idequeue') : idequeue'[i] # b
    <3>1. 1 \in 1 .. Len(idequeue) /\ \A i \in 1 .. Len(idequeue') : i + 1 # 1
      BY <2>1
    <3>2. \A i \in 1 .. Len(idequeue') : idequeue[i + 1] # idequeue[1]
      BY <2>1, <3>1, Zenon DEF QueueInv
    <3>. QED
      BY <1>2, <2>1, <3>2, Zenon
  <2>3. \A i, j \in 1 .. Len(idequeue') : idequeue'[i] = idequeue'[j] => i = j
    <3>. SUFFICES ASSUME NEW i \in 1 .. Len(idequeue'), NEW j \in 1 .. Len(idequeue'),
                         idequeue'[i] = idequeue'[j]
                  PROVE  i = j
      BY Zenon
    <3>1. /\ i + 1 \in 1 .. Len(idequeue) /\ j + 1 \in 1 .. Len(idequeue)
          /\ idequeue[i + 1] = idequeue[j + 1]
      BY <2>1, Zenon
    <3>2. i + 1 = j + 1
      BY <3>1, Zenon DEF QueueInv
    <3>. QED
      BY <3>2
  <2>4. \A i \in 1 .. Len(idequeue') : \E q \in Uses : pc'[q] = "io" /\ buf[q] = idequeue'[i]
    <3>. SUFFICES ASSUME NEW i \in 1 .. Len(idequeue')
                  PROVE  \E q \in Uses : pc'[q] = "io" /\ buf[q] = idequeue'[i]
      BY Zenon
    <3>3. i + 1 \in 1 .. Len(idequeue) /\ idequeue'[i] = idequeue[i + 1]
      BY <2>1, Zenon
    <3>1. PICK q \in Uses : pc[q] = "io" /\ buf[q] = idequeue'[i]
      BY <3>3 DEF QueueInv
    <3>2. q # u
      BY <1>3, <2>2, <3>1, Zenon
    <3>. QED
      BY <1>9, <3>1, <3>2, Zenon
  <2>5. ASSUME NEW q \in Uses, pc'[q] = "io"
        PROVE  \E i \in 1 .. Len(idequeue') : idequeue'[i] = buf[q]
    <3>1. q # u /\ pc[q] = "io" /\ buf[q] # b
      BY <1>9, <2>5, Zenon DEF Using
    <3>2. PICK i \in 1 .. Len(idequeue) : idequeue[i] = buf[q]
      BY <3>1, Zenon DEF QueueInv
    <3>3. i # 1
      BY <1>2, <3>1, <3>2, Zenon
    <3>4. i - 1 \in 1 .. Len(idequeue') /\ (i - 1) + 1 = i
      BY <2>1, <3>3
    <3>. QED
      BY <2>1, <3>2, <3>4, Zenon
  <2>6. active' = Restarted(idequeue)'
    <3>1. CASE Tail(idequeue) = <<>>
      BY <1>q, <3>1, Zenon DEF Restarted
    <3>2. CASE Tail(idequeue) # <<>>
      <4>. DEFINE c == Head(Tail(idequeue))
      <4>1. c \in Bufs /\ c = idequeue'[1] /\ 1 \in 1 .. Len(idequeue')
        BY <1>1, <1>q, <3>2
      <4>2. c # b
        BY <2>2, <4>1, Zenon
      <4>3. blockno'[c] = blockno[c] /\ dirty'[c] = dirty[c] /\ data'[c] = data[c]
        BY <1>u, <1>10, <4>1, <4>2, Zenon
      <4>. QED
        BY <1>q, <3>2, <4>3, Zenon DEF Restarted, idestart
    <3>. QED
      BY <3>1, <3>2, Zenon
  <2>. QED
    BY <1>u, <2>3, <2>4, <2>5, <2>6, Zenon DEF QueueInv
<1>14. FlagInv'
  <2>1. \A q \in Uses : q # u /\ pc[q] \in {"iderw", "woken", "held"} => buf[q] \in Bufs /\ buf[q] # b
    BY <1>9, Zenon DEF Using, RefInv
  <2>. QED
    BY <1>u, <1>3, <1>9, <1>10, <2>1 DEF FlagInv
<1>15. DataInv'
  <2>1. \A c \in Bufs : c # b => blockno[c] # n
    BY <1>4, Consts, Zenon DEF RefInv
  <2>2. \A c \in Bufs : dirty'[c] => blockno[c] # None /\ data'[c] = latest[blockno[c]]
    BY <1>10, Zenon DEF DataInv
  <2>3. disk'[n] = latest[n] /\ \A m \in Blocks : m # n => disk'[m] = disk[m]
    <3>1. CASE dirty[b]
      BY <1>4, <1>6, <1>7, <3>1, Zenon DEF DataInv
    <3>2. CASE ~dirty[b]
      BY <1>4, <1>6, <1>7, <2>1, <3>2, Zenon DEF DataInv
    <3>. QED
      BY <3>1, <3>2, Zenon
  <2>4. ASSUME NEW m \in Blocks, \A c \in Bufs : blockno[c] = m => ~dirty'[c]
        PROVE  disk'[m] = latest[m]
    <3>1. CASE m = n
      BY <2>3, <3>1, Zenon
    <3>2. CASE m # n
      <4>1. \A c \in Bufs : blockno[c] = m => ~dirty[c]
        BY <1>4, <1>10, <2>4, <3>2, Zenon
      <4>. QED
        BY <2>3, <3>2, <4>1, Zenon DEF DataInv
    <3>. QED
      BY <3>1, <3>2, Zenon
  <2>5. errors' = 0 => data'[b] = latest[n]
    <3>. SUFFICES ASSUME errors' = 0 PROVE data'[b] = latest[n]
      BY Zenon
    <3>1. data' = (IF dirty[b] THEN data ELSE [data EXCEPT ![b] = disk[n]])
      BY <1>6, <1>7
    <3>2. CASE dirty[b]
      BY <1>4, <3>1, <3>2, Zenon DEF DataInv
    <3>3. CASE ~dirty[b]
      BY <1>6, <1>7, <2>3, <3>1, <3>3, Zenon
    <3>. QED
      BY <3>2, <3>3, Zenon
  <2>6. errors' = 0 => \A c \in Bufs : valid'[c] /\ blockno[c] # None => data'[c] = latest[blockno[c]]
    <3>1. errors' = 0 => errors = 0
      BY <1>6, <1>7
    <3>. QED
      BY <1>4, <1>10, <2>5, <3>1, Zenon DEF DataInv
  <2>. QED
    BY <1>u, <2>2, <2>4, <2>6, Zenon DEF DataInv
<1>16. NoPanic'
  BY <1>u, Zenon DEF NoPanic
<1>. QED
  BY <1>8, <1>11, <1>12, <1>13, <1>14, <1>15, <1>16, Zenon

-----------------------------------------------------------------------------
(* Constants and counting *)

INSTANCE FiniteSetTheorems

\* There are NBUF buffers.
LEMMA BufsFinite == IsFiniteSet(Bufs) /\ Cardinality(Bufs) = NBUF
<1>1. NBUF \in Int /\ NBUF >= 1
  BY BcacheAssumption
<1>. QED
  BY <1>1, FS_Interval DEF Bufs

\* Sets of uses are finite, as ptable is.
LEMMA UsersFinite ==
  \A S \in SUBSET Uses : IsFiniteSet(S) /\ Cardinality(S) \in Nat
  BY BcacheAssumption, FS_Subset, FS_CardinalityType, Zenon

\* binit establishes the invariant.
LEMMA InitInv == Init => IInv
<1>. SUFFICES ASSUME Init PROVE IInv
  BY Zenon
<1>1. TypeOK
  <2>1. lru \in [Bufs -> Bufs]
    BY BcacheAssumption DEF Init, Bufs
  <2>2. /\ blockno \in [Bufs -> Blocks \cup {None}] /\ valid \in [Bufs -> BOOLEAN]
        /\ dirty \in [Bufs -> BOOLEAN]
    BY Zenon DEF Init
  <2>3. /\ refcnt \in [Bufs -> Nat] /\ data \in [Bufs -> Data]
        /\ lockpid \in [Bufs -> Nat] /\ idequeue \in Seq(Bufs)
    BY Consts, BcacheAssumption DEF Init
  <2>4. disk \in [Blocks -> Data] /\ latest \in [Blocks -> Data] /\ errors \in Nat
    BY BcacheAssumption, Zenon DEF Init
  <2>5. /\ pc \in [Uses -> Places] /\ want \in [Uses -> Blocks \cup {None}]
        /\ buf \in [Uses -> Bufs \cup {None}]
    BY Zenon DEF Init, Places
  <2>. QED
    BY <2>1, <2>2, <2>3, <2>4, <2>5, Zenon DEF TypeOK
<1>2. \A b \in Bufs : Users(b) = {}
  BY Consts, Zenon DEF Init, Users
<1>3. RefInv
  BY <1>2, FS_EmptySet, Consts, Zenon DEF Init, RefInv
<1>4. LockInv /\ QueueInv /\ FlagInv
  BY DEF Init, LockInv, QueueInv, FlagInv, Using, Restarted
<1>5. DataInv /\ NoPanic
  BY Zenon DEF Init, DataInv, NoPanic
<1>. QED
  BY <1>1, <1>3, <1>4, <1>5, Zenon DEF IInv

\* Nobody has a buffer whose reference count is 0.
LEMMA Unused ==
  ASSUME TypeOK, RefInv, NEW c \in Bufs, refcnt[c] = 0
  PROVE  \A u \in Uses : buf[u] # c
<1>1. IsFiniteSet(Users(c)) /\ Cardinality(Users(c)) = 0
  BY UsersFinite, Zenon DEF RefInv, Users
<1>2. Users(c) = {}
  BY <1>1, FS_EmptySet, Zenon
<1>. QED
  BY <1>2, Zenon DEF Users

-----------------------------------------------------------------------------
(* bget *)

\* bget finds the block: one more reference to its buffer.
LEMMA bgetCachedInv ==
  ASSUME IInv, panicked = "no", NEW u \in Uses, NEW n \in Blocks, bget(u, n), NEW c \in Cached(n),
         refcnt' = [refcnt EXCEPT ![c] = @ + 1], buf' = [buf EXCEPT ![u] = c],
         UNCHANGED <<blockno, valid, dirty>>
  PROVE  IInv'
<1>. USE DEF IInv
<1>0. /\ pc[u] = "idle" /\ pc' = [pc EXCEPT ![u] = "lock"]
      /\ want' = [want EXCEPT ![u] = n]
  BY Zenon DEF bget
<1>u. UNCHANGED <<lru, data, lockpid, idequeue, active, disk, errors, panicked, latest>>
  BY Zenon DEF bget, idevars
<1>1. /\ pc \in [Uses -> Places] /\ want \in [Uses -> Blocks \cup {None}]
      /\ buf \in [Uses -> Bufs \cup {None}] /\ refcnt \in [Bufs -> Nat]
  BY Zenon DEF TypeOK
<1>2. c \in Bufs /\ blockno[c] = n /\ buf[u] = None /\ c # None
  BY <1>0, Consts, Zenon DEF Cached, RefInv
<1>3. TypeOK'
  <2>1. /\ pc' \in [Uses -> Places] /\ want' \in [Uses -> Blocks \cup {None}]
        /\ buf' \in [Uses -> Bufs \cup {None}] /\ refcnt' \in [Bufs -> Nat]
    BY <1>0, <1>1, <1>2 DEF Places
  <2>. QED
    BY <1>u, <2>1, Zenon DEF TypeOK
<1>4. /\ Users(c)' = Users(c) \cup {u} /\ u \notin Users(c)
      /\ \A b \in Bufs : b # c => Users(b)' = Users(b)
  BY <1>1, <1>2, Consts DEF Users
<1>5. RefInv'
  <2>1. Cardinality(Users(c)') = refcnt[c] + 1
    <3>1. IsFiniteSet(Users(c)) /\ refcnt[c] = Cardinality(Users(c))
      BY <1>2, UsersFinite, Zenon DEF Users, RefInv
    <3>2. Cardinality(Users(c) \cup {u}) = Cardinality(Users(c)) + 1
      BY <1>4, <3>1, FS_AddElement, Zenon
    <3>. QED
      BY <1>4, <3>1, <3>2, Zenon
  <2>2. \A b \in Bufs : refcnt'[b] = Cardinality(Users(b)')
    <3>1. refcnt'[c] = refcnt[c] + 1 /\ \A b \in Bufs : b # c => refcnt'[b] = refcnt[b]
      BY <1>1, <1>2, Zenon
    <3>2. \A b \in Bufs : b # c => refcnt'[b] = Cardinality(Users(b)')
      BY <1>4, <3>1, Zenon DEF RefInv
    <3>. QED
      BY <2>1, <3>1, <3>2, Zenon
  <2>3. \A q \in Uses :
          /\ pc'[q] = "idle" => buf'[q] = None
          /\ pc'[q] # "idle" => /\ buf'[q] \in Bufs /\ want'[q] \in Blocks
                                /\ blockno[buf'[q]] = want'[q]
    <3>1. pc'[u] = "lock" /\ buf'[u] = c /\ want'[u] = n
      BY <1>0, <1>1, Zenon
    <3>2. \A q \in Uses : q # u => pc'[q] = pc[q] /\ buf'[q] = buf[q] /\ want'[q] = want[q]
      BY <1>0, <1>1, Zenon
    <3>3. pc'[u] # "idle" /\ buf'[u] \in Bufs /\ want'[u] \in Blocks /\ blockno[buf'[u]] = want'[u]
      BY <1>2, <3>1
    <3>4. \A q \in Uses :
            /\ pc[q] = "idle" => buf[q] = None
            /\ pc[q] # "idle" => /\ buf[q] \in Bufs /\ want[q] \in Blocks
                                 /\ blockno[buf[q]] = want[q]
      BY Zenon DEF RefInv
    <3>. QED
      BY <3>2, <3>3, <3>4
  <2>. QED
    BY <2>2, <2>3, Zenon DEF RefInv
<1>6. \A q \in Uses : /\ Using(q)' <=> Using(q)
                      /\ Using(q) \/ pc'[q] \in {"asleep", "iderw", "io", "woken", "held"} =>
                           pc'[q] = pc[q] /\ buf'[q] = buf[q]
                      /\ pc[q] = "io" => pc'[q] = "io"
  BY <1>0, <1>1, Zenon DEF Using
<1>7. LockInv'
  BY <1>u, <1>6, LockFrame, Zenon
<1>8. QueueInv'
  <2>1. Restarted(idequeue)' = Restarted(idequeue)
    BY <1>u, Zenon DEF Restarted, idestart
  <2>. QED
    BY <1>u, <1>6, <2>1, QueueFrame, Zenon
<1>9. FlagInv'
  BY <1>6 DEF FlagInv
<1>10. DataInv' /\ NoPanic'
  BY <1>u, Zenon DEF DataInv, NoPanic
<1>. QED
  BY <1>3, <1>5, <1>7, <1>8, <1>9, <1>10, Zenon

\* bget takes over a buffer that is clean and that nobody uses.
LEMMA bgetRecycledInv ==
  ASSUME IInv, panicked = "no", NEW u \in Uses, NEW n \in Blocks, bget(u, n), NEW c \in Bufs,
         Cached(n) = {}, Recyclable(c),
         blockno' = [blockno EXCEPT ![c] = n],
         valid' = [valid EXCEPT ![c] = FALSE], dirty' = [dirty EXCEPT ![c] = FALSE],
         refcnt' = [refcnt EXCEPT ![c] = 1], buf' = [buf EXCEPT ![u] = c]
  PROVE  IInv'
<1>. USE DEF IInv
<1>0. /\ pc[u] = "idle" /\ pc' = [pc EXCEPT ![u] = "lock"]
      /\ want' = [want EXCEPT ![u] = n] /\ buf' = [buf EXCEPT ![u] = c]
  BY Zenon DEF bget
<1>i. RefInv /\ FlagInv /\ DataInv
  BY Zenon
<1>u. UNCHANGED <<lru, data, lockpid, idequeue, active, disk, errors, panicked, latest>>
  BY Zenon DEF bget, idevars
<1>1. /\ pc \in [Uses -> Places] /\ want \in [Uses -> Blocks \cup {None}]
      /\ buf \in [Uses -> Bufs \cup {None}] /\ refcnt \in [Bufs -> Nat]
      /\ blockno \in [Bufs -> Blocks \cup {None}]
      /\ valid \in [Bufs -> BOOLEAN] /\ dirty \in [Bufs -> BOOLEAN]
  BY Zenon DEF TypeOK
<1>2. /\ \A b \in Bufs : blockno[b] # n /\ refcnt[c] = 0 /\ ~dirty[c]
      /\ buf[u] = None /\ c # None
  BY <1>0, Consts, Zenon DEF Cached, RefInv, Recyclable
<1>3. \A q \in Uses : buf[q] # c
  BY <1>2, Unused, Zenon
<1>4. TypeOK'
  <2>1. /\ pc' \in [Uses -> Places] /\ want' \in [Uses -> Blocks \cup {None}]
        /\ buf' \in [Uses -> Bufs \cup {None}] /\ refcnt' \in [Bufs -> Nat]
    BY <1>0, <1>1, <1>2, Zenon DEF Places
  <2>2. /\ blockno' \in [Bufs -> Blocks \cup {None}]
        /\ valid' \in [Bufs -> BOOLEAN] /\ dirty' \in [Bufs -> BOOLEAN]
    BY <1>1, Zenon
  <2>. QED
    BY <1>u, <2>1, <2>2, Zenon DEF TypeOK
<1>5. /\ Users(c)' = {u}
      /\ \A b \in Bufs : b # c => Users(b)' = Users(b)
  BY <1>1, <1>2, <1>3, Consts DEF Users
<1>6. /\ \A b \in Bufs : b # c => /\ blockno'[b] = blockno[b] /\ refcnt'[b] = refcnt[b]
                                  /\ valid'[b] = valid[b] /\ dirty'[b] = dirty[b]
      /\ blockno'[c] = n /\ refcnt'[c] = 1 /\ ~valid'[c] /\ ~dirty'[c]
  BY <1>1
<1>7. RefInv'
  <2>1. \A b \in Bufs : refcnt'[b] = Cardinality(Users(b)')
    <3>1. Cardinality({u}) = 1
      BY FS_Singleton, Zenon
    <3>. QED
      BY <1>5, <1>6, <3>1, Zenon DEF RefInv
  <2>2. \A q \in Uses :
          /\ pc'[q] = "idle" => buf'[q] = None
          /\ pc'[q] # "idle" => /\ buf'[q] \in Bufs /\ want'[q] \in Blocks
                                /\ blockno'[buf'[q]] = want'[q]
    <3>1. pc'[u] = "lock" /\ buf'[u] = c /\ want'[u] = n
      BY ONLY <1>0, <1>1, Zenon
    <3>2. \A q \in Uses : q # u => pc'[q] = pc[q] /\ buf'[q] = buf[q] /\ want'[q] = want[q]
      BY ONLY <1>0, <1>1, Zenon
    <3>. QED
      <4>1. ASSUME NEW q \in Uses, q # u
            PROVE  /\ pc'[q] = "idle" => buf'[q] = None
                   /\ pc'[q] # "idle" => /\ buf'[q] \in Bufs /\ want'[q] \in Blocks
                                         /\ blockno'[buf'[q]] = want'[q]
        <5>1. /\ pc[q] = "idle" => buf[q] = None
              /\ pc[q] # "idle" => buf[q] \in Bufs /\ want[q] \in Blocks /\ blockno[buf[q]] = want[q]
          BY <1>i, Zenon DEF RefInv
        <5>. QED
          <6>1. pc'[q] = pc[q] /\ buf'[q] = buf[q] /\ want'[q] = want[q]
            BY ONLY <3>2, <4>1, Zenon
          <6>2. buf[q] \in Bufs => blockno'[buf[q]] = blockno[buf[q]]
            BY ONLY <1>3, <1>6, Zenon
          <6>. QED
            BY ONLY <5>1, <6>1, <6>2, Zenon
      <4>2. /\ pc'[u] = "idle" => buf'[u] = None
            /\ pc'[u] # "idle" => /\ buf'[u] \in Bufs /\ want'[u] \in Blocks
                                  /\ blockno'[buf'[u]] = want'[u]
        BY ONLY <1>6, <3>1, Zenon
      <4>. QED
        BY ONLY <4>1, <4>2, Zenon
  <2>3. \A a, b \in Bufs : blockno'[a] = blockno'[b] /\ blockno'[a] # None => a = b
    <3>1. \A a, b \in Bufs : blockno[a] = blockno[b] /\ blockno[a] # None => a = b
      BY <1>i, Zenon DEF RefInv
    <3>2. blockno'[c] = n
      BY ONLY <1>6, Zenon
    <3>3. \A b \in Bufs : b # c => blockno'[b] = blockno[b] /\ blockno'[b] # n
      BY ONLY <1>2, <1>6, Zenon
    <3>. QED
      BY ONLY <3>1, <3>2, <3>3, Zenon
  <2>. QED
    BY <2>1, <2>2, <2>3, Zenon DEF RefInv
<1>8. \A q \in Uses : /\ Using(q)' <=> Using(q)
                      /\ Using(q) \/ pc'[q] \in {"asleep", "iderw", "io", "woken", "held"} =>
                           pc'[q] = pc[q] /\ buf'[q] = buf[q] /\ buf[q] \in Bufs
                      /\ pc[q] = "io" => pc'[q] = "io"
  BY <1>0, <1>1, Zenon DEF Using, RefInv
<1>9. LockInv'
  BY <1>u, <1>8, LockFrame, Zenon
<1>10. QueueInv'
  <2>1. idequeue # <<>> => Head(idequeue) \in Bufs /\ Head(idequeue) # c
    BY <1>3, NotQueued, Zenon
  <2>2. Restarted(idequeue)' = Restarted(idequeue)
    <3>1. CASE idequeue = <<>>
      BY <1>u, <3>1, Zenon DEF Restarted
    <3>2. CASE idequeue # <<>>
      <4>1. idestart(Head(idequeue))' = idestart(Head(idequeue))
        <5>1. /\ blockno'[Head(idequeue)] = blockno[Head(idequeue)]
              /\ dirty'[Head(idequeue)] = dirty[Head(idequeue)]
          BY ONLY <1>6, <2>1, <3>2, Zenon
        <5>. QED
          BY ONLY <1>u, <5>1, Zenon DEF idestart
      <4>. QED
        BY ONLY <1>u, <3>2, <4>1, Zenon DEF Restarted
    <3>. QED
      BY <3>1, <3>2, Zenon
  <2>. QED
    BY <1>u, <1>8, <2>2, QueueFrame, Zenon
<1>11. FlagInv'
  <2>1. ASSUME NEW q \in Uses
        PROVE  /\ pc'[q] = "iderw" => ~valid'[buf'[q]] \/ dirty'[buf'[q]]
               /\ pc'[q] = "woken" => valid'[buf'[q]] /\ ~dirty'[buf'[q]]
               /\ pc'[q] = "held" => valid'[buf'[q]]
    <3>1. CASE pc'[q] \in {"iderw", "woken", "held"}
      <4>1. /\ pc'[q] = pc[q] /\ buf'[q] = buf[q] /\ buf[q] \in Bufs
            /\ valid'[buf[q]] = valid[buf[q]] /\ dirty'[buf[q]] = dirty[buf[q]]
        BY ONLY <1>3, <1>6, <1>8, <3>1, Zenon
      <4>. QED
        BY <1>i, <4>1, Zenon DEF FlagInv
    <3>. QED
      BY ONLY <3>1, Zenon
  <2>. QED
    BY <2>1, Zenon DEF FlagInv
<1>12. DataInv'
  <2>1. \A b \in Bufs : dirty'[b] => blockno'[b] # None /\ data[b] = latest[blockno'[b]]
    <3>1. \A b \in Bufs : dirty[b] => blockno[b] # None /\ data[b] = latest[blockno[b]]
      BY <1>i, Zenon DEF DataInv
    <3>. QED
      BY ONLY <1>6, <3>1, Zenon
  <2>2. ASSUME NEW m \in Blocks, \A b \in Bufs : blockno'[b] = m => ~dirty'[b]
        PROVE  disk[m] = latest[m]
    <3>1. \A b \in Bufs : blockno[b] = m => ~dirty[b]
      BY ONLY <1>2, <1>6, <2>2, Zenon
    <3>. QED
      BY <1>i, <3>1, Zenon DEF DataInv
  <2>3. errors = 0 => \A b \in Bufs : valid'[b] /\ blockno'[b] # None => data[b] = latest[blockno'[b]]
    <3>1. errors = 0 => \A b \in Bufs : valid[b] /\ blockno[b] # None => data[b] = latest[blockno[b]]
      BY <1>i, Zenon DEF DataInv
    <3>. QED
      BY ONLY <1>6, <3>1, Zenon
  <2>. QED
    BY <1>i, <1>u, <2>1, <2>2, <2>3, Zenon DEF DataInv
<1>13. NoPanic'
  BY <1>u, Zenon DEF NoPanic
<1>. QED
  BY <1>4, <1>7, <1>9, <1>10, <1>11, <1>12, <1>13, Zenon

\* Both outcomes of bget preserve the invariant.
LEMMA bgetInv ==
  ASSUME IInv, panicked = "no", NEW u \in Uses, NEW n \in Blocks, bget(u, n)
  PROVE  IInv'
<1>1. CASE Cached(n) # {} /\ \E c \in Cached(n) :
             /\ refcnt' = [refcnt EXCEPT ![c] = @ + 1]
             /\ buf' = [buf EXCEPT ![u] = c]
             /\ UNCHANGED <<blockno, valid, dirty>>
  BY <1>1, bgetCachedInv, Zenon
<1>2. ASSUME NEW i \in Bufs, Cached(n) = {}, Recyclable(lru[i]),
             blockno' = [blockno EXCEPT ![lru[i]] = n],
             valid' = [valid EXCEPT ![lru[i]] = FALSE],
             dirty' = [dirty EXCEPT ![lru[i]] = FALSE],
             refcnt' = [refcnt EXCEPT ![lru[i]] = 1],
             buf' = [buf EXCEPT ![u] = lru[i]]
      PROVE  IInv'
  <2>1. lru[i] \in Bufs
    BY Zenon DEF IInv, TypeOK
  <2>. QED
    BY <1>2, <2>1, bgetRecycledInv, Zenon
<1>. QED
  BY <1>1, <1>2, Zenon DEF bget

\* "bget: no buffers" is true: the buffers in use have a use each.
LEMMA bgetPanicInv ==
  ASSUME IInv, panicked = "no", NEW u \in Uses, NEW n \in Blocks, bget_panic(u, n)
  PROVE  IInv'
<1>. DEFINE A == {b \in Bufs : refcnt[b] # 0}
            D == {b \in Bufs : dirty[b] /\ refcnt[b] = 0}
            Busy == {q \in Uses : pc[q] # "idle"}
<1>0. /\ \A b \in Bufs : refcnt[b] # 0 \/ dirty[b]
      /\ panicked' = "bget" /\ UNCHANGED <<bufvars, lockpid, idevars, pc, want, buf, latest>>
  BY Zenon DEF bget_panic, Recyclable
<1>1. Bufs = A \cup D /\ A \cap D = {}
  BY <1>0, Zenon
<1>2. IsFiniteSet(A) /\ IsFiniteSet(D) /\ Cardinality(A) \in Nat /\ Cardinality(D) \in Nat
  BY BufsFinite, FS_Subset, FS_CardinalityType, Zenon
<1>3. NBUF = Cardinality(A) + Cardinality(D)
  <2>1. Cardinality(A \cup D) = Cardinality(A) + Cardinality(D) - Cardinality(A \cap D)
    BY <1>2, FS_Union, Zenon
  <2>2. Cardinality(A \cap D) = 0 /\ Cardinality(A \cup D) = NBUF
    BY <1>1, FS_EmptySet, BufsFinite, Zenon
  <2>. QED
    BY <1>2, <2>1, <2>2
<1>4. Cardinality(A) <= Cardinality(Busy) /\ Cardinality(Busy) \in Nat
  <2>. DEFINE f == [q \in Busy |-> buf[q]]
  <2>1. \A q \in Busy : buf[q] \in A
    <3>. SUFFICES ASSUME NEW q \in Busy, refcnt[buf[q]] = 0 PROVE FALSE
      BY Zenon DEF IInv, RefInv
    <3>1. buf[q] \in Bufs
      BY Zenon DEF IInv, RefInv
    <3>. QED
      BY <3>1, Unused, Zenon DEF IInv
  <2>2. \A b \in A : \E q \in Busy : buf[q] = b
    <3>. SUFFICES ASSUME NEW b \in A PROVE \E q \in Busy : buf[q] = b
      BY Zenon
    <3>1. Users(b) # {}
      BY FS_EmptySet, Zenon DEF IInv, RefInv
    <3>. QED
      BY <3>1, Consts, Zenon DEF IInv, RefInv, Users
  <2>3. f \in Surjection(Busy, A)
    BY <2>1, <2>2, Zenon DEF Surjection
  <2>4. IsFiniteSet(Busy) /\ Cardinality(Busy) \in Nat
    BY UsersFinite, Zenon
  <2>. HIDE DEF f, A, Busy
  <2>. QED
    BY <2>3, <2>4, FS_Surjection, Zenon
<1>5. NBUF <= Cardinality(Busy) + Cardinality(D)
  BY <1>2, <1>3, <1>4
<1>6. NoPanic'
  BY <1>0, <1>5, Zenon DEF NoPanic, bufvars
<1>7. TypeOK' /\ RefInv' /\ LockInv' /\ QueueInv' /\ FlagInv' /\ DataInv'
  BY <1>0, FrameInv, Zenon DEF IInv
<1>. QED
  BY <1>6, <1>7, Zenon DEF IInv

-----------------------------------------------------------------------------
(* brelse *)

\* brelse gives back one reference, its caller's.
LEMMA brelseInv ==
  ASSUME IInv, panicked = "no", NEW u \in Uses, brelse(u)
  PROVE  IInv'
<1>. USE DEF IInv
<1>b. PICK b \in Bufs : b = buf[u]
  BY Zenon DEF brelse, RefInv
<1>0. /\ pc[u] = "put" /\ pc' = [pc EXCEPT ![u] = "idle"]
      /\ want' = [want EXCEPT ![u] = None] /\ buf' = [buf EXCEPT ![u] = None]
      /\ refcnt' = [refcnt EXCEPT ![b] = refcnt[b] - 1]
      /\ lru' \in {MovedToFront(b), lru}
  BY <1>b, Zenon DEF brelse, Dropped
<1>u. UNCHANGED <<blockno, valid, dirty, data, lockpid, idequeue, active, disk, errors, panicked,
                  latest>>
  BY Zenon DEF brelse, idevars
<1>1. /\ pc \in [Uses -> Places] /\ want \in [Uses -> Blocks \cup {None}]
      /\ buf \in [Uses -> Bufs \cup {None}] /\ refcnt \in [Bufs -> Nat] /\ b \in Bufs
  BY <1>b, Zenon DEF TypeOK
<1>2. /\ Users(b)' = Users(b) \ {u} /\ u \in Users(b)
      /\ \A c \in Bufs : c # b => Users(c)' = Users(c)
  <2>1. /\ buf'[u] = None /\ None \notin Bufs
        /\ \A q \in Uses : q # u => buf'[q] = buf[q]
    BY <1>0, <1>1, Consts, Zenon
  <2>. QED
    BY <1>b, <1>1, <2>1, Zenon DEF Users
<1>3. Cardinality(Users(b)') = refcnt[b] - 1 /\ refcnt[b] - 1 \in Nat
  <2>1. /\ IsFiniteSet(Users(b)) /\ refcnt[b] = Cardinality(Users(b))
        /\ Cardinality(Users(b)') \in Nat
    BY <1>1, UsersFinite, Zenon DEF Users, RefInv
  <2>3. Cardinality(Users(b) \ {u}) = Cardinality(Users(b)) - 1
    BY <1>2, <2>1, FS_RemoveElement, Zenon
  <2>2. Cardinality(Users(b)') = refcnt[b] - 1
    BY <1>2, <2>1, <2>3, Zenon
  <2>. QED
    BY <2>1, <2>2, Zenon
<1>4. lru' \in [Bufs -> Bufs]
  <2>3. lru \in [Bufs -> Bufs]
    BY Zenon DEF TypeOK
  <2>1. lru \in [Bufs -> Bufs] /\ \A i \in Bufs : i # 1 => i - 1 \in Bufs
    BY <2>3, BcacheAssumption DEF Bufs
  <2>2. MovedToFront(b) \in [Bufs -> Bufs]
    BY <1>1, <2>1, Zenon DEF MovedToFront
  <2>. QED
    BY <1>0, <2>1, <2>2, Zenon
<1>5. TypeOK'
  <2>1. /\ pc' \in [Uses -> Places] /\ want' \in [Uses -> Blocks \cup {None}]
        /\ buf' \in [Uses -> Bufs \cup {None}] /\ refcnt' \in [Bufs -> Nat]
    BY <1>0, <1>1, <1>3, Zenon DEF Places
  <2>. QED
    BY <1>u, <1>4, <2>1, Zenon DEF TypeOK
<1>6. \A q \in Uses : q # u => pc'[q] = pc[q] /\ buf'[q] = buf[q] /\ want'[q] = want[q]
  BY <1>0, <1>1, Zenon
<1>7. RefInv'
  <2>3. refcnt'[b] = refcnt[b] - 1 /\ \A c \in Bufs : c # b => refcnt'[c] = refcnt[c]
    BY <1>0, <1>1, Zenon
  <2>1. \A c \in Bufs : refcnt'[c] = Cardinality(Users(c)')
    BY <1>2, <1>3, <2>3, Zenon DEF RefInv
  <2>2. pc'[u] = "idle" /\ buf'[u] = None
    BY <1>0, <1>1, Zenon
  <2>. QED
    BY <1>u, <1>6, <2>1, <2>2 DEF RefInv
<1>8. pc'[u] = "idle" /\ ~Using(u) /\ ~Using(u)' /\ \A q \in Uses : q # u => (Using(q)' <=> Using(q))
  BY <1>0, <1>1, <1>6, Zenon DEF Using
<1>9. LockInv'
  BY <1>u, <1>6, <1>8, LockFrame, Zenon DEF Using
<1>10. QueueInv'
  <2>1. Restarted(idequeue)' = Restarted(idequeue)
    BY <1>u, Zenon DEF Restarted, idestart
  <2>2. \A q \in Uses : /\ pc'[q] = "io" <=> pc[q] = "io"
                        /\ pc[q] = "io" => buf'[q] = buf[q]
    BY <1>0, <1>6, <1>8, Zenon
  <2>3. UNCHANGED <<idequeue, active>>
    BY <1>u, Zenon
  <2>. QED
    BY <2>1, <2>2, <2>3, QueueFrame, Zenon
<1>11. FlagInv'
  BY <1>u, <1>6, <1>8 DEF FlagInv
<1>12. DataInv' /\ NoPanic'
  BY <1>u, Zenon DEF DataInv, NoPanic
<1>. QED
  BY <1>5, <1>7, <1>9, <1>10, <1>11, <1>12, Zenon

-----------------------------------------------------------------------------
(* The theorems *)

\* Every step preserves the invariant, action by action.
LEMMA StepInv == IInv /\ [Next]_vars => IInv'
<1>. SUFFICES ASSUME IInv, [Next]_vars PROVE IInv'
  BY Zenon
<1>1. CASE UNCHANGED vars
  BY <1>1, StutterInv, Zenon
<1>2. ASSUME panicked = "no", NEW u \in Uses, Step(u) PROVE IInv'
  BY <1>2, acquiresleepInv, iderwInv, iderw_returnInv, brelseInv, Zenon DEF Step
<1>3. ASSUME panicked = "no", NEW u \in Uses, NEW n \in Wants[u], bget(u, n) \/ bget_panic(u, n)
      PROVE  IInv'
  <2>1. n \in Blocks
    BY BcacheAssumption, Zenon
  <2>. QED
    BY <1>3, <2>1, bgetInv, bgetPanicInv, Zenon
<1>. QED
  BY <1>1, <1>2, <1>3, ideintrInv, releasesleepInv, bwriteInv, log_writeInv, Zenon DEF Next

\* The invariant holds in every reachable state of the cache and its disk.
THEOREM Invariance == Spec => []IInv
  BY InitInv, StepInv, PTL DEF Spec

\* What bread returns is the block that was asked for, with what was last
\* written to it, in a buffer that nobody else uses (bio.c:96-106).
THEOREM BreadReturnsLatest == Spec => []ReadsLatest
<1>1. IInv => ReadsLatest
  <2>. SUFFICES ASSUME IInv, NEW u \in Uses
                PROVE  /\ pc[u] = "held" =>
                            /\ blockno[buf[u]] = want[u] /\ valid[buf[u]]
                            /\ errors = 0 => data[buf[u]] = latest[want[u]]
                       /\ Using(u) => \A q \in Uses \ {u} : Using(q) => buf[q] # buf[u]
    BY Zenon DEF ReadsLatest
  <2>1. pc[u] = "held" => /\ buf[u] \in Bufs /\ want[u] \in Blocks
                          /\ blockno[buf[u]] = want[u] /\ valid[buf[u]]
    BY Zenon DEF IInv, RefInv, FlagInv
  <2>2. pc[u] = "held" /\ errors = 0 => data[buf[u]] = latest[want[u]]
    BY <2>1, Consts DEF IInv, DataInv
  <2>3. Using(u) => \A q \in Uses \ {u} : Using(q) => buf[q] # buf[u]
    BY Zenon DEF IInv, LockInv
  <2>. QED
    BY <2>1, <2>2, <2>3, Zenon
<1>. QED
  BY <1>1, Invariance, PTL

\* Whoever sleeps on a sleep lock or in iderw is woken by the use that has
\* the lock or by the interrupt for its buffer (sleeplock.c:25-40,
\* ide.c:120-165).
THEOREM BufferSleepersWoken == Spec => []SleepersWoken
<1>1. IInv => SleepersWoken
  <2>. SUFFICES ASSUME IInv, NEW u \in Uses
                PROVE  /\ pc[u] = "asleep" => \E q \in Uses : Using(q) /\ buf[q] = buf[u]
                       /\ pc[u] = "io" => buf[u] \in Range(idequeue)
    BY Zenon DEF SleepersWoken
  <2>1. pc[u] = "asleep" => \E q \in Uses : Using(q) /\ buf[q] = buf[u]
    BY Zenon DEF IInv, RefInv, LockInv
  <2>2. pc[u] = "io" => \E i \in 1 .. Len(idequeue) : idequeue[i] = buf[u]
    BY Zenon DEF IInv, QueueInv
  <2>3. DOMAIN idequeue = 1 .. Len(idequeue)
    BY DEF IInv, TypeOK
  <2>. QED
    BY <2>1, <2>2, <2>3, Zenon DEF Range
<1>. QED
  BY <1>1, Invariance, PTL

\* The panics of bwrite, brelse and iderw never happen, and that of bget only
\* when open uses and the log have all the buffers (bio.c:92, 113, 124,
\* ide.c:142-145).
THEOREM BcachePanicsJustified == Spec => []NoPanic
  BY Invariance, PTL DEF IInv
=============================================================================
