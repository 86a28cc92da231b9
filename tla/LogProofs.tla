----------------------------- MODULE LogProofs ------------------------------
(*****************************************************************************)
(* Log for any number of processes and blocks and any size of the log: space *)
(* is reserved, sleepers are woken, nothing panics, and, for any log that    *)
(* has room for what begin_op admits, log and recovery implement AtomicDisk. *)
(*****************************************************************************)
EXTENDS Log, TLAPS, FiniteSetTheorems

-----------------------------------------------------------------------------
(* Operations and their reservations *)

Ops == {p \in Procs : InOp(p)}

OpType ==
  /\ lh \in Seq(Blocks) /\ head \in Seq(Blocks)
  /\ outstanding \in Nat /\ committing \in BOOLEAN /\ panicked \in BOOLEAN
  /\ pc \in [Procs -> {"idle", "begin", "sleeping", "op", "log_write"}]
  /\ held \in [Procs -> SUBSET Blocks] /\ wrote \in [Procs -> SUBSET Blocks]
  /\ stage \in {"boot", "install", "run", "write_log", "done"}
  /\ tail \in Nat \ {0}

\* outstanding counts the operations, and a commit or a recovery is alone.
OpsCounted ==
  /\ outstanding = Cardinality(Ops)
  /\ Ops # {} => stage = "run"
  /\ stage \in {"boot", "run"} => ~committing
  /\ stage \in {"write_log", "done"} => committing
  /\ stage \in {"boot", "done"} \/ (stage = "run" /\ Ops = {}) => lh = <<>>

\* An operation holds a buffer only in log_write, writes at most OpBlocks blocks,
\* and has them all in the log's list.
OpsBounded ==
  \A p \in Procs :
    /\ pc[p] = "log_write" => \E b \in Blocks : held[p] = {b}
    /\ pc[p] # "log_write" => held[p] = {}
    /\ ~InOp(p) => wrote[p] = {}
    /\ Cardinality(wrote[p] \cup held[p]) <= OpBlocks
    /\ \A b \in wrote[p] : InSeq(b, lh)

\* Whoever fills the log still has the blocks that it has reserved and does not
\* use.
LogBound ==
  /\ Len(lh) <= LOGSIZE - (MAXOPBLOCKS - OpBlocks)
  /\ Len(head) <= LOGSIZE - (MAXOPBLOCKS - OpBlocks)

OpInv ==
  /\ OpType /\ OpsCounted /\ OpsBounded /\ LogBound
  /\ SpaceReserved /\ SleepersWoken

-----------------------------------------------------------------------------
(* Counting *)

\* Sets of processes and of blocks have a cardinality, and so has what is still
\* to come.
LEMMA Counting ==
  /\ \A S \in SUBSET Procs : IsFiniteSet(S) /\ Cardinality(S) \in Nat
  /\ \A S \in SUBSET Blocks : IsFiniteSet(S) /\ Cardinality(S) \in Nat
  /\ \A S \in SUBSET (Procs \X (1 .. MAXOPBLOCKS)) :
       IsFiniteSet(S) /\ Cardinality(S) \in Nat
<1>1. IsFiniteSet(Procs) /\ IsFiniteSet(Blocks) /\ MAXOPBLOCKS \in Int
  BY LogAssumption
<1>2. IsFiniteSet(1 .. MAXOPBLOCKS)
  BY <1>1, FS_Interval
<1>3. IsFiniteSet(Procs \X (1 .. MAXOPBLOCKS))
  BY <1>1, <1>2, FS_Product, Zenon
<1>. QED
  BY <1>1, <1>3, FS_Subset, FS_CardinalityType, Zenon

\* An operation p that has written n blocks may still log MAXOPBLOCKS - n.
LEMMA Reservation ==
  ASSUME NEW p \in Procs, NEW n \in Nat, n <= MAXOPBLOCKS
  PROVE  LET R == {p} \X ((n + 1) .. MAXOPBLOCKS)
         IN  IsFiniteSet(R) /\ Cardinality(R) = MAXOPBLOCKS - n
<1>1. MAXOPBLOCKS \in Nat
  BY LogAssumption, Zenon
<1>2. /\ IsFiniteSet((n + 1) .. MAXOPBLOCKS)
      /\ Cardinality((n + 1) .. MAXOPBLOCKS) = MAXOPBLOCKS - n
  <2>1. n + 1 \in Int /\ MAXOPBLOCKS \in Int
    BY <1>1
  <2>2. /\ IsFiniteSet((n + 1) .. MAXOPBLOCKS)
        /\ Cardinality((n + 1) .. MAXOPBLOCKS) =
             IF n + 1 > MAXOPBLOCKS THEN 0 ELSE MAXOPBLOCKS - (n + 1) + 1
    BY ONLY <2>1, FS_Interval, Zenon
  <2>. QED
    BY <1>1, <2>2
<1>3. IsFiniteSet({p}) /\ Cardinality({p}) = 1
  BY FS_Singleton, Zenon
<1>4. /\ IsFiniteSet({p} \X ((n + 1) .. MAXOPBLOCKS))
      /\ Cardinality({p} \X ((n + 1) .. MAXOPBLOCKS)) =
           Cardinality({p}) * Cardinality((n + 1) .. MAXOPBLOCKS)
  BY <1>2, <1>3, FS_Product, Zenon
<1>5. 1 * (MAXOPBLOCKS - n) = MAXOPBLOCKS - n
  BY ONLY <1>1
<1>. QED
  BY ONLY <1>2, <1>3, <1>4, <1>5, Zenon

-----------------------------------------------------------------------------
(* Operations: space and sleepers *)

\* At boot, before recovery, there is no operation.
LEMMA OpInit == Init => OpInv
<1>. SUFFICES ASSUME Init PROVE OpInv
  BY Zenon
<1>1. Ops = {} /\ StillToCome = {}
  BY Zenon DEF Init, Ops, StillToCome, InOp
<1>2. OpType
  <2>1. pc \in [Procs -> {"idle", "begin", "sleeping", "op", "log_write"}]
    BY Zenon DEF Init
  <2>2. held \in [Procs -> SUBSET Blocks] /\ wrote \in [Procs -> SUBSET Blocks]
    BY Zenon DEF Init
  <2>3. lh \in Seq(Blocks) /\ head \in Seq(Blocks)
    BY DEF Init
  <2>4. committing \in BOOLEAN /\ panicked \in BOOLEAN
    BY Zenon DEF Init
  <2>5. outstanding \in Nat /\ tail \in Nat \ {0} /\ stage = "boot"
    BY DEF Init
  <2>. QED
    BY <2>1, <2>2, <2>3, <2>4, <2>5, Zenon DEF OpType
<1>5. OpsCounted
  BY <1>1, FS_EmptySet, Zenon DEF Init, OpsCounted
<1>3. OpsBounded
  BY FS_EmptySet, LogAssumption DEF Init, OpsBounded, InOp
<1>4. LogBound /\ SpaceReserved /\ SleepersWoken
  BY <1>1, FS_EmptySet, LogAssumption DEF Init, LogBound, SpaceReserved, SleepersWoken
<1>. QED
  BY <1>2, <1>3, <1>4, <1>5, Zenon DEF OpInv

\* Steps that change nothing that OpInv speaks of, except for the commit's
\* position.
LEMMA OpSame ==
  ASSUME OpInv, OpType', UNCHANGED <<opvars, lh>>,
         head' \in {head, lh},
         \/ stage' = stage
         \/ stage = "write_log" /\ stage' = "install"
  PROVE  OpInv'
<1>. USE DEF OpInv, opvars
<1>1. Ops' = Ops /\ StillToCome' = StillToCome
  BY Zenon DEF Ops, StillToCome, InOp
<1>2. OpsCounted'
  BY <1>1, Zenon DEF OpsCounted
<1>3. OpsBounded'
  BY Zenon DEF OpsBounded, InOp
<1>4. LogBound' /\ SpaceReserved'
  BY <1>1, Zenon DEF LogBound, SpaceReserved
<1>5. SleepersWoken'
  BY Zenon DEF SleepersWoken, HasRoom
<1>. QED
  BY <1>2, <1>3, <1>4, <1>5, Zenon

\* Steps outside of operations that set the list.
LEMMA OpAlone ==
  ASSUME OpInv, OpType', Ops' = {}, outstanding' = 0,
         \A p \in Procs : pc'[p] # "op" /\ pc'[p] # "log_write" /\ held'[p] = {} /\ wrote'[p] = {},
         (\E p \in Procs : pc'[p] = "sleeping") => committing',
         lh' \in {head, <<>>}, head' \in {head, <<>>},
         stage' \in {"boot", "run"} => ~committing',
         stage' \in {"write_log", "done"} => committing',
         stage' \in {"boot", "done", "run"} => lh' = <<>>
  PROVE  OpInv'
<1>. USE DEF OpInv
<1>1. StillToCome' = {}
  BY Zenon DEF StillToCome, InOp
<1>2. OpsCounted'
  BY FS_EmptySet, Zenon DEF OpsCounted
<1>3. OpsBounded'
  <2>1. Cardinality({} \cup {}) <= OpBlocks
    BY FS_EmptySet, LogAssumption
  <2>. QED
    BY <2>1, Zenon DEF OpsBounded, InOp
<1>4. LogBound'
  BY LogAssumption DEF LogBound
<1>5. Len(lh') \in Nat /\ Len(lh') <= LOGSIZE
  BY <1>4, LogAssumption DEF LogBound, OpType
<1>6. SpaceReserved'
  BY <1>1, <1>5, LogAssumption, FS_EmptySet DEF SpaceReserved
<1>7. SleepersWoken'
  BY Zenon DEF SleepersWoken
<1>. QED
  BY <1>2, <1>3, <1>4, <1>6, <1>7, Zenon

\* The steps of a commit and of recovery run without operations.
LEMMA OpCommit ==
  ASSUME OpInv, Commit
  PROVE  OpInv'
<1>. USE DEF OpInv
<1>0. committing \in BOOLEAN /\ tail + 1 \in Nat \ {0} /\ tail \in Nat \ {0} /\ <<>> \in Seq(Blocks)
  BY DEF OpType
<1>1. stage # "run" => /\ Ops = {} /\ outstanding = 0
                       /\ \A p \in Procs : ~InOp(p) /\ held[p] = {} /\ wrote[p] = {}
  BY FS_EmptySet, Zenon DEF OpsCounted, OpsBounded, Ops, InOp
<1>2. CASE read_head
  <2>1. OpType'
    BY <1>2 DEF OpType, read_head, opvars, diskvars
  <2>2. UNCHANGED opvars /\ lh' = head /\ head' = head /\ stage' = "install" /\ stage = "boot"
    BY <1>2, Zenon DEF read_head, diskvars
  <2>3. Ops' = Ops
    BY <2>2, Zenon DEF Ops, InOp, opvars
  <2>4. ~(\E p \in Procs : pc[p] = "sleeping")
    BY <1>1, <2>2 DEF SleepersWoken, OpsCounted
  <2>. QED
    BY <1>1, <2>1, <2>2, <2>3, <2>4, OpAlone, Zenon DEF opvars, InOp
<1>3. CASE install_trans
  <2>1. OpType'
    BY <1>0, <1>3, Zenon DEF OpType, install_trans, opvars
  <2>. QED
    BY <1>3, <2>1, OpSame, Zenon DEF install_trans
<1>4. CASE erase
  <2>1. /\ UNCHANGED opvars /\ lh' = <<>> /\ head' = <<>> /\ stage = "install"
        /\ stage' = IF committing THEN "done" ELSE "run"
        /\ tail' = 1 /\ panicked' = panicked
    BY <1>4, Zenon DEF erase, Erased
  <2>2. OpType'
    BY <1>0, <2>1 DEF OpType, opvars
  <2>3. Ops' = Ops
    BY <2>1, Zenon DEF Ops, InOp, opvars
  <2>4. ~committing => ~(\E p \in Procs : pc[p] = "sleeping")
    BY <1>1, <2>1 DEF SleepersWoken, OpsCounted
  <2>. QED
    BY <1>0, <1>1, <2>1, <2>2, <2>3, <2>4, OpAlone, Zenon DEF opvars, InOp
<1>5. CASE write_log
  <2>1. OpType'
    BY <1>0, <1>5, Zenon DEF OpType, write_log, opvars
  <2>. QED
    BY <1>5, <2>1, OpSame, Zenon DEF write_log
<1>6. CASE write_head
  <2>1. OpType'
    BY <1>0, <1>6 DEF OpType, write_head, opvars
  <2>. QED
    BY <1>6, <2>1, OpSame, Zenon DEF write_head
<1>7. CASE committed
  <2>1. /\ stage = "done" /\ stage' = "run" /\ committing' = FALSE
        /\ pc' = [p \in Procs |-> IF pc[p] = "sleeping" THEN "begin" ELSE pc[p]]
        /\ UNCHANGED <<head, lh, outstanding, held, wrote, tail, panicked>>
    BY <1>7, Zenon DEF committed, Woken, diskvars
  <2>2. pc' \in [Procs -> {"idle", "begin", "sleeping", "op", "log_write"}]
    BY <2>1, Zenon DEF OpType
  <2>3. OpType'
    BY <2>1, <2>2, Zenon DEF OpType
  <2>4. \A p \in Procs : pc'[p] # "op" /\ pc'[p] # "log_write" /\ pc'[p] # "sleeping"
    BY <1>1, <2>1, Zenon DEF InOp
  <2>5. Ops' = {}
    BY <2>4, Zenon DEF Ops, InOp
  <2>6. lh = <<>>
    BY <2>1, Zenon DEF OpsCounted
  <2>. QED
    BY <1>1, <2>1, <2>3, <2>4, <2>5, <2>6, OpAlone, Zenon
<1>. QED
  BY <1>2, <1>3, <1>4, <1>5, <1>6, <1>7, Zenon DEF Commit

\* A crash ends every operation.
LEMMA OpCrash ==
  ASSUME OpInv, crash
  PROVE  OpInv'
<1>1. /\ lh' = <<>> /\ head' = head /\ outstanding' = 0 /\ committing' = FALSE
      /\ pc' = [p \in Procs |-> "idle"]
      /\ held' = [p \in Procs |-> {}] /\ wrote' = [p \in Procs |-> {}]
      /\ stage' = "boot" /\ tail' = 1 /\ panicked' = FALSE
  BY Zenon DEF crash, diskvars
<1>2. OpType'
  <2>1. pc' \in [Procs -> {"idle", "begin", "sleeping", "op", "log_write"}]
    BY <1>1, Zenon
  <2>2. held' \in [Procs -> SUBSET Blocks] /\ wrote' \in [Procs -> SUBSET Blocks]
    BY <1>1, Zenon
  <2>3. lh' \in Seq(Blocks) /\ head' \in Seq(Blocks)
    BY <1>1 DEF OpInv, OpType
  <2>4. committing' \in BOOLEAN /\ panicked' \in BOOLEAN
    BY <1>1, Zenon
  <2>5. outstanding' \in Nat /\ tail' \in Nat \ {0}
    BY <1>1
  <2>. QED
    BY <1>1, <2>1, <2>2, <2>3, <2>4, <2>5, Zenon DEF OpType
<1>3. Ops' = {}
  BY <1>1, Zenon DEF Ops, InOp
<1>. QED
  BY <1>1, <1>2, <1>3, OpAlone, Zenon

\* begin_op admits an operation only with room for MAXOPBLOCKS blocks more.
LEMMA OpBegin ==
  ASSUME OpInv, NEW p \in Procs, begin_op(p)
  PROVE  OpInv'
<1>. USE DEF OpInv
<1>0. /\ Running /\ pc[p] \in {"idle", "begin"} /\ DOMAIN pc = Procs
      /\ pc \in [Procs -> {"idle", "begin", "sleeping", "op", "log_write"}]
      /\ outstanding \in Nat /\ committing \in BOOLEAN
      /\ UNCHANGED <<lh, head, committing, held, wrote, stage, tail, panicked>>
  BY Zenon DEF begin_op, OpType, diskvars
<1>1. CASE committing \/ ~HasRoom
  <2>1. pc' = [pc EXCEPT ![p] = "sleeping"] /\ UNCHANGED outstanding
    BY <1>1, Zenon DEF begin_op
  <2>2. pc' \in [Procs -> {"idle", "begin", "sleeping", "op", "log_write"}]
    BY <1>0, <2>1, Zenon
  <2>3. OpType'
    BY <1>0, <2>1, <2>2, Zenon DEF OpType
  <2>4. \A q \in Procs : InOp(q)' = InOp(q)
    BY <1>0, <2>1 DEF InOp
  <2>5. Ops' = Ops
    BY <2>4, Zenon DEF Ops
  <2>6. StillToCome' = StillToCome
    BY <1>0, <2>4, Zenon DEF StillToCome
  <2>7. OpsCounted'
    BY <1>0, <2>1, <2>5, Zenon DEF OpsCounted
  <2>8. OpsBounded'
    BY <1>0, <2>1, <2>4, Zenon DEF OpsBounded
  <2>9. LogBound' /\ SpaceReserved'
    BY <1>0, <2>6, Zenon DEF LogBound, SpaceReserved
  <2>10. ~committing => stage = "run"
    BY <1>0, Zenon DEF Running
  <2>11. lh = <<>> => Len(lh) + 1 * MAXOPBLOCKS <= LOGSIZE
    BY LogAssumption
  <2>12. outstanding = 0 => Ops = {}
    BY Counting, FS_EmptySet, Zenon DEF OpsCounted, Ops
  <2>13. committing \/ outstanding > 0
    BY <1>0, <1>1, <2>10, <2>11, <2>12 DEF HasRoom, OpsCounted
  <2>14. SleepersWoken'
    BY <1>0, <1>1, <2>1, <2>13, Zenon DEF SleepersWoken, HasRoom
  <2>. QED
    BY <2>3, <2>7, <2>8, <2>9, <2>14, Zenon
<1>2. CASE ~committing /\ HasRoom
  <2>1. pc' = [pc EXCEPT ![p] = "op"] /\ outstanding' = outstanding + 1
    BY <1>2, Zenon DEF begin_op
  <2>2. pc' \in [Procs -> {"idle", "begin", "sleeping", "op", "log_write"}]
    BY <1>0, <2>1, Zenon
  <2>3. OpType'
    BY <1>0, <2>1, <2>2 DEF OpType
  <2>4. /\ ~InOp(p) /\ InOp(p)'
        /\ \A q \in Procs : q # p => InOp(q)' = InOp(q)
    BY <1>0, <2>1, Zenon DEF InOp
  <2>5. Ops' = Ops \cup {p} /\ p \notin Ops
    BY <2>4, Zenon DEF Ops
  <2>6. Cardinality(Ops') = outstanding + 1 /\ IsFiniteSet(Ops')
    BY <2>5, Counting, FS_AddElement, Zenon DEF OpsCounted, Ops
  <2>7. stage = "run"
    BY <1>0, <1>2, Zenon DEF Running
  <2>8. OpsCounted'
    BY <1>0, <1>2, <2>1, <2>5, <2>6, <2>7, Zenon DEF OpsCounted
  <2>9. OpsBounded'
    <3>. SUFFICES ASSUME NEW q \in Procs
         PROVE  (/\ pc[q] = "log_write" => \E b \in Blocks : held[q] = {b}
                 /\ pc[q] # "log_write" => held[q] = {}
                 /\ ~InOp(q) => wrote[q] = {}
                 /\ Cardinality(wrote[q] \cup held[q]) <= OpBlocks
                 /\ \A b \in wrote[q] : InSeq(b, lh))'
      BY Zenon DEF OpsBounded
    <3>. QED
      BY <1>0, <2>1, <2>4, Zenon DEF OpsBounded, InSeq
  <2>10. LogBound'
    BY <1>0, Zenon DEF LogBound
  <2>11. SpaceReserved'
    <3>1. /\ IsFiniteSet(1 .. MAXOPBLOCKS)
          /\ Cardinality(1 .. MAXOPBLOCKS) = MAXOPBLOCKS
      BY FS_Interval, LogAssumption
    <3>2. /\ IsFiniteSet(Ops' \X (1 .. MAXOPBLOCKS))
          /\ Cardinality(Ops' \X (1 .. MAXOPBLOCKS)) = (outstanding + 1) * MAXOPBLOCKS
      <4>1. IsFiniteSet(Ops') /\ IsFiniteSet(1 .. MAXOPBLOCKS)
        BY <2>6, <3>1, Zenon
      <4>2. /\ IsFiniteSet(Ops' \X (1 .. MAXOPBLOCKS))
            /\ Cardinality(Ops' \X (1 .. MAXOPBLOCKS)) =
                 Cardinality(Ops') * Cardinality(1 .. MAXOPBLOCKS)
        BY ONLY <4>1, FS_Product
      <4>. QED
        BY <2>6, <3>1, <4>2, Zenon
    <3>3. StillToCome' \subseteq Ops' \X (1 .. MAXOPBLOCKS)
      BY Zenon DEF StillToCome, Ops
    <3>4. /\ Cardinality(StillToCome') <= (outstanding + 1) * MAXOPBLOCKS
          /\ IsFiniteSet(StillToCome')
      BY <3>2, <3>3, FS_Subset
    <3>5. Cardinality(StillToCome') \in Nat /\ (outstanding + 1) * MAXOPBLOCKS \in Nat
      BY <1>0, <3>4, FS_CardinalityType, LogAssumption
    <3>6. Len(lh) \in Nat /\ lh' = lh
      BY <1>0 DEF OpType
    <3>. QED
      BY <1>2, <3>4, <3>5, <3>6, LogAssumption DEF HasRoom, SpaceReserved
  <2>12. SleepersWoken'
    <3>1. (\E q \in Procs : pc'[q] = "sleeping") => \E q \in Procs : pc[q] = "sleeping"
      BY <1>0, <2>1, Zenon
    <3>. QED
      BY <1>2, <3>1, Zenon DEF SleepersWoken
  <2>. QED
    BY <2>3, <2>8, <2>9, <2>10, <2>11, <2>12, Zenon
<1>. QED
  BY <1>1, <1>2, Zenon

\* An operation takes one more buffer, as long as its blocks stay within OpBlocks.
LEMMA OpModify ==
  ASSUME OpInv, NEW p \in Procs, NEW b \in Blocks, NEW d \in Data, modify(p, b, d)
  PROVE  OpInv'
<1>. USE DEF OpInv
<1>0. /\ pc[p] = "op" /\ pc' = [pc EXCEPT ![p] = "log_write"]
      /\ held' = [held EXCEPT ![p] = {b}]
      /\ b \in wrote[p] \/ Cardinality(wrote[p]) < OpBlocks
      /\ UNCHANGED <<lh, head, committing, wrote, stage, tail, outstanding>>
  BY Zenon DEF modify, diskvars
<1>1. /\ pc \in [Procs -> {"idle", "begin", "sleeping", "op", "log_write"}]
      /\ held \in [Procs -> SUBSET Blocks] /\ wrote \in [Procs -> SUBSET Blocks]
  BY Zenon DEF OpType
<1>2. /\ pc' \in [Procs -> {"idle", "begin", "sleeping", "op", "log_write"}]
      /\ held' \in [Procs -> SUBSET Blocks]
  BY <1>0, <1>1, Zenon
<1>3. panicked' \in BOOLEAN
  BY Zenon DEF modify
<1>4. OpType'
  BY <1>0, <1>1, <1>2, <1>3, Zenon DEF OpType
<1>5. \A q \in Procs : InOp(q)' = InOp(q)
  BY <1>0, <1>1 DEF InOp
<1>6. Ops' = Ops
  BY <1>5, Zenon DEF Ops
<1>7. StillToCome' = StillToCome
  BY <1>0, <1>5, Zenon DEF StillToCome
<1>8. OpsCounted'
  BY <1>0, <1>6, Zenon DEF OpsCounted
<1>9. OpsBounded'
  <2>. SUFFICES ASSUME NEW q \in Procs
       PROVE  (/\ pc[q] = "log_write" => \E c \in Blocks : held[q] = {c}
               /\ pc[q] # "log_write" => held[q] = {}
               /\ ~InOp(q) => wrote[q] = {}
               /\ Cardinality(wrote[q] \cup held[q]) <= OpBlocks
               /\ \A c \in wrote[q] : InSeq(c, lh))'
    BY Zenon DEF OpsBounded
  <2>1. CASE q # p
    BY <1>0, <1>1, <1>5, <2>1, Zenon DEF OpsBounded, InSeq
  <2>2. CASE q = p
    <3>1. IsFiniteSet(wrote[p]) /\ Cardinality(wrote[p]) \in Nat /\ OpBlocks \in Nat
      BY <1>1, Counting, LogAssumption
    <3>2. held[p] = {}
      BY <1>0, Zenon DEF OpsBounded
    <3>3. wrote[p] \cup held[p] = wrote[p]
      BY <3>2, Zenon
    <3>4. Cardinality(wrote[p]) <= OpBlocks
      BY <3>3, Zenon DEF OpsBounded
    <3>8. Cardinality(wrote[p] \cup {b}) =
            IF b \in wrote[p] THEN Cardinality(wrote[p]) ELSE Cardinality(wrote[p]) + 1
      BY <3>1, FS_AddElement, Zenon
    <3>5. Cardinality(wrote[p] \cup {b}) <= OpBlocks
      BY <1>0, <3>1, <3>4, <3>8
    <3>6. pc'[p] = "log_write" /\ held'[p] = {b} /\ wrote'[p] = wrote[p]
      BY <1>0, <1>1, Zenon
    <3>7. \A c \in wrote[p] : InSeq(c, lh)
      BY Zenon DEF OpsBounded
    <3>. QED
      BY <1>0, <2>2, <3>5, <3>6, <3>7, Zenon DEF InOp, InSeq
  <2>. QED
    BY <2>1, <2>2, Zenon
<1>10. LogBound' /\ SpaceReserved'
  BY <1>0, <1>7, Zenon DEF LogBound, SpaceReserved
<1>11. (\E q \in Procs : pc'[q] = "sleeping") => \E q \in Procs : pc[q] = "sleeping"
  BY <1>0, <1>1, Zenon
<1>12. SleepersWoken'
  BY <1>0, <1>11, Zenon DEF SleepersWoken, HasRoom
<1>. QED
  BY <1>4, <1>8, <1>9, <1>10, <1>12, Zenon

\* log_write uses up a reservation of its operation, or none (absorption).
LEMMA OpLogWrite ==
  ASSUME OpInv, NEW p \in Procs, log_write(p)
  PROVE  OpInv'
<1>. USE DEF OpInv
<1>0. /\ pc[p] = "log_write" /\ pc' = [pc EXCEPT ![p] = "op"]
      /\ held' = [held EXCEPT ![p] = {}]
      /\ wrote' = [wrote EXCEPT ![p] = @ \cup held[p]]
      /\ UNCHANGED <<head, committing, stage, tail, outstanding, panicked>>
  BY Zenon DEF log_write, diskvars
<1>1. /\ pc \in [Procs -> {"idle", "begin", "sleeping", "op", "log_write"}]
      /\ held \in [Procs -> SUBSET Blocks] /\ wrote \in [Procs -> SUBSET Blocks]
      /\ lh \in Seq(Blocks) /\ Len(lh) \in Nat
  BY DEF OpType
<1>2. PICK b \in Blocks : held[p] = {b}
  BY <1>0, Zenon DEF OpsBounded
<1>3. lh' = IF InSeq(b, lh) THEN lh ELSE Append(lh, b)
  BY <1>2, Zenon DEF log_write, Logged
<1>4. /\ lh' \in Seq(Blocks) /\ InSeq(b, lh')
      /\ \A c \in Blocks : InSeq(c, lh) => InSeq(c, lh')
      /\ Len(lh') = IF InSeq(b, lh) THEN Len(lh) ELSE Len(lh) + 1
  BY <1>1, <1>3 DEF InSeq
<1>5. /\ pc' \in [Procs -> {"idle", "begin", "sleeping", "op", "log_write"}]
      /\ held' \in [Procs -> SUBSET Blocks] /\ wrote' \in [Procs -> SUBSET Blocks]
  BY <1>0, <1>1, Zenon
<1>6. OpType'
  BY <1>0, <1>4, <1>5, Zenon DEF OpType
<1>7. \A q \in Procs : InOp(q)' = InOp(q)
  BY <1>0, <1>1 DEF InOp
<1>8. Ops' = Ops /\ p \in Ops
  BY <1>0, <1>7, Zenon DEF Ops, InOp
<1>9. OpsCounted'
  BY <1>0, <1>8, Zenon DEF OpsCounted
<1>10. /\ wrote'[p] = wrote[p] \cup {b} /\ held'[p] = {}
       /\ \A q \in Procs : q # p => wrote'[q] = wrote[q] /\ held'[q] = held[q]
  BY <1>0, <1>1, <1>2, Zenon
<1>11. Cardinality(wrote'[p]) <= OpBlocks
  BY <1>2, <1>10, Zenon DEF OpsBounded
<1>12. OpsBounded'
  <2>. SUFFICES ASSUME NEW q \in Procs
       PROVE  (/\ pc[q] = "log_write" => \E c \in Blocks : held[q] = {c}
               /\ pc[q] # "log_write" => held[q] = {}
               /\ ~InOp(q) => wrote[q] = {}
               /\ Cardinality(wrote[q] \cup held[q]) <= OpBlocks
               /\ \A c \in wrote[q] : InSeq(c, lh))'
    BY Zenon DEF OpsBounded
  <2>1. CASE q # p
    BY <1>0, <1>1, <1>4, <1>7, <1>10, <2>1, Zenon DEF OpsBounded
  <2>2. CASE q = p
    <3>1. wrote'[p] \cup held'[p] = wrote'[p]
      BY <1>10, Zenon
    <3>2. \A c \in wrote'[p] : InSeq(c, lh')
      BY <1>1, <1>4, <1>10, Zenon DEF OpsBounded
    <3>. QED
      BY <1>0, <1>1, <1>10, <1>11, <2>2, <3>1, <3>2, Zenon DEF InOp
  <2>. QED
    BY <2>1, <2>2, Zenon
<1>13. b \in wrote[p] => InSeq(b, lh)
  BY Zenon DEF OpsBounded
\* Either the block is in the list already, or one of the operation's
\* reservations is used up.
<1>14. SpaceReserved'
  <2>1. IsFiniteSet(wrote[p]) /\ Cardinality(wrote[p]) \in Nat
    BY <1>1, Counting, Zenon
  <2>2. /\ IsFiniteSet(StillToCome) /\ Cardinality(StillToCome) \in Nat
        /\ IsFiniteSet(StillToCome') /\ Cardinality(StillToCome') \in Nat
    BY Counting, Zenon DEF StillToCome
  <2>3. Cardinality(wrote'[p]) =
          IF b \in wrote[p] THEN Cardinality(wrote[p]) ELSE Cardinality(wrote[p]) + 1
    <3>1. Cardinality(wrote[p] \cup {b}) =
            IF b \in wrote[p] THEN Cardinality(wrote[p]) ELSE Cardinality(wrote[p]) + 1
      BY ONLY <2>1, FS_AddElement, Zenon
    <3>. QED
      BY ONLY <1>10, <3>1, Zenon
  <2>8. \A q \in Procs : /\ Cardinality(wrote[q]) \in Nat /\ Cardinality(wrote'[q]) \in Nat
                         /\ Cardinality(wrote[q]) <= Cardinality(wrote'[q])
    <3>1. \A q \in Procs : Cardinality(wrote[q]) \in Nat /\ Cardinality(wrote'[q]) \in Nat
      BY <1>1, <1>5, Counting, Zenon
    <3>2. Cardinality(wrote[p]) <= Cardinality(wrote'[p])
      BY <2>1, <2>3
    <3>3. \A q \in Procs : q # p => Cardinality(wrote[q]) <= Cardinality(wrote'[q])
      BY <1>10, <3>1
    <3>. QED
      BY <3>1, <3>2, <3>3, Zenon
  <2>4. StillToCome' \subseteq StillToCome
    <3>. SUFFICES ASSUME NEW r \in Procs \X (1 .. MAXOPBLOCKS),
                         InOp(r[1])', r[2] > Cardinality(wrote'[r[1]])
                  PROVE  InOp(r[1]) /\ r[2] > Cardinality(wrote[r[1]])
      BY Zenon DEF StillToCome
    <3>1. r[1] \in Procs /\ r[2] \in Int
      OBVIOUS
    <3>2. InOp(r[1])
      BY <1>7, <3>1, Zenon
    <3>. QED
      BY <2>8, <3>1, <3>2
  <2>5. Cardinality(StillToCome') <= Cardinality(StillToCome)
    BY <2>2, <2>4, FS_Subset, Zenon
  <2>6. CASE InSeq(b, lh)
    BY <1>1, <1>4, <2>2, <2>5, <2>6, LogAssumption DEF SpaceReserved
  <2>7. CASE ~InSeq(b, lh)
    <3>. DEFINE r == <<p, Cardinality(wrote[p]) + 1>>
    <3>1. Cardinality(wrote'[p]) = Cardinality(wrote[p]) + 1
      BY <1>13, <2>3, <2>7, Zenon
    <3>2. r \in Procs \X (1 .. MAXOPBLOCKS)
      BY <1>11, <2>1, <3>1, LogAssumption
    <3>7. r[1] = p /\ r[2] = Cardinality(wrote[p]) + 1 /\ InOp(p)
      BY <1>0, Zenon DEF InOp
    <3>3. r \in StillToCome /\ r \notin StillToCome'
      BY <2>1, <3>1, <3>2, <3>7 DEF StillToCome
    <3>4. StillToCome' \subseteq StillToCome \ {r}
      BY <2>4, <3>3, Zenon
    <3>5. /\ IsFiniteSet(StillToCome \ {r})
          /\ Cardinality(StillToCome \ {r}) = Cardinality(StillToCome) - 1
      <4>. HIDE DEF r
      <4>. QED
        BY <2>2, <3>3, FS_RemoveElement, Zenon
    <3>6. Cardinality(StillToCome') <= Cardinality(StillToCome) - 1
      BY <3>4, <3>5, FS_Subset
    <3>. QED
      BY <1>1, <1>4, <2>2, <2>7, <3>6, LogAssumption DEF SpaceReserved
  <2>. QED
    BY <2>6, <2>7, Zenon
\* The reservations that p does not use are still there.
<1>15. LogBound'
  <2>. DEFINE n == Cardinality(wrote'[p])
              R == {p} \X ((n + 1) .. MAXOPBLOCKS)
  <2>1. n \in Nat /\ n <= OpBlocks /\ n <= MAXOPBLOCKS
    BY <1>5, <1>11, Counting, LogAssumption
  <2>2. IsFiniteSet(R) /\ Cardinality(R) = MAXOPBLOCKS - n
    BY <2>1, Reservation, Zenon
  <2>3. R \subseteq StillToCome'
    <3>1. InOp(p)'
      BY <1>8, Zenon DEF Ops
    <3>. QED
      BY <2>1, <3>1 DEF StillToCome
  <2>4. IsFiniteSet(StillToCome') /\ Cardinality(StillToCome') \in Nat
    BY Counting, Zenon DEF StillToCome
  <2>5. Cardinality(R) <= Cardinality(StillToCome')
    BY <2>3, <2>4, FS_Subset, Zenon
  <2>6. Len(lh') \in Nat
    BY <1>4
  <2>7. Len(lh') <= LOGSIZE - (MAXOPBLOCKS - OpBlocks)
    BY <1>14, <2>1, <2>2, <2>4, <2>5, <2>6, LogAssumption DEF SpaceReserved
  <2>. QED
    BY <1>0, <2>7, Zenon DEF LogBound
<1>16. SleepersWoken'
  <2>1. (\E q \in Procs : pc'[q] = "sleeping") => \E q \in Procs : pc[q] = "sleeping"
    BY <1>0, <1>1, Zenon
  <2>2. outstanding \in Nat /\ (outstanding + 1) * MAXOPBLOCKS \in Nat
    BY LogAssumption DEF OpType
  <2>3. HasRoom' => HasRoom
    <3>. DEFINE m == (outstanding + 1) * MAXOPBLOCKS
    <3>1. Len(lh) \in Nat /\ Len(lh') \in Nat /\ Len(lh) <= Len(lh')
      BY <1>1, <1>4
    <3>2. m \in Nat /\ LOGSIZE \in Nat
      BY <2>2, LogAssumption, Zenon
    <3>3. (HasRoom <=> Len(lh) + m <= LOGSIZE) /\ (HasRoom' <=> Len(lh') + m <= LOGSIZE)
      BY <1>0, Zenon DEF HasRoom
    <3>. HIDE DEF m
    <3>. QED
      BY <3>1, <3>2, <3>3
  <2>. QED
    BY <1>0, <2>1, <2>3, Zenon DEF SleepersWoken
<1>. QED
  BY <1>6, <1>9, <1>12, <1>14, <1>15, <1>16, Zenon

\* end_op gives its reservation back and wakes begin_op, or starts the commit.
LEMMA OpEnd ==
  ASSUME OpInv, NEW p \in Procs, end_op(p)
  PROVE  OpInv'
<1>. USE DEF OpInv
<1>0. /\ Running /\ pc[p] = "op" /\ outstanding' = outstanding - 1
      /\ wrote' = [wrote EXCEPT ![p] = {}] /\ panicked' = committing
      /\ UNCHANGED <<head, lh, held>>
  BY Zenon DEF end_op, diskvars
<1>1. /\ pc \in [Procs -> {"idle", "begin", "sleeping", "op", "log_write"}]
      /\ held \in [Procs -> SUBSET Blocks] /\ wrote \in [Procs -> SUBSET Blocks]
      /\ outstanding \in Nat /\ committing \in BOOLEAN
  BY Zenon DEF OpType
<1>2. p \in Ops /\ stage = "run" /\ ~committing
  BY <1>0, Zenon DEF Ops, InOp, OpsCounted
<1>3. /\ pc'[p] = "idle"
      /\ \A q \in Procs : q # p => pc'[q] = pc[q] \/ (pc[q] = "sleeping" /\ pc'[q] = "begin")
      /\ pc' \in [Procs -> {"idle", "begin", "sleeping", "op", "log_write"}]
  BY <1>0, <1>1, Zenon DEF end_op, Freed, Woken
<1>4. \A q \in Procs : InOp(q)' = (InOp(q) /\ q # p)
  BY <1>3 DEF InOp
<1>5. Ops' = Ops \ {p}
  BY <1>4, Zenon DEF Ops
<1>6. /\ outstanding = Cardinality(Ops) /\ IsFiniteSet(Ops)
      /\ outstanding - 1 = Cardinality(Ops') /\ outstanding - 1 \in Nat
  <2>1. outstanding = Cardinality(Ops) /\ IsFiniteSet(Ops)
    BY Counting, Zenon DEF OpsCounted, Ops
  <2>2. Cardinality(Ops') = outstanding - 1
    BY <1>2, <1>5, <2>1, FS_RemoveElement, Zenon
  <2>3. Cardinality(Ops') \in Nat
    BY Counting, Zenon DEF Ops
  <2>. QED
    BY <2>1, <2>2, <2>3, Zenon
<1>7. wrote' \in [Procs -> SUBSET Blocks]
  BY <1>0, <1>1, Zenon
<1>8. /\ outstanding = 1 =>
           committing' = TRUE /\ stage' = (IF Len(lh) > 0 THEN "write_log" ELSE "done") /\ tail' = 1
      /\ outstanding # 1 =>
           UNCHANGED <<committing, stage, tail>> /\ pc' = [Woken EXCEPT ![p] = "idle"]
  BY Zenon DEF end_op, IsLast, Freed
<1>9. OpType'
  <2>1. committing' \in BOOLEAN /\ panicked' \in BOOLEAN
    BY <1>0, <1>1, <1>8, Zenon
  <2>2. /\ stage' \in {"boot", "install", "run", "write_log", "done"}
        /\ tail' \in Nat \ {0}
    BY <1>8 DEF OpType
  <2>. QED
    BY <1>0, <1>1, <1>3, <1>6, <1>7, <2>1, <2>2, Zenon DEF OpType
<1>10. OpsCounted'
  <2>1. CASE outstanding = 1
    <3>1. Ops' = {}
      BY <1>6, <2>1, Counting, FS_EmptySet DEF Ops
    <3>2. Len(lh) \in Nat /\ (Len(lh) = 0 => lh = <<>>)
      BY DEF OpType
    <3>. QED
      BY <1>0, <1>6, <1>8, <2>1, <3>1, <3>2 DEF OpsCounted
  <2>2. CASE outstanding # 1
    <3>1. Ops' # {}
      <4>1. Cardinality(Ops') # 0
        BY <1>1, <1>6, <2>2
      <4>. QED
        BY <4>1, FS_EmptySet, Zenon
    <3>. QED
      BY <1>0, <1>2, <1>6, <1>8, <2>2, <3>1 DEF OpsCounted
  <2>. QED
    BY <2>1, <2>2, Zenon
<1>11. OpsBounded'
  <2>. SUFFICES ASSUME NEW q \in Procs
       PROVE  (/\ pc[q] = "log_write" => \E c \in Blocks : held[q] = {c}
               /\ pc[q] # "log_write" => held[q] = {}
               /\ ~InOp(q) => wrote[q] = {}
               /\ Cardinality(wrote[q] \cup held[q]) <= OpBlocks
               /\ \A c \in wrote[q] : InSeq(c, lh))'
    BY Zenon DEF OpsBounded
  <2>1. CASE q # p
    <3>1. /\ pc[q] = "log_write" => \E c \in Blocks : held[q] = {c}
          /\ pc[q] # "log_write" => held[q] = {}
          /\ ~InOp(q) => wrote[q] = {}
          /\ Cardinality(wrote[q] \cup held[q]) <= OpBlocks
          /\ \A c \in wrote[q] : InSeq(c, lh)
      BY Zenon DEF OpsBounded
    <3>2. wrote'[q] = wrote[q] /\ held'[q] = held[q] /\ (InOp(q)' <=> InOp(q)) /\ lh' = lh
      BY <1>0, <1>1, <1>4, <2>1, Zenon
    <3>3. pc'[q] = "log_write" <=> pc[q] = "log_write"
      <4>1. CASE pc'[q] = pc[q]
        BY ONLY <4>1, Zenon
      <4>2. CASE pc[q] = "sleeping" /\ pc'[q] = "begin"
        BY ONLY <4>2
      <4>. QED
        BY <1>3, <2>1, <4>1, <4>2, Zenon
    <3>. QED
      BY ONLY <3>1, <3>2, <3>3, Zenon
  <2>2. CASE q = p
    <3>1. Cardinality({} \cup {}) <= OpBlocks
      BY FS_EmptySet, LogAssumption
    <3>2. held'[p] = {} /\ wrote'[p] = {}
      BY <1>0, <1>1, Zenon DEF OpsBounded
    <3>. QED
      BY <1>3, <2>2, <3>1, <3>2, Zenon
  <2>. QED
    BY <2>1, <2>2, Zenon
<1>12. LogBound'
  BY <1>0, Zenon DEF LogBound
<1>13. SpaceReserved'
  <2>1. /\ IsFiniteSet(StillToCome) /\ Cardinality(StillToCome) \in Nat
        /\ IsFiniteSet(StillToCome') /\ Cardinality(StillToCome') \in Nat
    BY Counting, Zenon DEF StillToCome
  <2>2. StillToCome' \subseteq StillToCome
    <3>1. \A q \in Procs : q # p => wrote'[q] = wrote[q]
      BY <1>0, <1>1, Zenon
    <3>. QED
      BY <1>4, <3>1, Zenon DEF StillToCome
  <2>3. Cardinality(StillToCome') <= Cardinality(StillToCome)
    BY <2>1, <2>2, FS_Subset, Zenon
  <2>4. Len(lh) \in Nat
    BY DEF OpType
  <2>. QED
    BY <1>0, <2>1, <2>3, <2>4, LogAssumption DEF SpaceReserved
<1>14. SleepersWoken'
  <2>1. outstanding # 1 => \A q \in Procs : pc'[q] # "sleeping"
    BY <1>1, <1>8, Zenon DEF Woken
  <2>. QED
    BY <1>8, <2>1, Zenon DEF SleepersWoken
<1>. QED
  BY <1>9, <1>10, <1>11, <1>12, <1>13, <1>14, Zenon

\* bget takes a clean buffer of the cache, which no operation notices.
LEMMA OpRecycle ==
  ASSUME OpInv, NEW b \in Blocks, recycle(b)
  PROVE  OpInv'
<1>1. UNCHANGED <<opvars, lh, head, stage, tail, panicked>>
  BY Zenon DEF recycle, diskvars
<1>2. OpType'
  BY <1>1, Zenon DEF OpType, OpInv, opvars
<1>. QED
  BY <1>1, <1>2, OpSame, Zenon

\* Every step preserves the invariant.
LEMMA OpStep == OpInv /\ [Next]_vars => OpInv'
<1>. SUFFICES ASSUME OpInv, [Next]_vars PROVE OpInv'
  BY Zenon
<1>1. CASE UNCHANGED vars
  <2>1. UNCHANGED <<opvars, lh, head, stage, tail, panicked>>
    BY <1>1, Zenon DEF vars, diskvars
  <2>2. OpType'
    BY <2>1, Zenon DEF OpType, OpInv, opvars
  <2>. QED
    BY <2>1, <2>2, OpSame, Zenon
<1>2. CASE Next
  BY <1>2, OpCommit, OpBegin, OpModify, OpLogWrite, OpEnd, OpRecycle, OpCrash, Zenon DEF Next
<1>. QED
  BY <1>1, <1>2, Zenon

\* The invariant of the operations holds in every reachable state of the log.
THEOREM OperationsInvariant == Spec => []OpInv
  BY OpInit, OpStep, PTL DEF Spec

\* begin_op reserves enough: the blocks in the log and those that operations in
\* progress may still log fit, for any number of processes (log.c:132-133).
THEOREM SpaceIsReserved == Spec => []SpaceReserved
  BY OperationsInvariant, PTL DEF OpInv

\* Nobody sleeps in begin_op without a wakeup on its way (log.c:130-134, 161,
\* 171).
THEOREM BeginOpIsWoken == Spec => []SleepersWoken
  BY OperationsInvariant, PTL DEF OpInv

-----------------------------------------------------------------------------
(* The panics of log_write and end_op *)

\* Operations that leave one of their blocks unused, and a block of the log
\* besides.
Slack == OpBlocks < MAXOPBLOCKS /\ LOGSIZE - (MAXOPBLOCKS - OpBlocks) < NLOG - 1

\* log_write never finds the transaction too big or itself outside of one, and
\* end_op never finds a commit under way (log.c:152-153, 218-221).
THEOREM LogNeverPanics == Slack /\ Spec => []~panicked
<1>1. Slack => Slack'
  BY Zenon DEF Slack
<1>2. Init => ~panicked
  BY Zenon DEF Init
<1>3. ASSUME Slack, OpInv, ~panicked, [Next]_vars
      PROVE  ~panicked'
  <2>1. ASSUME NEW p \in Procs, NEW b \in Blocks, NEW d \in Data, modify(p, b, d)
        PROVE  ~panicked'
    <3>1. p \in Ops
      BY <2>1, Zenon DEF modify, Ops, InOp
    <3>2. outstanding \in Nat /\ outstanding # 0 /\ Len(lh) \in Nat
      <4>1. IsFiniteSet(Ops) /\ Cardinality(Ops) # 0
        BY <3>1, Counting, FS_EmptySet, Zenon DEF Ops
      <4>. QED
        BY <1>3, <4>1 DEF OpInv, OpsCounted, OpType
    <3>3. Len(lh) < LOGSIZE /\ Len(lh) < NLOG - 1
      BY <1>3, <3>2, LogAssumption DEF OpInv, LogBound, Slack
    <3>. QED
      <4>1. ~(Len(lh) >= LOGSIZE \/ Len(lh) >= NLOG - 1 \/ outstanding < 1)
        BY <3>2, <3>3, LogAssumption
      <4>. QED
        BY <2>1, <4>1, Zenon DEF modify
  <2>2. ASSUME NEW p \in Procs, end_op(p)
        PROVE  ~panicked'
    BY <1>3, <2>2, Zenon DEF end_op, OpInv, OpsCounted, Ops, InOp
  <2>3. CASE Commit
    BY <1>3, <2>3, Zenon DEF Commit, read_head, install_trans, erase, write_log, write_head, committed
  <2>4. ASSUME NEW p \in Procs, begin_op(p) \/ log_write(p)
        PROVE  ~panicked'
    BY <1>3, <2>4, Zenon DEF begin_op, log_write
  <2>5. CASE (\E b \in Blocks : recycle(b)) \/ crash \/ UNCHANGED vars
    BY <1>3, <2>5, Zenon DEF recycle, crash, vars
  <2>. QED
    BY <1>3, <2>1, <2>2, <2>3, <2>4, <2>5, Zenon DEF Next
<1>. QED
  BY <1>1, <1>2, <1>3, OperationsInvariant, PTL DEF Spec

-----------------------------------------------------------------------------
(* The disk *)

NoDup(s) == \A i, j \in 1 .. Len(s) : s[i] = s[j] => i = j

DiskType ==
  /\ disk \in [Blocks -> Data] /\ cache \in [Blocks -> Data]
  /\ logdata \in [LogSlots -> Data] /\ dirty \in SUBSET Blocks

\* What a commit has written so far and still has to write; a committed header
\* names each block once.
CommitInv ==
  /\ NoDup(lh) /\ NoDup(head)
  /\ stage = "install" => head = lh
  /\ stage \in {"run", "write_log", "done"} => head = <<>>
  /\ stage = "write_log" =>
       \A j \in 1 .. Len(lh) : j < tail => logdata[j] = cache[lh[j]]
  /\ stage = "install" =>
       /\ \A j \in 1 .. Len(lh) : j < tail => disk[lh[j]] = logdata[j]
       /\ committing => \A j \in 1 .. Len(lh) : cache[lh[j]] = logdata[j]

\* A block whose contents are only in memory is in use or B_DIRTY, so it is not
\* recycled; and it is in the log's list by the time of the commit.
CacheInv ==
  /\ Recovering => cache = disk
  /\ ~Recovering => \A b \in Blocks :
       ~InSeq(b, lh) /\ (\A p \in Procs : b \notin held[p]) => cache[b] = disk[b]
  /\ stage \in {"run", "write_log"} => \A j \in 1 .. Len(lh) : lh[j] \in dirty
  /\ stage = "install" /\ committing =>
       \A j \in 1 .. Len(lh) : j >= tail => lh[j] \in dirty

\* The blocks of the log are enough for what begin_op admits: the header takes
\* one, so that operations have to stay below what they reserve (log.c:218 tests
\* the room before it takes log.lock).
RoomOnDisk == LOGSIZE - (MAXOPBLOCKS - OpBlocks) <= NLOG - 1

DiskInv == DiskType /\ CommitInv /\ CacheInv

-----------------------------------------------------------------------------
(* Commit and recovery *)

\* At boot nothing is in memory only.
LEMMA DiskInit == Init => DiskInv
<1>. SUFFICES ASSUME Init PROVE DiskInv
  BY Zenon
<1>1. DiskType
  BY Zenon DEF Init, DiskType
<1>2. lh = <<>> /\ head = <<>> /\ stage = "boot" /\ committing = FALSE /\ cache = disk
  BY Zenon DEF Init
<1>3. CommitInv
  BY <1>2 DEF CommitInv, NoDup
<1>4. CacheInv
  BY <1>2, Zenon DEF CacheInv, Recovering
<1>. QED
  BY <1>1, <1>3, <1>4, Zenon DEF DiskInv

\* Nothing that DiskInv speaks of changes in a step that leaves these alone.
LEMMA DiskSame ==
  ASSUME DiskInv, UNCHANGED <<diskvars, cache, dirty, lh, committing, held, stage, tail>>
  PROVE  DiskInv'
<1>1. DiskType'
  BY Zenon DEF DiskInv, DiskType, diskvars, LogSlots
<1>2. CommitInv'
  BY DEF DiskInv, CommitInv, diskvars, NoDup
<1>3. CacheInv'
  BY Zenon DEF DiskInv, CacheInv, diskvars, Recovering, InSeq
<1>. QED
  BY <1>1, <1>2, <1>3, Zenon DEF DiskInv

\* Outside of operations no buffer is held, and the blocks of the list have a
\* place in the log.
LEMMA Alone ==
  ASSUME OpInv, RoomOnDisk
  PROVE  /\ stage # "run" => Ops = {} /\ \A p \in Procs : ~InOp(p) /\ held[p] = {}
         /\ lh \in Seq(Blocks) /\ head \in Seq(Blocks)
         /\ Len(lh) \in Nat /\ tail \in Nat \ {0}
         /\ \A j \in 1 .. Len(lh) : j \in LogSlots /\ lh[j] \in Blocks
         /\ \A j \in 1 .. Len(head) : j \in LogSlots /\ head[j] \in Blocks
<1>1. /\ lh \in Seq(Blocks) /\ head \in Seq(Blocks)
      /\ Len(lh) \in Nat /\ Len(head) \in Nat /\ tail \in Nat \ {0}
  BY DEF OpInv, OpType
<1>2. Len(lh) <= NLOG - 1 /\ Len(head) <= NLOG - 1
  BY <1>1, LogAssumption DEF OpInv, LogBound, RoomOnDisk
<1>3. /\ \A j \in 1 .. Len(lh) : j \in LogSlots /\ lh[j] \in Blocks
      /\ \A j \in 1 .. Len(head) : j \in LogSlots /\ head[j] \in Blocks
  BY <1>1, <1>2, LogAssumption DEF LogSlots
<1>4. stage # "run" => Ops = {} /\ \A p \in Procs : ~InOp(p) /\ held[p] = {}
  BY Zenon DEF OpInv, OpsCounted, OpsBounded, Ops, InOp
<1>. QED
  BY <1>1, <1>3, <1>4, Zenon

\* install_trans copies a logged block home, and does it once more after a crash.
LEMMA DiskInstall ==
  ASSUME OpInv, RoomOnDisk, DiskInv, install_trans
  PROVE  DiskInv'
<1>. DEFINE x == lh[tail]  v == logdata[tail]
<1>0. /\ stage = "install" /\ tail \in 1 .. Len(lh) /\ tail' = tail + 1
      /\ disk' = [disk EXCEPT ![x] = v] /\ cache' = [cache EXCEPT ![x] = v]
      /\ dirty' = dirty \ {x} /\ UNCHANGED <<logdata, head, lh, committing, held, stage>>
  BY Alone DEF install_trans, opvars
<1>1. /\ x \in Blocks /\ v \in Data /\ Len(lh) \in Nat
      /\ \A j \in 1 .. Len(lh) : lh[j] \in Blocks
  BY <1>0, Alone, Zenon DEF DiskInv, DiskType
<1>2. disk \in [Blocks -> Data] /\ cache \in [Blocks -> Data]
  BY Zenon DEF DiskInv, DiskType
<1>3. DiskType'
  BY <1>0, <1>1, Zenon DEF DiskInv, DiskType
<1>4. \A j \in 1 .. Len(lh) : j # tail => lh[j] # x
  BY <1>0, Zenon DEF DiskInv, CommitInv, NoDup
<1>5. /\ disk'[x] = v /\ cache'[x] = v
      /\ \A b \in Blocks : b # x => disk'[b] = disk[b] /\ cache'[b] = cache[b]
  BY <1>0, <1>1, <1>2, Zenon
<1>6. CommitInv'
  <2>1. ASSUME NEW j \in 1 .. Len(lh), j < tail + 1
        PROVE  disk'[lh[j]] = logdata[j]
    <3>1. CASE j = tail
      BY <1>5, <3>1, Zenon
    <3>2. CASE j # tail
      <4>1. j < tail
        BY <1>0, <2>1, <3>2
      <4>. QED
        BY <1>0, <1>1, <1>4, <1>5, <3>2, <4>1, Zenon DEF DiskInv, CommitInv
    <3>. QED
      BY <3>1, <3>2, Zenon
  <2>2. ASSUME committing, NEW j \in 1 .. Len(lh)
        PROVE  cache'[lh[j]] = logdata[j]
    BY <1>0, <1>1, <1>4, <1>5, <2>2, Zenon DEF DiskInv, CommitInv
  <2>3. NoDup(lh)' /\ NoDup(head)' /\ head = lh
    BY <1>0 DEF DiskInv, CommitInv, NoDup
  <2>. QED
    BY <1>0, <2>1, <2>2, <2>3, Zenon DEF CommitInv
<1>7. CacheInv'
  <2>1. Recovering' = Recovering
    BY <1>0, Zenon DEF Recovering
  <2>2. Recovering => cache' = disk'
    BY <1>0, Zenon DEF DiskInv, CacheInv
  <2>3. ASSUME ~Recovering, NEW b \in Blocks, ~InSeq(b, lh), \A p \in Procs : b \notin held[p]
        PROVE  cache'[b] = disk'[b]
    BY <1>0, <1>5, <2>3, Zenon DEF DiskInv, CacheInv, InSeq
  <2>4. ASSUME committing, NEW j \in 1 .. Len(lh), j >= tail + 1
        PROVE  lh[j] \in dirty'
    <3>1. j # tail /\ j >= tail
      BY <1>0, <2>4
    <3>. QED
      BY <1>0, <1>4, <2>4, <3>1, Zenon DEF DiskInv, CacheInv
  <2>. QED
    BY <1>0, <2>1, <2>2, <2>3, <2>4, Zenon DEF CacheInv, InSeq
<1>. QED
  BY <1>3, <1>6, <1>7, Zenon DEF DiskInv

\* Once every block is installed, memory and disk agree.
LEMMA InstalledAll ==
  ASSUME OpInv, RoomOnDisk, DiskInv, stage = "install", Installed
  PROVE  cache = disk /\ Recovered = disk
<1>0. /\ head = lh /\ Len(lh) \in Nat /\ tail \in Nat
      /\ \A j \in 1 .. Len(lh) : lh[j] \in Blocks /\ disk[lh[j]] = logdata[j]
  BY Alone DEF Installed, DiskInv, CommitInv
<1>1. disk \in [Blocks -> Data] /\ cache \in [Blocks -> Data]
  BY Zenon DEF DiskInv, DiskType
<1>2. cache = disk
  <2>1. CASE ~committing
    BY <2>1, Zenon DEF DiskInv, CacheInv, Recovering
  <2>2. CASE committing
    <3>1. \A p \in Procs : held[p] = {}
      BY Alone, Zenon
    <3>2. \A b \in Blocks : ~InSeq(b, lh) => cache[b] = disk[b]
      BY <2>2, <3>1, Zenon DEF DiskInv, CacheInv, Recovering
    <3>3. \A b \in Blocks : InSeq(b, lh) => cache[b] = disk[b]
      BY <1>0, <2>2 DEF DiskInv, CommitInv, InSeq
    <3>. QED
      BY <1>1, <3>2, <3>3
  <2>. QED
    BY <2>1, <2>2, Zenon
<1>3. ASSUME NEW b \in Blocks, InSeq(b, head)
      PROVE  logdata[CHOOSE i \in 1 .. Len(head) : head[i] = b] = disk[b]
  <2>. DEFINE i == CHOOSE i \in 1 .. Len(head) : head[i] = b
  <2>1. i \in 1 .. Len(head) /\ head[i] = b
    BY <1>3, Zenon DEF InSeq
  <2>. QED
    BY <1>0, <2>1, Zenon
<1>. QED
  <2>1. \A b \in Blocks : Recovered[b] = disk[b]
    BY <1>3, Zenon DEF Recovered
  <2>2. Recovered = [b \in Blocks |-> Recovered[b]]
    BY DEF Recovered
  <2>. QED
    BY <1>1, <1>2, <2>1, <2>2, Zenon

\* The empty header is written when everything is installed.
LEMMA DiskErase ==
  ASSUME OpInv, RoomOnDisk, DiskInv, erase
  PROVE  DiskInv'
<1>0. /\ stage = "install" /\ lh' = <<>> /\ head' = <<>>
      /\ stage' = IF committing THEN "done" ELSE "run"
      /\ UNCHANGED <<disk, logdata, cache, dirty, committing, held>>
  BY Zenon DEF erase, Erased, opvars
<1>1. cache = disk
  BY InstalledAll, Zenon DEF erase
<1>2. DiskType'
  BY <1>0, Zenon DEF DiskInv, DiskType
<1>3. CommitInv'
  BY <1>0 DEF CommitInv, NoDup
<1>4. CacheInv'
  BY <1>0, <1>1 DEF CacheInv, Recovering
<1>. QED
  BY <1>2, <1>3, <1>4, Zenon DEF DiskInv

\* The steps of a commit and of recovery, in their order.
LEMMA DiskCommit ==
  ASSUME OpInv, RoomOnDisk, DiskInv, Commit
  PROVE  DiskInv'
<1>. USE DEF DiskInv
<1>1. CASE read_head
  <2>0. /\ stage = "boot" /\ stage' = "install" /\ lh' = head /\ tail' = 1
        /\ UNCHANGED <<disk, logdata, head, cache, dirty, committing, held>>
    BY <1>1, Zenon DEF read_head, diskvars, opvars
  <2>1. ~committing /\ Len(head) \in Nat
    BY <2>0 DEF OpInv, OpsCounted, OpType
  <2>2. DiskType'
    BY <2>0, Zenon DEF DiskType
  <2>3. CommitInv'
    BY <2>0, <2>1 DEF CommitInv, NoDup
  <2>4. CacheInv'
    BY <2>0, <2>1, Zenon DEF CacheInv, Recovering
  <2>. QED
    BY <2>2, <2>3, <2>4, Zenon
<1>2. CASE install_trans
  BY <1>2, DiskInstall, Zenon
<1>3. CASE erase
  BY <1>3, DiskErase, Zenon
<1>4. CASE write_log
  <2>0. /\ stage = "write_log" /\ tail \in 1 .. Len(lh) /\ tail' = tail + 1
        /\ logdata' = [logdata EXCEPT ![tail] = cache[lh[tail]]]
        /\ UNCHANGED <<disk, head, cache, dirty, lh, committing, held, stage>>
    BY <1>4, Alone DEF write_log, opvars
  <2>1. logdata \in [LogSlots -> Data] /\ tail \in LogSlots /\ cache[lh[tail]] \in Data
    BY <2>0, Alone, Zenon DEF DiskType
  <2>2. DiskType'
    BY <2>0, <2>1, Zenon DEF DiskType, LogSlots
  <2>3. \A j \in 1 .. Len(lh) : j < tail + 1 => logdata'[j] = cache[lh[j]]
    <3>1. ASSUME NEW j \in 1 .. Len(lh), j < tail + 1, j # tail
          PROVE  logdata'[j] = cache[lh[j]]
      <4>1. j < tail /\ j \in LogSlots
        BY <2>0, <3>1, Alone
      <4>2. logdata'[j] = logdata[j]
        BY <2>0, <2>1, <3>1, <4>1, Zenon
      <4>. QED
        BY <2>0, <4>1, <4>2, Zenon DEF CommitInv
    <3>2. logdata'[tail] = cache[lh[tail]]
      BY <2>0, <2>1, Zenon
    <3>. QED
      BY <3>1, <3>2, Zenon
  <2>4. CommitInv'
    BY <2>0, <2>3 DEF CommitInv, NoDup
  <2>5. CacheInv'
    BY <2>0, Zenon DEF CacheInv, Recovering, InSeq
  <2>. QED
    BY <2>2, <2>4, <2>5, Zenon
<1>5. CASE write_head
  <2>0. /\ stage = "write_log" /\ stage' = "install" /\ tail > Len(lh) /\ tail' = 1
        /\ head' = lh /\ UNCHANGED <<disk, logdata, cache, dirty, lh, committing, held>>
    BY <1>5, Zenon DEF write_head, LogWritten, opvars
  <2>1. committing /\ Len(lh) \in Nat /\ tail \in Nat
    BY <2>0, Alone, Zenon DEF OpInv, OpsCounted
  <2>2. \A j \in 1 .. Len(lh) : j < tail /\ j >= 1
    BY <2>0, <2>1
  <2>3. DiskType'
    BY <2>0, Zenon DEF DiskType
  <2>4. CommitInv'
    BY <2>0, <2>1, <2>2 DEF CommitInv, NoDup
  <2>5. CacheInv'
    BY <2>0, <2>1, <2>2, Zenon DEF CacheInv, Recovering, InSeq
  <2>. QED
    BY <2>3, <2>4, <2>5, Zenon
<1>6. CASE committed
  <2>0. /\ stage = "done" /\ stage' = "run" /\ committing' = FALSE
        /\ UNCHANGED <<disk, logdata, head, cache, dirty, lh, held>>
    BY <1>6, Zenon DEF committed, diskvars
  <2>1. committing /\ lh = <<>>
    BY <2>0, Zenon DEF OpInv, OpsCounted
  <2>2. DiskType'
    BY <2>0, Zenon DEF DiskType
  <2>3. CommitInv'
    BY <2>0 DEF CommitInv, NoDup
  <2>4. CacheInv'
    BY <2>0, <2>1 DEF CacheInv, Recovering, InSeq
  <2>. QED
    BY <2>2, <2>3, <2>4, Zenon
<1>. QED
  BY <1>1, <1>2, <1>3, <1>4, <1>5, <1>6, Zenon DEF Commit

\* An operation changes a block of the cache while it holds the buffer.
LEMMA DiskModify ==
  ASSUME OpInv, DiskInv, NEW p \in Procs, NEW b \in Blocks, NEW d \in Data, modify(p, b, d)
  PROVE  DiskInv'
<1>. USE DEF DiskInv
<1>0. /\ pc[p] = "op" /\ cache' = [cache EXCEPT ![b] = d]
      /\ held' = [held EXCEPT ![p] = {b}]
      /\ UNCHANGED <<disk, logdata, head, dirty, lh, committing, stage>>
  BY Zenon DEF modify, diskvars
<1>1. /\ stage = "run" /\ cache \in [Blocks -> Data] /\ held \in [Procs -> SUBSET Blocks]
      /\ held[p] = {}
  BY <1>0, Zenon DEF OpInv, OpsCounted, OpsBounded, OpType, Ops, InOp, DiskType
<1>2. DiskType'
  BY <1>0, <1>1, Zenon DEF DiskType
<1>3. CommitInv'
  BY <1>0, <1>1 DEF CommitInv, NoDup
<1>4. ASSUME NEW c \in Blocks, ~InSeq(c, lh), \A q \in Procs : c \notin held'[q]
      PROVE  cache'[c] = disk[c]
  <2>1. c # b
    BY <1>0, <1>1, <1>4, Zenon
  <2>2. \A q \in Procs : c \notin held[q]
    BY <1>0, <1>1, <1>4, Zenon
  <2>. QED
    BY <1>0, <1>1, <1>4, <2>1, <2>2, Zenon DEF CacheInv, Recovering
<1>5. CacheInv'
  BY <1>0, <1>1, <1>4, Zenon DEF CacheInv, Recovering, InSeq
<1>. QED
  BY <1>2, <1>3, <1>5, Zenon

\* By the time it releases the buffer, the block is in the log's list and dirty.
LEMMA DiskLogWrite ==
  ASSUME OpInv, DiskInv, NEW p \in Procs, log_write(p)
  PROVE  DiskInv'
<1>. USE DEF DiskInv
<1>0. /\ pc[p] = "log_write" /\ held' = [held EXCEPT ![p] = {}]
      /\ UNCHANGED <<disk, logdata, head, cache, committing, stage>>
  BY Zenon DEF log_write, diskvars
<1>1. /\ stage = "run" /\ held \in [Procs -> SUBSET Blocks]
      /\ lh \in Seq(Blocks) /\ Len(lh) \in Nat
  BY <1>0 DEF OpInv, OpsCounted, OpType, Ops, InOp
<1>2. PICK b \in Blocks : held[p] = {b}
  BY <1>0, Zenon DEF OpInv, OpsBounded
<1>3. lh' = (IF InSeq(b, lh) THEN lh ELSE Append(lh, b)) /\ dirty' = dirty \cup {b}
  BY <1>2, Zenon DEF log_write, Logged, Pin
<1>4. /\ InSeq(b, lh') /\ \A c \in Blocks : InSeq(c, lh) => InSeq(c, lh')
      /\ \A j \in 1 .. Len(lh') : lh'[j] = b \/ (j \in 1 .. Len(lh) /\ lh'[j] = lh[j])
  BY <1>1, <1>3 DEF InSeq
<1>5. NoDup(lh')
  <2>1. CASE InSeq(b, lh)
    BY <1>3, <2>1, Zenon DEF CommitInv
  <2>2. CASE ~InSeq(b, lh)
    <3>1. /\ Len(lh') = Len(lh) + 1 /\ lh'[Len(lh) + 1] = b
          /\ \A j \in 1 .. Len(lh) : lh'[j] = lh[j] /\ lh[j] # b
      BY <1>1, <1>3, <2>2 DEF InSeq
    <3>. QED
      BY <1>1, <3>1 DEF NoDup, CommitInv
  <2>. QED
    BY <2>1, <2>2, Zenon
<1>6. DiskType'
  BY <1>0, <1>3, Zenon DEF DiskType
<1>7. CommitInv'
  BY <1>0, <1>1, <1>5 DEF CommitInv, NoDup
<1>8. ASSUME NEW c \in Blocks, ~InSeq(c, lh'), \A q \in Procs : c \notin held'[q]
      PROVE  cache[c] = disk[c]
  <2>1. c # b /\ ~InSeq(c, lh)
    BY <1>4, <1>8, Zenon
  <2>2. \A q \in Procs : c \notin held[q]
    BY <1>0, <1>1, <1>2, <1>8, <2>1, Zenon
  <2>. QED
    BY <1>1, <2>1, <2>2, Zenon DEF CacheInv, Recovering
<1>9. \A j \in 1 .. Len(lh') : lh'[j] \in dirty'
  BY <1>1, <1>3, <1>4, Zenon DEF CacheInv
<1>10. CacheInv'
  BY <1>0, <1>1, <1>8, <1>9, Zenon DEF CacheInv, Recovering
<1>. QED
  BY <1>6, <1>7, <1>10, Zenon

\* The last end_op finds every block that is in memory only in the list.
LEMMA DiskEnd ==
  ASSUME OpInv, DiskInv, NEW p \in Procs, end_op(p)
  PROVE  DiskInv'
<1>. USE DEF DiskInv
<1>0. /\ pc[p] = "op" /\ UNCHANGED <<disk, logdata, head, cache, dirty, lh, held>>
      /\ \/ stage' = "write_log" /\ committing' = TRUE /\ tail' = 1
         \/ stage' = "done" /\ committing' = TRUE /\ tail' = 1
         \/ UNCHANGED <<stage, committing, tail>>
  BY Zenon DEF end_op, diskvars
<1>1. stage = "run" /\ Len(lh) \in Nat
  BY <1>0 DEF OpInv, OpsCounted, OpType, Ops, InOp
<1>2. DiskType'
  BY <1>0, Zenon DEF DiskType
<1>3. CommitInv'
  BY <1>0, <1>1 DEF CommitInv, NoDup
<1>4. CacheInv'
  BY <1>0, <1>1, Zenon DEF CacheInv, Recovering, InSeq
<1>. QED
  BY <1>2, <1>3, <1>4, Zenon

\* Recycling a buffer loses nothing: what is only in memory is in use or
\* B_DIRTY.
LEMMA RecycleSame ==
  ASSUME OpInv, RoomOnDisk, DiskInv, NEW b \in Blocks, recycle(b)
  PROVE  cache' = cache
<1>0. /\ b \notin dirty /\ \A p \in Procs : b \notin held[p]
      /\ cache' = [cache EXCEPT ![b] = disk[b]]
  BY Zenon DEF recycle
<1>1. cache \in [Blocks -> Data]
  BY Zenon DEF DiskInv, DiskType
<1>2. cache[b] = disk[b]
  <2>1. CASE Recovering
    BY <2>1, Zenon DEF DiskInv, CacheInv
  <2>2. CASE ~Recovering /\ ~InSeq(b, lh)
    BY <1>0, <2>2, Zenon DEF DiskInv, CacheInv
  <2>3. CASE ~Recovering /\ InSeq(b, lh)
    <3>1. PICK j \in 1 .. Len(lh) : lh[j] = b
      BY <2>3, Zenon DEF InSeq
    <3>2. stage = "install" /\ committing
      <4>1. stage \notin {"run", "write_log"}
        BY <1>0, <3>1, Zenon DEF DiskInv, CacheInv
      <4>2. stage \notin {"boot", "done"}
        BY <3>1 DEF OpInv, OpsCounted
      <4>. QED
        BY <2>3, <4>1, <4>2, Zenon DEF OpInv, OpType, Recovering
    <3>3. j < tail
      BY <1>0, <3>1, <3>2, Alone DEF DiskInv, CacheInv
    <3>. QED
      BY <3>1, <3>2, <3>3, Zenon DEF DiskInv, CommitInv
  <2>. QED
    BY <2>1, <2>2, <2>3, Zenon
<1>. QED
  BY <1>0, <1>1, <1>2, Zenon

\* Every step preserves the invariant.
LEMMA DiskStep == RoomOnDisk /\ OpInv /\ DiskInv /\ [Next]_vars => DiskInv'
<1>. SUFFICES ASSUME RoomOnDisk, OpInv, DiskInv, [Next]_vars PROVE DiskInv'
  BY Zenon
<1>1. CASE UNCHANGED vars
  BY <1>1, DiskSame, Zenon DEF vars, opvars
<1>2. CASE Commit
  BY <1>2, DiskCommit, Zenon
<1>3. ASSUME NEW p \in Procs, begin_op(p) PROVE DiskInv'
  BY <1>3, DiskSame, Zenon DEF begin_op
<1>4. ASSUME NEW b \in Blocks, recycle(b) PROVE DiskInv'
  BY <1>4, RecycleSame, DiskSame, Zenon DEF recycle, opvars
<1>5. CASE crash
  <2>0. /\ cache' = disk /\ dirty' = {} /\ lh' = <<>> /\ stage' = "boot"
        /\ committing' = FALSE /\ UNCHANGED <<disk, logdata, head>>
    BY <1>5, Zenon DEF crash, diskvars
  <2>1. DiskType'
    BY <2>0, Zenon DEF DiskInv, DiskType
  <2>2. CommitInv'
    BY <2>0 DEF DiskInv, CommitInv, NoDup
  <2>3. CacheInv'
    BY <2>0, Zenon DEF CacheInv, Recovering
  <2>. QED
    BY <2>1, <2>2, <2>3, Zenon DEF DiskInv
<1>. QED
  BY <1>1, <1>2, <1>3, <1>4, <1>5, DiskModify, DiskLogWrite, DiskEnd, Zenon DEF Next

\* The invariant of the disk, the log and the cache holds in every reachable
\* state.
THEOREM CommitInvariant == RoomOnDisk /\ Spec => []DiskInv
<1>1. RoomOnDisk => RoomOnDisk'
  BY Zenon DEF RoomOnDisk
<1>. QED
  BY <1>1, DiskInit, DiskStep, OperationsInvariant, PTL DEF Spec

-----------------------------------------------------------------------------
(* Refinement: log and recovery implement AtomicDisk *)

Mem == IF Recovering THEN Recovered ELSE cache

\* The refinement mapping takes the initial states to those of AtomicDisk.
LEMMA AtomicInit == Init => Atomic!Init
<1>. SUFFICES ASSUME Init PROVE Atomic!Init
  BY Zenon
<1>1. head = <<>> /\ stage = "boot" /\ committing = FALSE /\ disk \in [Blocks -> Data]
  BY Zenon DEF Init
<1>2. Recovered = disk
  BY <1>1 DEF Recovered, InSeq
<1>3. {p \in Procs : InOp(p)} = {}
  BY Zenon DEF Init, InOp
<1>. QED
  BY <1>1, <1>2, <1>3, Zenon DEF Atomic!Init, Recovering

\* A step that leaves the disk, the cache and the operations alone, and does not
\* end recovery, is a stutter.
LEMMA AtomicSame ==
  ASSUME Recovered' = Recovered, Mem' = Mem, \A p \in Procs : InOp(p)' = InOp(p)
  PROVE  UNCHANGED Atomic!vars
  BY Zenon DEF Atomic!vars, Mem

\* write_head is the commit of AtomicDisk; the other steps of a commit and of
\* recovery change nothing that it sees.
LEMMA AtomicCommit ==
  ASSUME OpInv, RoomOnDisk, DiskInv, Commit
  PROVE  [Atomic!Next]_Atomic!vars
<1>1. CASE read_head
  <2>0. /\ stage = "boot" /\ stage' = "install"
        /\ UNCHANGED <<disk, logdata, head, cache, committing, pc>>
    BY <1>1, Zenon DEF read_head, diskvars, opvars
  <2>1. ~committing
    BY <2>0, Zenon DEF OpInv, OpsCounted
  <2>2. Recovered' = Recovered
    BY <2>0, Zenon DEF Recovered, InSeq
  <2>3. Mem' = Mem /\ \A p \in Procs : InOp(p)' = InOp(p)
    BY <2>0, <2>1, <2>2, Zenon DEF Mem, Recovering, InOp
  <2>. QED
    BY <2>2, <2>3, AtomicSame, Zenon
<1>2. CASE install_trans
  <2>. DEFINE x == lh[tail]  v == logdata[tail]
  <2>0. /\ stage = "install" /\ tail \in 1 .. Len(lh)
        /\ disk' = [disk EXCEPT ![x] = v] /\ cache' = [cache EXCEPT ![x] = v]
        /\ UNCHANGED <<logdata, head, committing, stage, pc>>
    BY <1>2, Alone DEF install_trans, opvars
  <2>1. head = lh /\ InSeq(x, head)
    BY <2>0, Zenon DEF DiskInv, CommitInv, InSeq
  <2>2. disk \in [Blocks -> Data] /\ \A b \in Blocks : ~InSeq(b, head) => disk'[b] = disk[b]
    BY <2>0, <2>1, Zenon DEF DiskInv, DiskType
  <2>3. Recovered' = Recovered
    BY <2>0, <2>2, Zenon DEF Recovered, InSeq
  <2>4. ~Recovering => cache' = cache
    <3>. SUFFICES ASSUME committing PROVE cache' = cache
      BY <2>0, Zenon DEF Recovering
    <3>1. cache \in [Blocks -> Data] /\ cache[x] = v
      BY <2>0, Zenon DEF DiskInv, DiskType, CommitInv
    <3>. QED
      BY <2>0, <3>1, Zenon
  <2>5. Mem' = Mem /\ \A p \in Procs : InOp(p)' = InOp(p)
    BY <2>0, <2>3, <2>4, Zenon DEF Mem, Recovering, InOp
  <2>. QED
    BY <2>3, <2>5, AtomicSame, Zenon
<1>3. CASE erase
  <2>0. /\ stage = "install" /\ head' = <<>> /\ stage' = IF committing THEN "done" ELSE "run"
        /\ UNCHANGED <<disk, logdata, cache, committing, pc>>
    BY <1>3, Zenon DEF erase, Erased, opvars
  <2>1. cache = disk /\ Recovered = disk
    BY <1>3, InstalledAll, Zenon DEF erase
  <2>2. Recovered' = disk
    <3>1. disk = [b \in Blocks |-> disk[b]]
      BY Zenon DEF DiskInv, DiskType
    <3>. QED
      BY <2>0, <3>1 DEF Recovered, InSeq
  <2>3. Mem' = Mem /\ \A p \in Procs : InOp(p)' = InOp(p)
    BY <2>0, <2>1, <2>2, Zenon DEF Mem, Recovering, InOp
  <2>. QED
    BY <2>1, <2>2, <2>3, AtomicSame, Zenon
<1>4. CASE write_log
  <2>0. stage = "write_log" /\ UNCHANGED <<disk, head, cache, committing, stage, pc>>
    BY <1>4, Zenon DEF write_log, opvars
  <2>1. head = <<>> /\ committing
    BY <2>0, Zenon DEF DiskInv, CommitInv, OpInv, OpsCounted
  <2>2. Recovered' = Recovered
    BY <2>0, <2>1 DEF Recovered, InSeq
  <2>3. Mem' = Mem /\ \A p \in Procs : InOp(p)' = InOp(p)
    BY <2>0, <2>1, Zenon DEF Mem, Recovering, InOp
  <2>. QED
    BY <2>2, <2>3, AtomicSame, Zenon
\* The commit: with the header, the disk recovers to what is in memory.
<1>5. CASE write_head
  <2>0. /\ stage = "write_log" /\ stage' = "install" /\ tail > Len(lh)
        /\ head' = lh /\ UNCHANGED <<disk, logdata, cache, committing, pc>>
    BY <1>5, Zenon DEF write_head, LogWritten, opvars
  <2>1. /\ committing /\ cache \in [Blocks -> Data]
        /\ \A p \in Procs : ~InOp(p) /\ held[p] = {}
    BY <2>0, Alone, Zenon DEF DiskInv, DiskType, OpInv, OpsCounted
  <2>2. \A j \in 1 .. Len(lh) : logdata[j] = cache[lh[j]]
    <3>1. Len(lh) \in Nat /\ tail \in Nat
      BY Alone, Zenon
    <3>2. \A j \in 1 .. Len(lh) : j < tail
      BY ONLY <2>0, <3>1
    <3>. QED
      BY <2>0, <3>2, Zenon DEF DiskInv, CommitInv
  <2>3. ASSUME NEW b \in Blocks PROVE Recovered'[b] = cache[b]
    <3>1. CASE InSeq(b, lh)
      <4>. DEFINE i == CHOOSE i \in 1 .. Len(lh) : lh[i] = b
      <4>1. i \in 1 .. Len(lh) /\ lh[i] = b
        BY <3>1, Zenon DEF InSeq
      <4>2. Recovered'[b] = logdata[i]
        BY <2>0, <3>1, Zenon DEF Recovered, InSeq
      <4>. QED
        BY <2>2, <4>1, <4>2, Zenon
    <3>2. CASE ~InSeq(b, lh)
      <4>1. cache[b] = disk[b]
        BY <2>1, <3>2, Zenon DEF DiskInv, CacheInv, Recovering
      <4>. QED
        BY <2>0, <3>2, <4>1, Zenon DEF Recovered, InSeq
    <3>. QED
      BY <3>1, <3>2, Zenon
  <2>4. Recovered' = cache
    <3>1. Recovered' = [b \in Blocks |-> Recovered'[b]]
      BY DEF Recovered
    <3>. QED
      BY <2>1, <2>3, <3>1, Zenon
  <2>5. Mem = cache /\ Mem' = cache
    BY <2>0, <2>1, Zenon DEF Mem, Recovering
  <2>6. {p \in Procs : InOp(p)} = {} /\ {p \in Procs : InOp(p)}' = {}
    BY <2>0, <2>1, Zenon DEF InOp
  <2>7. Atomic!Commit
    BY <2>4, <2>5, <2>6, Zenon DEF Atomic!Commit, Mem
  <2>. QED
    BY <2>7, Zenon DEF Atomic!Next
<1>6. CASE committed
  <2>0. /\ stage = "done" /\ stage' = "run" /\ pc' = Woken
        /\ UNCHANGED <<disk, logdata, head, cache>>
    BY <1>6, Zenon DEF committed, diskvars
  <2>1. committing
    BY <2>0, Zenon DEF OpInv, OpsCounted
  <2>2. Recovered' = Recovered
    BY <2>0, Zenon DEF Recovered, InSeq
  <2>3. Mem' = Mem
    BY <2>0, <2>1, Zenon DEF Mem, Recovering
  <2>4. \A p \in Procs : InOp(p)' = InOp(p)
    BY <2>0 DEF InOp, Woken
  <2>. QED
    BY <2>2, <2>3, <2>4, AtomicSame, Zenon
<1>. QED
  BY <1>1, <1>2, <1>3, <1>4, <1>5, <1>6, Zenon DEF Commit

\* begin_op, the changes of an operation and end_op are steps of AtomicDisk.
LEMMA AtomicOperation ==
  ASSUME OpInv, RoomOnDisk, DiskInv, NEW p \in Procs,
         \/ begin_op(p) \/ log_write(p) \/ end_op(p)
         \/ \E b \in Blocks, d \in Data : modify(p, b, d)
  PROVE  [Atomic!Next]_Atomic!vars
<1>0. /\ pc \in [Procs -> {"idle", "begin", "sleeping", "op", "log_write"}]
      /\ stage = "run" => ~Recovering
      /\ InOp(p) => stage = "run"
  BY Zenon DEF OpInv, OpType, OpsCounted, Ops, Recovering
<1>1. CASE begin_op(p)
  <2>0. /\ pc[p] \in {"idle", "begin"} /\ UNCHANGED <<disk, logdata, head, cache, committing, stage>>
        /\ \/ pc' = [pc EXCEPT ![p] = "sleeping"]
           \/ pc' = [pc EXCEPT ![p] = "op"]
    BY <1>1, Zenon DEF begin_op, diskvars
  <2>1. Recovered' = Recovered
    BY <2>0, Zenon DEF Recovered, InSeq
  <2>2. Mem' = Mem
    BY <2>0, <2>1, Zenon DEF Mem, Recovering
  <2>3. CASE pc' = [pc EXCEPT ![p] = "sleeping"]
    <3>1. \A q \in Procs : InOp(q)' = InOp(q)
      BY <1>0, <2>0, <2>3 DEF InOp
    <3>. QED
      BY <2>1, <2>2, <3>1, AtomicSame, Zenon
  <2>4. CASE pc' = [pc EXCEPT ![p] = "op"]
    <3>1. ~InOp(p) /\ InOp(p)' /\ \A q \in Procs : q # p => InOp(q)' = InOp(q)
      BY <1>0, <2>0, <2>4, Zenon DEF InOp
    <3>2. Atomic!Begin(p)
      BY <2>1, <2>2, <3>1, Zenon DEF Atomic!Begin, Mem
    <3>. QED
      BY <3>2, Zenon DEF Atomic!Next
  <2>. QED
    BY <2>0, <2>3, <2>4, Zenon
<1>2. CASE log_write(p)
  <2>0. /\ pc[p] = "log_write" /\ pc' = [pc EXCEPT ![p] = "op"]
        /\ UNCHANGED <<disk, logdata, head, cache, committing, stage>>
    BY <1>2, Zenon DEF log_write, diskvars
  <2>1. Recovered' = Recovered
    BY <2>0, Zenon DEF Recovered, InSeq
  <2>2. Mem' = Mem /\ \A q \in Procs : InOp(q)' = InOp(q)
    BY <1>0, <2>0, <2>1 DEF Mem, Recovering, InOp
  <2>. QED
    BY <2>1, <2>2, AtomicSame, Zenon
<1>3. CASE end_op(p)
  <2>0. /\ pc[p] = "op" /\ UNCHANGED <<disk, logdata, head, cache>>
        /\ committing' = TRUE \/ UNCHANGED <<committing, stage>>
    BY <1>3, Zenon DEF end_op, diskvars
  <2>1. /\ pc'[p] = "idle"
        /\ \A q \in Procs : q # p => pc'[q] = pc[q] \/ (pc[q] = "sleeping" /\ pc'[q] = "begin")
    BY <1>0, <1>3, Zenon DEF end_op, Freed, Woken
  <2>2. Recovered' = Recovered
    BY <2>0, Zenon DEF Recovered, InSeq
  <2>3. Mem' = Mem
    BY <1>0, <2>0, Zenon DEF Mem, Recovering, InOp
  <2>4. InOp(p) /\ \A q \in Procs : InOp(q)' <=> InOp(q) /\ q # p
    BY <2>0, <2>1, Zenon DEF InOp
  <2>5. Atomic!End(p)
    BY <2>2, <2>3, <2>4, Zenon DEF Atomic!End, Mem
  <2>. QED
    BY <2>5, Zenon DEF Atomic!Next
<1>4. ASSUME NEW b \in Blocks, NEW d \in Data, modify(p, b, d)
      PROVE  Atomic!Next
  <2>0. /\ pc[p] = "op" /\ pc' = [pc EXCEPT ![p] = "log_write"]
        /\ cache' = [cache EXCEPT ![b] = d]
        /\ UNCHANGED <<disk, logdata, head, committing, stage>>
    BY <1>4, Zenon DEF modify, diskvars
  <2>1. Recovered' = Recovered
    BY <2>0, Zenon DEF Recovered, InSeq
  <2>2. InOp(p) /\ \A q \in Procs : InOp(q)' = InOp(q)
    BY <1>0, <2>0 DEF InOp
  <2>3. Mem = cache /\ Mem' = [cache EXCEPT ![b] = d]
    BY <1>0, <2>0, <2>2, Zenon DEF Mem, Recovering
  <2>4. Mem' = [Mem EXCEPT ![b] = d]
    BY <2>3, Zenon
  <2>5. {q \in Procs : InOp(q)}' = {q \in Procs : InOp(q)} /\ p \in {q \in Procs : InOp(q)}
    BY <2>2, Zenon
  <2>6. Atomic!Write(p, b, d)
    BY <2>1, <2>4, <2>5, Zenon DEF Atomic!Write, Mem
  <2>. QED
    BY <2>6, Zenon DEF Atomic!Next
<1>. QED
  BY <1>1, <1>2, <1>3, <1>4, Zenon

\* Every step is one of AtomicDisk or changes nothing that it sees.
LEMMA AtomicStep ==
  RoomOnDisk /\ OpInv /\ DiskInv /\ [Next]_vars => [Atomic!Next]_Atomic!vars
<1>. SUFFICES ASSUME RoomOnDisk, OpInv, DiskInv, [Next]_vars
              PROVE  [Atomic!Next]_Atomic!vars
  BY Zenon
<1>1. ASSUME UNCHANGED <<diskvars, cache, committing, stage, pc>>
      PROVE  UNCHANGED Atomic!vars
  <2>1. Recovered' = Recovered
    BY <1>1, Zenon DEF Recovered, InSeq, diskvars
  <2>2. Mem' = Mem /\ \A p \in Procs : InOp(p)' = InOp(p)
    BY <1>1, <2>1, Zenon DEF Mem, Recovering, InOp
  <2>. QED
    BY <2>1, <2>2, AtomicSame, Zenon
<1>2. CASE UNCHANGED vars
  BY <1>1, <1>2, Zenon DEF vars, opvars
<1>3. ASSUME NEW b \in Blocks, recycle(b)
      PROVE  UNCHANGED Atomic!vars
  BY <1>1, <1>3, RecycleSame, Zenon DEF recycle, opvars
<1>4. CASE crash
  <2>0. /\ stage' = "boot" /\ committing' = FALSE /\ pc' = [p \in Procs |-> "idle"]
        /\ UNCHANGED <<disk, logdata, head>>
    BY <1>4, Zenon DEF crash, diskvars
  <2>1. Recovered' = Recovered
    BY <2>0, Zenon DEF Recovered, InSeq
  <2>2. Mem' = Recovered
    BY <2>0, <2>1, Zenon DEF Mem, Recovering
  <2>3. {p \in Procs : InOp(p)}' = {}
    BY <2>0, Zenon DEF InOp
  <2>4. Atomic!Crash
    BY <2>1, <2>2, <2>3, Zenon DEF Atomic!Crash, Mem
  <2>. QED
    BY <2>4, Zenon DEF Atomic!Next
<1>. QED
  BY <1>2, <1>3, <1>4, AtomicCommit, AtomicOperation, Zenon DEF Next

\* The log implements the atomic disk (log.c:9-30): wherever a crash cuts a
\* commit or a recovery, the disk comes back as it was at the last commit, and
\* commits happen between operations.
THEOREM LogImplementsAtomicDisk == RoomOnDisk /\ Spec => AtomicSpec
<1>1. RoomOnDisk => RoomOnDisk'
  BY Zenon DEF RoomOnDisk
<1>. QED
  BY <1>1, AtomicInit, AtomicStep, OperationsInvariant, CommitInvariant, PTL
     DEF Spec, AtomicSpec, Atomic!Spec
=============================================================================
