------------------------------ MODULE MCBcache ------------------------------
(* A thread that opens a second use while it has one, another thread of the  *)
(* same process, and another process.                                        *)
EXTENDS Bcache

MCOwner == [u \in Uses |-> IF u = 2 THEN 1 ELSE u]
MCPid == [u \in Uses |-> IF u = 4 THEN 2 ELSE 1]

\* The block that is written, one that is read besides it, and any block.
MCWants ==
  [u \in Uses |-> IF u \in {1, 3} THEN Written ELSE IF u = 2 THEN Blocks \ Written ELSE Blocks]
=============================================================================
