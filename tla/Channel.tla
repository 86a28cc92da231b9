------------------------------ MODULE Channel ------------------------------
(***************************************************************************)
(* What a pipe promises: a bounded queue of bytes.  Bytes come out in the  *)
(* order they went in, none is lost or invented, none goes in once the     *)
(* write end is closed, and an end that is closed stays closed until the   *)
(* pipe is made anew.                                                      *)
(***************************************************************************)
EXTENDS Naturals, Sequences

CONSTANTS Bytes, Capacity

VARIABLES queue, readopen, writeopen

chan == <<queue, readopen, writeopen>>

Init == queue = <<>> /\ ~readopen /\ ~writeopen

Open ==
  /\ ~readopen /\ ~writeopen
  /\ queue' = <<>> /\ readopen' /\ writeopen'

\* A write puts in what there is room for.
Write ==
  /\ writeopen
  /\ \E s \in UNION {[1 .. k -> Bytes] : k \in 1 .. Capacity - Len(queue)} :
       queue' = queue \o s
  /\ UNCHANGED <<readopen, writeopen>>

Read ==
  /\ readopen
  /\ \E k \in 1 .. Len(queue) : queue' = SubSeq(queue, k + 1, Len(queue))
  /\ UNCHANGED <<readopen, writeopen>>

\* Closing one end leaves the bytes; closing both drops them.
CloseRead ==
  /\ readopen /\ ~readopen'
  /\ queue' = IF writeopen THEN queue ELSE <<>>
  /\ UNCHANGED writeopen

CloseWrite ==
  /\ writeopen /\ ~writeopen'
  /\ queue' = IF readopen THEN queue ELSE <<>>
  /\ UNCHANGED readopen

Next == Open \/ Write \/ Read \/ CloseRead \/ CloseWrite

Spec == Init /\ [][Next]_chan
=============================================================================
