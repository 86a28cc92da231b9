------------------------------ MODULE Contents ------------------------------
(***************************************************************************)
(* What the blocks of a file amount to: a sequence that writes overwrite   *)
(* and extend, at the offset of the open file they are made through.       *)
(***************************************************************************)
EXTENDS Naturals, Sequences, SequencesExt

CONSTANTS Inums, Files, Words
VARIABLES text, ino, off   \* ino: the inode an open file is of; 0 for none

vars == <<text, ino, off>>

Init == text \in [Inums -> Seq(Nat)] /\ ino = [f \in Files |-> 0] /\ off = [f \in Files |-> 0]

Open(f, i) ==
  /\ ino[f] = 0 /\ ino' = [ino EXCEPT ![f] = i] /\ off' = [off EXCEPT ![f] = 0]
  /\ UNCHANGED text

Close(f) ==
  /\ ino' = [ino EXCEPT ![f] = 0] /\ off' = [off EXCEPT ![f] = 0]
  /\ UNCHANGED text

\* n words of value v go to the offset, which moves behind them.
Write(f, n, v) ==
  LET t == text[ino[f]]
      s == [k \in 1 .. n |-> v]
  IN
  /\ ino[f] # 0 /\ off[f] <= Len(t)
  /\ text' = [text EXCEPT ![ino[f]] =
                SubSeq(t, 1, off[f]) \o s \o SubSeq(t, off[f] + n + 1, Len(t))]
  /\ off' = [off EXCEPT ![f] = @ + n]
  /\ UNCHANGED ino

Read(f, n) ==
  /\ ino[f] # 0 /\ off[f] + n <= Len(text[ino[f]])
  /\ off' = [off EXCEPT ![f] = @ + n]
  /\ UNCHANGED <<text, ino>>

\* Only a file that is not open loses its contents.
Truncate(i) ==
  /\ \A f \in Files : ino[f] # i
  /\ text' = [text EXCEPT ![i] = <<>>]
  /\ UNCHANGED <<ino, off>>

Next ==
  \E f \in Files, i \in Inums :
    \/ Open(f, i) \/ Close(f) \/ Truncate(i)
    \/ \E n \in 1 .. Len(text[i]) : Read(f, n)
    \/ \E n \in 1 .. Len(text'[i]), v \in Words : Write(f, n, v)

Spec == Init /\ [][Next]_vars
=============================================================================
