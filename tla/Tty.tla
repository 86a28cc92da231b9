-------------------------------- MODULE Tty ---------------------------------
(***************************************************************************)
(* What the console promises those who read it: keys are edited into a     *)
(* line, a finished line goes to the end of a queue, and readers take text *)
(* from the front of the queue, never beyond the end of a line.            *)
(***************************************************************************)
EXTENDS Naturals, Sequences, SequencesExt

CONSTANTS Readers, Text, Size
VARIABLES queue, line, got

vars == <<queue, line, got>>

\* The keys that end a line.
Ends == {"\n", "^D"}

Init == queue = <<>> /\ line = <<>> /\ got = [p \in Readers |-> <<>>]

Erase == line # <<>> /\ line' = Front(line) /\ UNCHANGED <<queue, got>>
KillLine == line' = <<>> /\ UNCHANGED <<queue, got>>

\* A character is dropped when Size of them wait; the last that fits ends the
\* line as "\n" does.
Type(c) ==
  /\ Len(queue) + Len(line) < Size
  /\ IF c \in Ends \/ Len(queue) + Len(line) + 1 = Size
     THEN queue' = queue \o Append(line, c) /\ line' = <<>>
     ELSE line' = Append(line, c) /\ UNCHANGED queue
  /\ UNCHANGED got

\* A reader takes the first k characters, of at most one line.  It takes the end
\* of file only when it has taken nothing else: read then returns 0.
Take(p, k) ==
  LET taken == SubSeq(queue, 1, k) IN
  /\ \A i \in 1 .. k - 1 : queue[i] \notin Ends
  /\ queue' = SubSeq(queue, k + 1, Len(queue))
  /\ IF k > 0 /\ queue[k] = "^D"
     THEN k = 1 /\ got[p] = <<>> /\ UNCHANGED got
     ELSE got' = [got EXCEPT ![p] = @ \o taken]
  /\ UNCHANGED line

Call(p) == got' = [got EXCEPT ![p] = <<>>] /\ UNCHANGED <<queue, line>>

Next ==
  \/ Erase \/ KillLine \/ \E c \in Text \cup Ends : Type(c)
  \/ \E p \in Readers : Call(p) \/ \E k \in 1 .. Len(queue) : Take(p, k)

Spec == Init /\ [][Next]_vars
=============================================================================
