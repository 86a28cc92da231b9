-------------------------------- MODULE Grep --------------------------------
(***************************************************************************)
(* grep.c: a matcher for patterns with ^ . * and $, and the loop that cuts *)
(* what it reads into lines.                                               *)
(***************************************************************************)
EXTENDS Naturals, Sequences, SequencesExt

CONSTANTS
  Patterns, Texts,   \* what the matcher is tried on
  Lines,             \* lines to read, without their "\n"
  BUF,               \* characters that fit in buf
  NLines             \* bound: lines in the input

VARIABLES
  re, text,   \* the arguments of match
  input,      \* what is still to be read
  buf,        \* the m characters kept in buf
  out,        \* the lines written
  given,      \* history: the lines of the whole input
  dropped     \* history: part of a line was discarded

grepvars == <<re, text, input, buf, out, given, dropped>>

RECURSIVE matchhere(_, _), matchstar(_, _, _)

\* Does the character c of the pattern match x?
Fits(c, x) == c = "." \/ c = x

\* c*r at the beginning of t.
matchstar(c, r, t) ==
  \/ matchhere(r, t)
  \/ t # <<>> /\ Fits(c, Head(t)) /\ matchstar(c, r, Tail(t))

\* r at the beginning of t.
matchhere(r, t) ==
  IF r = <<>> THEN TRUE
  ELSE IF Len(r) > 1 /\ r[2] = "*" THEN matchstar(r[1], SubSeq(r, 3, Len(r)), t)
  ELSE IF r = <<"$">> THEN t = <<>>
  ELSE t # <<>> /\ Fits(r[1], t[1]) /\ matchhere(Tail(r), Tail(t))

match(r, t) ==
  IF r # <<>> /\ r[1] = "^" THEN matchhere(Tail(r), t)
  ELSE \E k \in 0 .. Len(t) : matchhere(r, SubSeq(t, k + 1, Len(t)))

GrepInit ==
  /\ re \in Patterns /\ text \in Texts
  /\ given \in (IF text = <<>> THEN SeqOf(Lines, NLines) ELSE {<<>>})
  /\ input = FlattenSeq([i \in DOMAIN given |-> Append(given[i], "\n")])
  /\ buf = <<>> /\ out = <<>> /\ dropped = FALSE

\* The lines in s, and what is behind the last "\n".
Ends(s) == {k \in DOMAIN s : s[k] = "\n"}
LinesOf(s) == FoldLeft(LAMBDA acc, x : IF x = "\n" THEN Append(acc, <<>>)
                                      ELSE [acc EXCEPT ![Len(acc)] = Append(@, x)],
                       << <<>> >>, s)

\* Mutant: what is behind the last "\n" is not kept.
None_Kept(s) == <<>>

\* If no line ends in buf, everything read so far is discarded.
Kept(s) == IF Ends(s) = {} THEN <<>> ELSE Last(LinesOf(s))

\* One round of grep's loop; read returns any number of characters that fit.
grep(n) ==
  LET s == buf \o SubSeq(input, 1, n) IN
  /\ n <= Len(input) /\ Len(s) <= BUF
  /\ input' = SubSeq(input, n + 1, Len(input))
  /\ out' = out \o SelectSeq(Front(LinesOf(s)), LAMBDA l : match(re, l))
  /\ buf' = Kept(s)
  /\ dropped' = (dropped \/ Ends(s) = {})
  /\ UNCHANGED <<re, text, given>>

GrepNext == \E n \in 1 .. BUF : grep(n)

-----------------------------------------------------------------------------
(* Properties *)

RECURSIVE Items(_)
\* A pattern, after ^, as a sequence of single and starred characters.
Items(r) ==
  IF r = <<>> THEN <<>>
  ELSE IF Len(r) > 1 /\ r[2] = "*" THEN <<[c |-> r[1], star |-> TRUE]>> \o Items(SubSeq(r, 3, Len(r)))
  ELSE <<[c |-> r[1], star |-> FALSE]>> \o Items(Tail(r))

Dollar == [c |-> "$", star |-> FALSE]

\* A pattern matches a text that can be cut so that every item has a piece.
Denotes(r, t) ==
  LET front == r # <<>> /\ r[1] = "^"
      items == Items(IF front THEN Tail(r) ELSE r)
      end == items # <<>> /\ Last(items) = Dollar
      body == IF end THEN Front(items) ELSE items
      Piece(it, i, j) == /\ \A k \in i + 1 .. j : it.c \in {".", t[k]}
                         /\ it.star \/ j = i + 1
  IN \E cut \in [0 .. Len(body) -> 0 .. Len(t)] :
       /\ \A k \in 1 .. Len(body) : cut[k - 1] <= cut[k] /\ Piece(body[k], cut[k - 1], cut[k])
       /\ front => cut[0] = 0
       /\ end => cut[Len(body)] = Len(t)

\* The matcher finds a match exactly if there is one, and grep prints exactly
\* the matching lines of what it has read, in order, unless a read left buf
\* without the end of a line (grep.c:11-36, 73-106).
GrepCorrect ==
  /\ match(re, text) <=> Denotes(re, text)
  /\ ~dropped /\ buf = <<>> =>
       out = SelectSeq(SubSeq(given, 1, Len(given) - Len(LinesOf(input)) + 1),
                       LAMBDA l : Denotes(re, l))
=============================================================================
