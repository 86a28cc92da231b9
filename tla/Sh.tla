--------------------------------- MODULE Sh ---------------------------------
(***************************************************************************)
(* The parser of the shell (sh.c), on commands that gettoken has cut into  *)
(* tokens: "a" stands for any word, which is known by its place.           *)
(***************************************************************************)
EXTENDS Naturals, Sequences, SequencesExt, FiniteSets

CONSTANTS
  MAXARGS,    \* a command has less than this many words
  Tokens,     \* what gettoken returns
  NTokens     \* bound: tokens of a command

ASSUME ShAssumption == MAXARGS \in Nat \ {0}

VARIABLE toks

\* A command tree, and how far the parser has come; error for panic.
execcmd(argv) == [type |-> "EXEC", argv |-> argv]
redircmd(sub, file, op) == [type |-> "REDIR", cmd |-> sub, file |-> file, op |-> op]
pipecmd(l, r) == [type |-> "PIPE", left |-> l, right |-> r]
listcmd(l, r) == [type |-> "LIST", left |-> l, right |-> r]
backcmd(sub) == [type |-> "BACK", cmd |-> sub]

At(cmd, i) == [cmd |-> cmd, at |-> i, ok |-> TRUE]
Syntax == [cmd |-> execcmd(<<>>), at |-> 0, ok |-> FALSE]

\* peek and gettoken at place i.
peek(s, i, set) == i <= Len(s) /\ s[i] \in set
Redirections == {"<", ">", ">>"}

RECURSIVE parseredirs(_, _, _)
parseredirs(s, i, cmd) ==
  IF ~peek(s, i, Redirections) THEN At(cmd, i)
  ELSE IF ~peek(s, i + 1, {"a"}) THEN Syntax
  ELSE parseredirs(s, i + 2, redircmd(cmd, i + 1, IF s[i] = "<" THEN "r" ELSE "w"))

RECURSIVE Argued(_, _)
\* cmd with a word more for the command inside its redirections.
Argued(cmd, i) ==
  IF cmd.type = "EXEC" THEN execcmd(Append(cmd.argv, i)) ELSE [cmd EXCEPT !.cmd = Argued(@, i)]

RECURSIVE Words(_, _, _, _)
\* The loop of parseexec, with argc words so far.
Words(s, i, cmd, argc) ==
  IF peek(s, i, {"|", ")", "&", ";"}) \/ i > Len(s) THEN At(cmd, i)
  ELSE IF s[i] # "a" \/ argc + 1 >= MAXARGS THEN Syntax
  ELSE LET x == parseredirs(s, i + 1, Argued(cmd, i)) IN
       IF ~x.ok THEN x ELSE Words(s, x.at, x.cmd, argc + 1)

RECURSIVE parseline(_, _), parsepipe(_, _), Backs(_, _, _)

parseblock(s, i) ==
  LET x == parseline(s, i + 1) IN
  IF ~x.ok \/ ~peek(s, x.at, {")"}) THEN Syntax
  ELSE parseredirs(s, x.at + 1, x.cmd)

parseexec(s, i) ==
  IF peek(s, i, {"("}) THEN parseblock(s, i)
  ELSE LET x == parseredirs(s, i, execcmd(<<>>)) IN
       IF ~x.ok THEN x ELSE Words(s, x.at, x.cmd, 0)

parsepipe(s, i) ==
  LET x == parseexec(s, i) IN
  IF ~x.ok \/ ~peek(s, x.at, {"|"}) THEN x
  ELSE LET y == parsepipe(s, x.at + 1) IN
       IF ~y.ok THEN y ELSE At(pipecmd(x.cmd, y.cmd), y.at)

\* Mutant: only one & is taken.
One_Backs(s, i, cmd) == IF peek(s, i, {"&"}) THEN At(backcmd(cmd), i + 1) ELSE At(cmd, i)

\* The loop of parseline.
Backs(s, i, cmd) == IF peek(s, i, {"&"}) THEN Backs(s, i + 1, backcmd(cmd)) ELSE At(cmd, i)

parseline(s, i) ==
  LET x == parsepipe(s, i)
      b == Backs(s, x.at, x.cmd)
  IN IF ~x.ok THEN x
     ELSE IF ~peek(s, b.at, {";"}) THEN b
     ELSE LET y == parseline(s, b.at + 1) IN
          IF ~y.ok THEN y ELSE At(listcmd(b.cmd, y.cmd), y.at)

\* parsecmd: nothing may be left over.
parsecmd(s) ==
  LET x == parseline(s, 1) IN
  IF x.ok /\ x.at = Len(s) + 1 THEN x ELSE Syntax

ShInit == toks = <<>>
ShNext == Len(toks) < NTokens /\ \E t \in Tokens : toks' = Append(toks, t)

-----------------------------------------------------------------------------
(* Properties *)

\* The grammar, on the tokens from i up to before j.
RECURSIVE Simple(_, _, _), Line(_, _), Pipe(_, _)
Simple(i, j, n) ==   \* with less than n words
  \/ i = j
  \/ j > i /\ n > 1 /\ toks[i] = "a" /\ Simple(i + 1, j, n - 1)
  \/ j > i + 1 /\ toks[i] \in Redirections /\ toks[i + 1] = "a" /\ Simple(i + 2, j, n)
Exec(i, j) ==
  \/ Simple(i, j, MAXARGS)
  \/ /\ j > i /\ toks[i] = "("
     /\ \E m \in i + 1 .. j - 1 : toks[m] = ")" /\ Line(i + 1, m) /\ Simple(m + 1, j, 1)
Pipe(i, j) ==
  Exec(i, j) \/ \E m \in i .. j - 1 : toks[m] = "|" /\ Exec(i, m) /\ Pipe(m + 1, j)
Line(i, j) ==
  \E m \in i .. j : \E k \in m .. j :
    /\ Pipe(i, m) /\ \A x \in m .. k - 1 : toks[x] = "&"
    /\ k = j \/ (toks[k] = ";" /\ Line(k + 1, j))

RECURSIVE WordsOf(_)
\* The words of a tree, left to right, those of redirections in any place.
WordsOf(c) ==
  CASE c.type = "EXEC" -> c.argv
    [] c.type = "REDIR" -> Append(WordsOf(c.cmd), c.file)
    [] c.type = "BACK" -> WordsOf(c.cmd)
    [] OTHER -> WordsOf(c.left) \o WordsOf(c.right)

RECURSIVE InOrder(_)
InOrder(c) ==
  CASE c.type = "EXEC" -> \A k \in 1 .. Len(c.argv) - 1 : c.argv[k] < c.argv[k + 1]
    [] c.type \in {"REDIR", "BACK"} -> InOrder(c.cmd)
    [] OTHER -> /\ InOrder(c.left) /\ InOrder(c.right)
                /\ \A x \in ToSet(WordsOf(c.left)), y \in ToSet(WordsOf(c.right)) : x < y

RECURSIVE Operators(_)
Operators(c) ==
  CASE c.type = "EXEC" -> 0
    [] c.type \in {"REDIR", "BACK"} -> 1 + Operators(c.cmd)
    [] OTHER -> 1 + Operators(c.left) + Operators(c.right)

\* The parser accepts exactly the commands of the grammar, though it never goes
\* back, and the tree has every word once, in the order of the command, and a
\* node for every operator (sh.c:327-446).
ParsesGrammar ==
  \A x \in {parsecmd(toks)} :
    /\ x.ok <=> Line(1, Len(toks) + 1)
    /\ x.ok =>
         \A words \in {WordsOf(x.cmd)} :
           /\ ToSet(words) = {k \in DOMAIN toks : toks[k] = "a"}
           /\ IsInjective(words)
           /\ InOrder(x.cmd)
           /\ Operators(x.cmd) = Cardinality({k \in DOMAIN toks : toks[k] \notin {"a", "(", ")"}})
=============================================================================
