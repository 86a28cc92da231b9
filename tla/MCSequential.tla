---------------------------- MODULE MCSequential ----------------------------
(***************************************************************************)
(* The parts in which nothing but the order of calls matters, each on its  *)
(* own: the contents of files, malloc, grep and the shell's parser.  The   *)
(* variables of the parts that a behaviour is not about stay as they are.  *)
(***************************************************************************)
EXTENDS FileData, Malloc, Grep, Sh

VARIABLE part

\* Two files of one word each.
MCTrees == {<< <<3>>, <<3>> >>}

MCPatterns == SeqOf({"a", "b", ".", "*", "^", "$"}, 3)
MCTexts == SeqOf({"a", "b"}, 3)
MCLines == {<<>>, <<"a">>, <<"b", "a">>}

Init ==
  /\ part \in {"files", "malloc", "grep", "sh"}
  /\ FileInit /\ MallocInit /\ GrepInit /\ ShInit
  /\ part # "grep" => re = <<>> /\ text = <<>> /\ given = <<>>

Next ==
  \/ part = "files" /\ FileNext /\ UNCHANGED <<mallocvars, grepvars, toks>>
  \/ part = "malloc" /\ MallocNext /\ UNCHANGED <<filevars, grepvars, toks>>
  \/ part = "grep" /\ GrepNext /\ UNCHANGED <<filevars, mallocvars, toks>>
  \/ part = "sh" /\ ShNext /\ UNCHANGED <<filevars, mallocvars, grepvars>>

vars == <<part, filevars, mallocvars, grepvars, toks>>
Spec == Init /\ [][Next /\ UNCHANGED part]_vars
=============================================================================
