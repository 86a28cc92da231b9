--------------------------- MODULE FileInvariant ----------------------------
(***************************************************************************)
(* The inductive invariant of File, and the proofs that the calls on       *)
(* descriptors and on the file table preserve it.  What they need of       *)
(* Cardinality, Min and Max is the hypothesis Counting of the lemmas,      *)
(* which FileProofs proves.                                                *)
(***************************************************************************)
EXTENDS File, TLAPS

Reading == {"read", "rsleep", "rasleep"}
Writing == {"write", "wsleep", "wasleep"}
PipeClosing == {"pipeclose", "exitclose"}
Places == {"unused", "user", "close", "exit", "pipe"} \cup PipeClosing \cup Reading \cup Writing

FileTypeOK ==
  /\ ref \in [Files -> Nat] /\ type \in [Files -> {"FD_NONE", "FD_PIPE", "FD_INODE"}]
  /\ writable \in [Files -> BOOLEAN] /\ fpipe \in [Files -> Pipes \cup {None}]
  /\ used \in [Pipes -> BOOLEAN]
  /\ nread \in [Pipes -> 0 .. WRAP - 1] /\ nwrite \in [Pipes -> 0 .. WRAP - 1]
  /\ data \in [Pipes -> [0 .. PIPESIZE - 1 -> Bytes]]
  /\ readopen \in [Pipes -> BOOLEAN] /\ writeopen \in [Pipes -> BOOLEAN]
  /\ plock \in [Pipes -> Procs \cup {None}]
  /\ ofile \in [Procs -> [Fds -> Files \cup {None}]]
  /\ killed \in [Procs -> BOOLEAN] /\ pc \in [Procs -> Places]
  /\ file \in [Procs -> Files \cup {None}]
  /\ ff \in [Procs -> [pipe : Pipes \cup {None}, writable : BOOLEAN]]
  /\ left \in [Procs -> Nat] /\ closing \in [Procs -> Seq(Files)] /\ kills \in Nat

\* What a call in progress has: a file being set up is its own, a file that is
\* read or written is open, and a file is closed once.
CallOK(p) ==
  /\ pc[p] = "unused" => \A d \in Fds : ofile[p][d] = None
  /\ pc[p] = "close" => closing[p] # <<>>
  /\ pc[p] \notin {"close", "pipeclose"} => closing[p] = <<>>
  /\ \A j, k \in DOMAIN closing[p] : closing[p][j] = closing[p][k] => j = k
  /\ ff[p].pipe # None <=> pc[p] \in PipeClosing
  /\ pc[p] = "pipe" =>
       file[p] \in Files /\ ref[file[p]] = 1 /\ type[file[p]] = "FD_NONE"
  /\ pc[p] \in Reading \cup Writing =>
       /\ file[p] \in Files /\ \E d \in Fds : ofile[p][d] = file[p]
       /\ type[file[p]] = "FD_PIPE" /\ (writable[file[p]] <=> pc[p] \in Writing)
CallInv == \A p \in Procs : CallOK(p)

\* A file, or a pipeclose still to come, stands for the end w of pipe i.
FileEnd(f, i, w) == type[f] = "FD_PIPE" /\ fpipe[f] = i /\ writable[f] = w
CloseEnd(p, i, w) == ff[p].pipe = i /\ ff[p].writable = w

\* An end is open as long as something stands for it, and only one thing does.
EndOK(i, w) ==
  /\ (IF w THEN writeopen[i] ELSE readopen[i]) <=>
       (\E f \in Files : FileEnd(f, i, w)) \/ \E p \in Procs : CloseEnd(p, i, w)
  /\ \A f, g \in Files : FileEnd(f, i, w) /\ FileEnd(g, i, w) => f = g
  /\ \A p, q \in Procs : CloseEnd(p, i, w) /\ CloseEnd(q, i, w) => p = q
  /\ \A f \in Files, p \in Procs : ~(FileEnd(f, i, w) /\ CloseEnd(p, i, w))
EndInv ==
  /\ \A f \in Files : /\ ref[f] = 0 => type[f] = "FD_NONE"
                      /\ type[f] = "FD_PIPE" => fpipe[f] \in Pipes
  /\ \A i \in Pipes : /\ EndOK(i, FALSE) /\ EndOK(i, TRUE)
                      /\ used[i] <=> readopen[i] \/ writeopen[i]

\* Who is about to sleep holds the pipe's lock, and a pipe is never overfull.
LockInv ==
  \A p \in Procs, i \in Pipes :
    plock[i] = p <=> pc[p] \in {"rsleep", "wsleep"} /\ PipeOf(p) = i
PipeInv ==
  /\ LockInv /\ SleepersHaveReason
  /\ \A i \in Pipes : Count(i) <= PIPESIZE
  /\ kills = 0 => \A p \in Procs : ~killed[p]

IInv == FileTypeOK /\ RefsExact /\ CallInv /\ EndInv /\ PipeInv

-----------------------------------------------------------------------------
(* Counting references *)

\* The descriptors T are those that E names in the table of q.
FdsOf(T, q, E) == \A r \in Procs, d \in Fds : <<r, d>> \in T <=> r = q /\ d \in E

\* What the proofs need of Cardinality, Min and Max.
CountProcs ==
  \A S \in SUBSET Procs :
    /\ Cardinality(S) \in Nat
    /\ \A p \in Procs \ S : Cardinality(S \cup {p}) = Cardinality(S) + 1
    /\ \A p \in S : Cardinality(S \ {p}) = Cardinality(S) - 1
CountPairs ==
  \A S \in SUBSET (Procs \X Fds) :
    /\ Cardinality(S) \in Nat
    /\ \A x \in (Procs \X Fds) \ S : Cardinality(S \cup {x}) = Cardinality(S) + 1
    /\ \A x \in S : Cardinality(S \ {x}) = Cardinality(S) - 1
CountUnion ==
  \A S, T \in SUBSET (Procs \X Fds), E \in SUBSET Fds, q \in Procs :
    FdsOf(T, q, E) /\ S \cap T = {} => Cardinality(S \cup T) = Cardinality(S) + Cardinality(E)
CountFds ==
  \A E \in SUBSET Fds : /\ Cardinality(E) \in Nat
                        /\ \A d \in E : E \ {d} = {} => Cardinality(E) < 2
                        /\ E = {} => Cardinality(E) < 2
Extremes ==
  /\ \A S \in SUBSET Nat : S # {} => Min(S) \in S /\ \A x \in S : Min(S) <= x
  /\ \A k \in Nat : \A S \in SUBSET (0 .. k - 1) : S # {} => Max(S) \in S
Counting ==
  Cardinality({}) = 0 /\ CountProcs /\ CountPairs /\ CountUnion /\ CountFds /\ Extremes

Borrows(p, f) ==
  \/ pc[p] = "pipe" /\ file[p] = f
  \/ \E k \in DOMAIN closing[p] : closing[p][k] = f
Uses(p, f) == Borrows(p, f) \/ \E d \in Fds : ofile[p][d] = f

\* What the provers need of the constants.
LEMMA Consts ==
  /\ None \notin Procs /\ None \notin Files /\ None \notin Pipes
  /\ Files \subseteq Nat /\ Fds \subseteq Nat /\ Procs \subseteq Nat
  /\ PIPESIZE \in Nat /\ PIPESIZE > 0 /\ WRAP \in Nat /\ WRAP > PIPESIZE
BY FileAssumption DEF Files, Fds, Pipes, None

\* filealloc and fdalloc return a free entry.
LEMMA FirstFree ==
  ASSUME Counting
  PROVE  /\ FreeFiles # {} => FirstFile \in Files /\ ref[FirstFile] = 0
         /\ \A p \in Procs : FreeFds(p) # {} =>
              FirstFd(p) \in Fds /\ ofile[p][FirstFd(p)] = None
<1>1. FreeFiles \in SUBSET Nat /\ \A p \in Procs : FreeFds(p) \in SUBSET Nat
  BY Consts, Zenon DEF FreeFiles, FreeFds
<1>2. FreeFiles # {} => FirstFile \in FreeFiles
  BY <1>1, Zenon DEF Counting, Extremes, FirstFile
<1>3. \A p \in Procs : FreeFds(p) # {} => FirstFd(p) \in FreeFds(p)
  BY <1>1, Zenon DEF Counting, Extremes, FirstFd
<1> QED
  BY <1>2, <1>3, Zenon DEF FreeFiles, FreeFds

\* The numbers that RefsExact adds.
LEMMA RefsAre ==
  ASSUME Counting
  PROVE  \A f \in Files : Cardinality(Descriptors(f)) \in Nat /\ Cardinality(Borrowers(f)) \in Nat
<1>1. \A f \in Files : Descriptors(f) \in SUBSET (Procs \X Fds) /\ Borrowers(f) \in SUBSET Procs
  BY Zenon DEF Descriptors, Borrowers
<1> QED
  BY <1>1, Zenon DEF Counting, CountProcs, CountPairs

\* A descriptor is set to refer to g.
LEMMA GiveFd ==
  ASSUME Counting, FileTypeOK, NEW p \in Procs, NEW d \in Fds, NEW g \in Files,
         ofile[p][d] = None, ofile' = [ofile EXCEPT ![p][d] = g]
  PROVE  \A f \in Files : Cardinality(Descriptors(f)') =
           Cardinality(Descriptors(f)) + IF f = g THEN 1 ELSE 0
<1>1. /\ \A q \in Procs, c \in Fds : <<q, c>> # <<p, d>> => ofile'[q][c] = ofile[q][c]
      /\ ofile'[p][d] = g /\ g # None
  BY Consts DEF FileTypeOK
<1>2. ASSUME NEW f \in Files
      PROVE  Descriptors(f)' = IF f = g THEN Descriptors(f) \cup {<<p, d>>} ELSE Descriptors(f)
  BY <1>1, Consts DEF Descriptors
<1>3. \A f \in Files : Descriptors(f) \in SUBSET (Procs \X Fds)
  BY Zenon DEF Descriptors
<1>4. <<p, d>> \in (Procs \X Fds) \ Descriptors(g)
  BY Consts, Zenon DEF Descriptors
<1> QED
  BY <1>2, <1>3, <1>4 DEF Counting, CountPairs

\* A descriptor that refers to g is cleared.
LEMMA TakeFd ==
  ASSUME Counting, FileTypeOK, NEW p \in Procs, NEW d \in Fds, NEW g \in Files,
         ofile[p][d] = g, ofile' = [ofile EXCEPT ![p][d] = None]
  PROVE  \A f \in Files : Cardinality(Descriptors(f)') =
           Cardinality(Descriptors(f)) - IF f = g THEN 1 ELSE 0
<1>1. /\ \A q \in Procs, c \in Fds : <<q, c>> # <<p, d>> => ofile'[q][c] = ofile[q][c]
      /\ ofile'[p][d] = None
  BY Zenon DEF FileTypeOK
<1>2. ASSUME NEW f \in Files
      PROVE  Descriptors(f)' = IF f = g THEN Descriptors(f) \ {<<p, d>>} ELSE Descriptors(f)
  BY <1>1, Consts DEF Descriptors
<1>3. \A f \in Files : Descriptors(f) \in SUBSET (Procs \X Fds)
  BY Zenon DEF Descriptors
<1>4. <<p, d>> \in Descriptors(g)
  BY Zenon DEF Descriptors
<1> QED
  BY <1>2, <1>3, <1>4 DEF Counting, CountPairs

\* Only p's call takes or drops references.
LEMMA Borrowed ==
  ASSUME Counting, NEW p \in Procs,
         \A q \in Procs \ {p} : /\ closing'[q] = closing[q] /\ file'[q] = file[q]
                                /\ pc'[q] = "pipe" <=> pc[q] = "pipe"
  PROVE  \A f \in Files :
           /\ (Borrows(p, f)' <=> Borrows(p, f))
                => Cardinality(Borrowers(f)') = Cardinality(Borrowers(f))
           /\ Borrows(p, f)' /\ ~Borrows(p, f)
                => Cardinality(Borrowers(f)') = Cardinality(Borrowers(f)) + 1
           /\ ~Borrows(p, f)' /\ Borrows(p, f)
                => Cardinality(Borrowers(f)') = Cardinality(Borrowers(f)) - 1
<1> TAKE f \in Files
<1>1. /\ \A q \in Procs : q \in Borrowers(f) <=> Borrows(q, f)
      /\ \A q \in Procs : q \in Borrowers(f)' <=> Borrows(q, f)'
      /\ Borrowers(f) \in SUBSET Procs /\ Borrowers(f)' \in SUBSET Procs
  BY Zenon DEF Borrowers, Borrows
<1>2. \A q \in Procs \ {p} : Borrows(q, f)' <=> Borrows(q, f)
  BY Zenon DEF Borrows
<1>3. Borrowers(f)' = IF Borrows(p, f)' THEN Borrowers(f) \cup {p} ELSE Borrowers(f) \ {p}
  BY <1>1, <1>2, Zenon
<1>4. p \in Borrowers(f) => /\ Borrowers(f) \cup {p} = Borrowers(f)
                            /\ Cardinality(Borrowers(f) \ {p}) = Cardinality(Borrowers(f)) - 1
  BY <1>1, Zenon DEF Counting, CountProcs
<1>5. p \notin Borrowers(f) => /\ Borrowers(f) \ {p} = Borrowers(f)
                               /\ Cardinality(Borrowers(f) \cup {p}) = Cardinality(Borrowers(f)) + 1
  BY <1>1, Zenon DEF Counting, CountProcs
<1> QED
  BY <1>1, <1>3, <1>4, <1>5, Zenon

\* A file in use has a reference, and one in use by two processes has two.
LEMMA UsedFile ==
  ASSUME Counting, FileTypeOK, RefsExact, NEW p \in Procs, NEW f \in Files, Uses(p, f)
  PROVE  /\ ref[f] >= 1
         /\ \A q \in Procs \ {p} : Uses(q, f) => ref[f] >= 2
<1>1. /\ Borrowers(f) \in SUBSET Procs /\ \A q \in Procs : Borrows(q, f) => q \in Borrowers(f)
      /\ Descriptors(f) \in SUBSET (Procs \X Fds)
      /\ \A q \in Procs : Uses(q, f) => Borrows(q, f) \/ \E d \in Fds : <<q, d>> \in Descriptors(f)
  BY Zenon DEF Borrowers, Borrows, Uses, Descriptors
<1>2. /\ Cardinality(Borrowers(f)) \in Nat /\ Cardinality(Descriptors(f)) \in Nat
      /\ ref[f] = Cardinality(Descriptors(f)) + Cardinality(Borrowers(f))
  BY <1>1, Zenon DEF Counting, CountProcs, CountPairs, RefsExact
<1>3. ASSUME NEW S, S \in SUBSET Procs \/ S \in SUBSET (Procs \X Fds), NEW x \in S
      PROVE  /\ Cardinality(S) \in Nat /\ Cardinality(S) >= 1
             /\ S \ {x} # {} => Cardinality(S) >= 2
  <2>1. S \ {x} \in SUBSET Procs \/ S \ {x} \in SUBSET (Procs \X Fds)
    BY <1>3, Zenon
  <2>2. /\ Cardinality(S \ {x}) = Cardinality(S) - 1
        /\ Cardinality(S) \in Nat /\ Cardinality(S \ {x}) \in Nat
    BY <1>3, <2>1, Zenon DEF Counting, CountProcs, CountPairs
  <2>3. ASSUME NEW y \in S \ {x}
        PROVE  Cardinality(S \ {x}) - 1 \in Nat
    <3>1. (S \ {x}) \ {y} \in SUBSET Procs \/ (S \ {x}) \ {y} \in SUBSET (Procs \X Fds)
      BY <2>1, Zenon
    <3>2. Cardinality((S \ {x}) \ {y}) = Cardinality(S \ {x}) - 1
      BY <2>1, Zenon DEF Counting, CountProcs, CountPairs
    <3>3. Cardinality((S \ {x}) \ {y}) \in Nat
      BY <3>1, Zenon DEF Counting, CountProcs, CountPairs
    <3> QED
      BY <3>2, <3>3, Zenon
  <2> QED
    BY <2>2, <2>3
<1>4. ref[f] >= 1
  <2>1. (\E q \in Borrowers(f) : TRUE) \/ (\E x \in Descriptors(f) : TRUE)
    BY <1>1, Zenon
  <2> QED
    BY <1>1, <1>2, <1>3, <2>1
<1>5. ASSUME NEW q \in Procs \ {p}, Uses(q, f)
      PROVE  ref[f] >= 2
  <2>1. \/ \E r \in Borrowers(f) : Borrowers(f) \ {r} # {}
        \/ \E r \in Borrowers(f), x \in Descriptors(f) : TRUE
        \/ \E d, c \in Fds : <<p, d>> \in Descriptors(f) /\ <<q, c>> \in Descriptors(f)
    BY <1>1, <1>5, Zenon
  <2>2. CASE \E r \in Borrowers(f) : Borrowers(f) \ {r} # {}
    BY <1>1, <1>2, <1>3, <2>2
  <2>3. CASE \E r \in Borrowers(f), x \in Descriptors(f) : TRUE
    BY <1>1, <1>2, <1>3, <2>3
  <2>4. CASE \E d, c \in Fds : <<p, d>> \in Descriptors(f) /\ <<q, c>> \in Descriptors(f)
    <3>1. PICK d \in Fds, c \in Fds : <<p, d>> \in Descriptors(f) /\ <<q, c>> \in Descriptors(f)
      BY <2>4, Zenon
    <3>2. <<q, c>> \in Descriptors(f) \ {<<p, d>>}
      BY <3>1, Zenon
    <3> QED
      BY <1>1, <1>2, <1>3, <3>1, <3>2
  <2> QED
    BY <2>1, <2>2, <2>3, <2>4, Zenon
<1> QED
  BY <1>4, <1>5, Zenon

-----------------------------------------------------------------------------
(* What a step leaves alone *)

Asleep == {"rsleep", "rasleep", "wsleep", "wasleep"}

\* A process that does not take the step keeps what its call has.
LEMMA CallFrame ==
  ASSUME NEW q \in Procs, CallOK(q),
         ofile'[q] = ofile[q] /\ closing'[q] = closing[q] /\ ff'[q] = ff[q] /\ file'[q] = file[q],
         \/ pc'[q] = pc[q]
         \/ pc[q] \in Reading /\ pc'[q] \in Reading
         \/ pc[q] \in Writing /\ pc'[q] \in Writing,
         pc[q] = "pipe" => ref'[file[q]] = ref[file[q]] /\ type'[file[q]] = type[file[q]],
         pc[q] \in Reading \cup Writing =>
           type'[file[q]] = type[file[q]] /\ writable'[file[q]] = writable[file[q]]
  PROVE  CallOK(q)'
BY DEF CallOK, Reading, Writing, PipeClosing

\* A process outside any call, and one that has files s to close.
LEMMA CallUser ==
  ASSUME NEW p \in Procs, pc'[p] \in {"user", "exit"}, closing'[p] = <<>>, ff'[p].pipe = None
  PROVE  CallOK(p)'
BY DEF CallOK, Reading, Writing, PipeClosing

\* It closes each of them once.
LEMMA CallClose ==
  ASSUME NEW p \in Procs, NEW s \in Seq(Files), s # <<>>,
         \A j, k \in DOMAIN s : s[j] = s[k] => j = k,
         pc'[p] = "close", closing'[p] = s, ff'[p].pipe = None
  PROVE  CallOK(p)'
BY Zenon DEF CallOK, Reading, Writing, PipeClosing

\* Nothing happens to the ends of pipes.
LEMMA EndFrame ==
  ASSUME EndInv, UNCHANGED <<ff, used, readopen, writeopen>>,
         \A f \in Files : /\ ref'[f] = 0 => type'[f] = "FD_NONE"
                          /\ type'[f] = "FD_PIPE" <=> type[f] = "FD_PIPE"
                          /\ type[f] = "FD_PIPE" =>
                               fpipe'[f] = fpipe[f] /\ writable'[f] = writable[f]
  PROVE  EndInv'
<1>1. \A f \in Files, i \in Pipes, w \in BOOLEAN : FileEnd(f, i, w)' <=> FileEnd(f, i, w)
  BY Zenon DEF FileEnd
<1>2. \A p \in Procs, i \in Pipes, w \in BOOLEAN : CloseEnd(p, i, w)' <=> CloseEnd(p, i, w)
  BY Zenon DEF CloseEnd
<1>3. \A i \in Pipes : EndOK(i, FALSE)' /\ EndOK(i, TRUE)'
  BY <1>1, <1>2, Zenon DEF EndInv, EndOK
<1> QED
  BY <1>3, Zenon DEF EndInv

\* Nothing happens to those who sleep on a pipe, nor to what they wait for.
LEMMA SleepFrame ==
  ASSUME PipeInv, UNCHANGED <<plock, kills>>,
         kills = 0 => \A q \in Procs : ~killed'[q],
         \A i \in Pipes : Count(i)' <= PIPESIZE,
         \A q \in Procs : \/ /\ pc'[q] = pc[q] /\ PipeOf(q)' = PipeOf(q)
                             /\ pc[q] \in Asleep =>
                                  /\ Count(PipeOf(q))' = Count(PipeOf(q))
                                  /\ readopen'[PipeOf(q)] = readopen[PipeOf(q)]
                                  /\ writeopen'[PipeOf(q)] = writeopen[PipeOf(q)]
                          \/ pc[q] \notin Asleep /\ pc'[q] \notin Asleep
  PROVE  PipeInv'
<1>1. LockInv'
  BY DEF PipeInv, LockInv, Asleep
<1>2. SleepersHaveReason'
  BY Zenon DEF PipeInv, SleepersHaveReason, Asleep, Count
<1> QED
  BY <1>1, <1>2, Zenon DEF PipeInv

\* Nothing happens to the pipes and who sleeps on them.
LEMMA PipeFrame ==
  ASSUME PipeInv, UNCHANGED <<nread, nwrite, readopen, writeopen, plock, kills>>,
         kills = 0 => \A q \in Procs : ~killed'[q],
         \A q \in Procs : \/ pc'[q] = pc[q] /\ PipeOf(q)' = PipeOf(q)
                          \/ pc[q] \notin Asleep /\ pc'[q] \notin Asleep
  PROVE  PipeInv'
<1>1. \A i : Count(i)' = Count(i)
  BY Zenon DEF Count
<1>2. LockInv'
  BY DEF PipeInv, LockInv, Asleep
<1>3. SleepersHaveReason'
  BY <1>1, Zenon DEF PipeInv, SleepersHaveReason, Asleep
<1> QED
  BY <1>1, <1>2, <1>3, Zenon DEF PipeInv

\* Who reads or writes has that end of the pipe open.
LEMMA CallEnd ==
  ASSUME IInv, NEW q \in Procs, pc[q] \in Reading \cup Writing
  PROVE  /\ file[q] \in Files /\ PipeOf(q) \in Pipes /\ used[PipeOf(q)]
         /\ pc[q] \in Reading => readopen[PipeOf(q)] /\ FileEnd(file[q], PipeOf(q), FALSE)
         /\ pc[q] \in Writing => writeopen[PipeOf(q)] /\ FileEnd(file[q], PipeOf(q), TRUE)
<1>1. /\ file[q] \in Files /\ type[file[q]] = "FD_PIPE"
      /\ writable[file[q]] <=> pc[q] \in Writing
      /\ writable[file[q]] \in BOOLEAN
  BY Zenon DEF IInv, CallInv, CallOK, FileTypeOK
<1>2. PipeOf(q) \in Pipes
  BY <1>1, Zenon DEF IInv, EndInv, PipeOf
<1>3. /\ pc[q] \in Reading => FileEnd(file[q], PipeOf(q), FALSE)
      /\ pc[q] \in Writing => FileEnd(file[q], PipeOf(q), TRUE)
  BY <1>1, Zenon DEF FileEnd, PipeOf, Reading, Writing
<1>4. /\ pc[q] \in Reading => readopen[PipeOf(q)]
      /\ pc[q] \in Writing => writeopen[PipeOf(q)]
  BY <1>1, <1>2, <1>3, Zenon DEF IInv, EndInv, EndOK
<1>5. used[PipeOf(q)]
  BY <1>2, <1>4, Zenon DEF IInv, EndInv
<1> QED
  BY <1>1, <1>2, <1>3, <1>4, <1>5, Zenon

-----------------------------------------------------------------------------
(* Calls on descriptors *)

\* A free entry is nobody's.
LEMMA FreeIsUnused ==
  ASSUME Counting, IInv, NEW g \in Files, ref[g] = 0
  PROVE  /\ type[g] = "FD_NONE" /\ \A q \in Procs : ~Uses(q, g)
         /\ \A q \in Procs : pc[q] \in {"pipe"} \cup Reading \cup Writing => file[q] # g
<1>h. Counting /\ FileTypeOK /\ RefsExact
  BY Zenon DEF IInv
<1>1. type[g] = "FD_NONE"
  BY Zenon DEF IInv, EndInv
<1>2. \A q \in Procs : ~Uses(q, g)
  BY UsedFile DEF IInv
<1> QED
  BY <1>1, <1>2 DEF IInv, CallInv, CallOK

\* sys_open takes an entry, for a descriptor or to close it again.
LEMMA openInv ==
  ASSUME Counting, IInv, NEW p \in Procs, open(p)
  PROVE  IInv'
<1>h. Counting /\ FileTypeOK /\ RefsExact
  BY Zenon DEF IInv
<1>1. PICK g \in Files : g = FirstFile /\ ref[g] = 0 /\ ref' = [ref EXCEPT ![g] = 1]
  BY FirstFree, Zenon DEF open
<1>2. /\ pc[p] = "user" /\ closing[p] = <<>>
      /\ UNCHANGED <<writable, fpipe, pipevars, plock, killed, file, ff, left, kills>>
  BY Zenon DEF open, CanCall, IInv, CallInv, CallOK
<1>3. \/ /\ closing' = [closing EXCEPT ![p] = <<g>>]
         /\ pc' = [pc EXCEPT ![p] = "close"] /\ UNCHANGED <<type, ofile>>
      \/ /\ \E d \in Fds : ofile[p][d] = None /\ ofile' = [ofile EXCEPT ![p][d] = g]
         /\ type' = [type EXCEPT ![g] = "FD_INODE"] /\ UNCHANGED <<closing, pc>>
  BY <1>1, FirstFree, Zenon DEF open
<1>4. /\ type[g] = "FD_NONE" /\ \A q \in Procs : ~Uses(q, g)
      /\ \A q \in Procs : pc[q] \in {"pipe"} \cup Reading \cup Writing => file[q] # g
  BY <1>1, FreeIsUnused, Zenon
<1>5. FileTypeOK'
  <2> /\ ofile \in [Procs -> [Fds -> Files \cup {None}]]
      /\ closing \in [Procs -> Seq(Files)] /\ <<g>> \in Seq(Files)
    BY ONLY <1>h DEF FileTypeOK
  <2>3. \A d \in Fds : ofile' = [ofile EXCEPT ![p][d] = g]
                         => ofile' \in [Procs -> [Fds -> Files \cup {None}]]
    OBVIOUS
  <2>4. closing' \in [Procs -> Seq(Files)]
    BY <1>3, Zenon
  <2>1. ofile' \in [Procs -> [Fds -> Files \cup {None}]]
    BY <1>3, <2>3, Zenon
  <2>2. /\ pc' \in [Procs -> Places] /\ type' \in [Files -> {"FD_NONE", "FD_PIPE", "FD_INODE"}]
        /\ ref' \in [Files -> Nat]
    BY <1>1, <1>3, Zenon DEF IInv, FileTypeOK, Places
  <2> QED
    BY <1>2, <2>1, <2>2, <2>4, Zenon DEF IInv, FileTypeOK, pipevars
<1>6. RefsExact'
  <2>1. \A f \in Files : ~Borrows(p, f)
    BY ONLY <1>2 DEF Borrows
  <2>2. CASE /\ closing' = [closing EXCEPT ![p] = <<g>>]
             /\ pc' = [pc EXCEPT ![p] = "close"] /\ UNCHANGED <<type, ofile>>
    <3>1. \A f \in Files : Borrows(p, f)' <=> f = g
      BY ONLY <2>2, <1>h DEF Borrows, FileTypeOK
    <3>2. \A f \in Files : Cardinality(Borrowers(f)') = IF f = g THEN Cardinality(Borrowers(f)) + 1
                                                       ELSE Cardinality(Borrowers(f))
      BY <1>2, <2>1, <2>2, <3>1, Borrowed, Zenon DEF IInv, FileTypeOK
    <3>3. \A f \in Files : Descriptors(f)' = Descriptors(f)
      BY <2>2, Zenon DEF Descriptors
    <3> QED
      BY ONLY <1>1, <3>2, <3>3, RefsAre, <1>h DEF RefsExact, FileTypeOK
  <2>3. CASE /\ \E d \in Fds : ofile[p][d] = None /\ ofile' = [ofile EXCEPT ![p][d] = g]
             /\ type' = [type EXCEPT ![g] = "FD_INODE"] /\ UNCHANGED <<closing, pc>>
    <3>1. \A f \in Files : Borrowers(f)' = Borrowers(f)
      BY ONLY <1>2, <2>3 DEF Borrowers
    <3>2. \A f \in Files : Cardinality(Descriptors(f)') =
            Cardinality(Descriptors(f)) + IF f = g THEN 1 ELSE 0
      BY <2>3, GiveFd, Zenon DEF IInv
    <3> QED
      BY ONLY <1>1, <3>1, <3>2, RefsAre, <1>h DEF RefsExact, FileTypeOK
  <2> QED
    BY <1>3, <2>2, <2>3, Zenon
<1>7. CallInv'
  <2>1. \A f \in Files : f # g => ref'[f] = ref[f] /\ type'[f] = type[f]
    BY <1>1, <1>3, Zenon DEF IInv, FileTypeOK
  <2>2. ASSUME NEW q \in Procs, q # p
        PROVE  /\ ofile'[q] = ofile[q] /\ closing'[q] = closing[q]
               /\ ff'[q] = ff[q] /\ file'[q] = file[q] /\ pc'[q] = pc[q]
    BY <1>2, <1>3, <2>2, Zenon DEF IInv, FileTypeOK
  <2>3. ASSUME NEW q \in Procs, q # p
        PROVE  CallOK(q)'
    <3>1. CallOK(q)
      BY Zenon DEF IInv, CallInv
    <3>2. pc[q] = "pipe" => ref'[file[q]] = ref[file[q]] /\ type'[file[q]] = type[file[q]]
      BY <1>2, <1>4, <2>1, <2>2, <2>3, <3>1 DEF CallOK
    <3>3. pc[q] \in Reading \cup Writing =>
            type'[file[q]] = type[file[q]] /\ writable'[file[q]] = writable[file[q]]
      BY <1>2, <1>4, <2>1, <2>2, <2>3, <3>1 DEF CallOK
    <3> QED
      BY <2>2, <2>3, <3>1, <3>2, <3>3, CallFrame, Zenon
  <2>4. ff'[p].pipe = None
    BY <1>2, Zenon DEF IInv, CallInv, CallOK, PipeClosing
  <2>5. CASE closing' = [closing EXCEPT ![p] = <<g>>] /\ pc' = [pc EXCEPT ![p] = "close"]
    <3>1. <<g>> \in Seq(Files) /\ <<g>> # <<>> /\ \A j, k \in DOMAIN <<g>> : <<g>>[j] = <<g>>[k] => j = k
      OBVIOUS
    <3>2. pc'[p] = "close" /\ closing'[p] = <<g>>
      BY <2>5, Zenon DEF IInv, FileTypeOK
    <3> QED
      BY <2>3, <2>4, <3>1, <3>2, CallClose, Zenon DEF CallInv
  <2>6. CASE UNCHANGED <<closing, pc>>
    <3>1. pc'[p] \in {"user", "exit"} /\ closing'[p] = <<>>
      BY <1>2, <2>6, Zenon
    <3> QED
      BY <2>3, <2>4, <3>1, CallUser, Zenon DEF CallInv
  <2> QED
    BY <1>3, <2>5, <2>6, Zenon
<1>8. EndInv'
  <2>1. \A f \in Files : /\ f # g => ref'[f] = ref[f] /\ type'[f] = type[f]
                         /\ ref'[g] = 1 /\ type'[g] # "FD_PIPE"
    BY <1>1, <1>3, <1>4, Zenon DEF IInv, FileTypeOK
  <2>2. \A f \in Files : /\ ref'[f] = 0 => type'[f] = "FD_NONE"
                         /\ type'[f] = "FD_PIPE" <=> type[f] = "FD_PIPE"
    BY <1>4, <2>1 DEF IInv, EndInv
  <2> QED
    BY <1>2, <1>4, <2>2, EndFrame, Zenon DEF IInv, pipevars
<1>9. PipeInv'
  <2>1. \A q \in Procs : \/ pc'[q] = pc[q] /\ PipeOf(q)' = PipeOf(q)
                         \/ pc[q] \notin Asleep /\ pc'[q] \notin Asleep
    BY <1>2, <1>3, Zenon DEF IInv, FileTypeOK, Asleep, PipeOf
  <2> QED
    BY <1>2, <2>1, PipeFrame, Zenon DEF IInv, PipeInv, pipevars
<1> QED
  BY <1>5, <1>6, <1>7, <1>8, <1>9, Zenon DEF IInv

\* sys_pipe has its first file.
LEMMA fileallocInv ==
  ASSUME Counting, IInv, NEW p \in Procs, filealloc(p)
  PROVE  IInv'
<1>h. Counting /\ FileTypeOK /\ RefsExact
  BY Zenon DEF IInv
<1>1. PICK g \in Files : g = FirstFile /\ ref[g] = 0
  BY FirstFree, Zenon DEF filealloc
<1>2. /\ pc[p] = "user" /\ closing[p] = <<>>
      /\ ref' = [ref EXCEPT ![g] = 1] /\ file' = [file EXCEPT ![p] = g]
      /\ pc' = [pc EXCEPT ![p] = "pipe"]
      /\ UNCHANGED <<type, writable, fpipe, pipevars, plock, ofile, killed, ff, left,
                     closing, kills>>
  BY <1>1, Zenon DEF filealloc, CanCall, IInv, CallInv, CallOK
<1>3. /\ type[g] = "FD_NONE" /\ \A q \in Procs : ~Uses(q, g)
      /\ \A q \in Procs : pc[q] \in {"pipe"} \cup Reading \cup Writing => file[q] # g
  BY <1>1, FreeIsUnused, Zenon
<1>4. /\ ref'[g] = 1 /\ \A f \in Files : f # g => ref'[f] = ref[f]
      /\ pc'[p] = "pipe" /\ file'[p] = g
      /\ \A q \in Procs : q # p => pc'[q] = pc[q] /\ file'[q] = file[q]
  BY <1>2, Zenon DEF IInv, FileTypeOK
<1>5. FileTypeOK'
  BY <1>2, Zenon DEF IInv, FileTypeOK, Places, pipevars
<1>6. RefsExact'
  <2>1. \A f \in Files : Borrows(p, f)' <=> f = g
    BY ONLY <1>2, <1>4 DEF Borrows
  <2>2. \A f \in Files : ~Borrows(p, f)
    BY ONLY <1>2 DEF Borrows
  <2>3. /\ Cardinality(Borrowers(g)') = Cardinality(Borrowers(g)) + 1
        /\ \A f \in Files : f # g => Cardinality(Borrowers(f)') = Cardinality(Borrowers(f))
    BY <1>2, <1>4, <2>1, <2>2, Borrowed, Zenon
  <2>4. \A f \in Files : Descriptors(f)' = Descriptors(f)
    BY <1>2, Zenon DEF Descriptors
  <2> QED
    BY ONLY <1>1, <1>4, <2>3, <2>4, RefsAre, <1>h DEF RefsExact
<1>7. CallInv'
  <2>1. ASSUME NEW q \in Procs, q # p
        PROVE  CallOK(q)'
    <3>1. CallOK(q)
      BY Zenon DEF IInv, CallInv
    <3>2. pc[q] = "pipe" => ref'[file[q]] = ref[file[q]] /\ type'[file[q]] = type[file[q]]
      BY <1>2, <1>3, <1>4, <2>1, <3>1 DEF CallOK
    <3>3. pc[q] \in Reading \cup Writing =>
            type'[file[q]] = type[file[q]] /\ writable'[file[q]] = writable[file[q]]
      BY <1>2, <1>3, <1>4, <2>1, <3>1 DEF CallOK
    <3> QED
      BY <1>2, <1>3, <1>4, <2>1, <3>1, <3>2, <3>3, CallFrame, Zenon
  <2>2. ff'[p].pipe = None
    BY <1>2, Zenon DEF IInv, CallInv, CallOK, PipeClosing
  <2>3. CallOK(p)'
    BY ONLY <1>2, <1>3, <1>4, <2>2 DEF CallOK, Reading, Writing, PipeClosing
  <2> QED
    BY <2>1, <2>3, Zenon DEF CallInv
<1>8. EndInv'
  <2>1. \A f \in Files : ref'[f] = 0 => type'[f] = "FD_NONE"
    <3>1. \A f \in Files : ref[f] = 0 => type[f] = "FD_NONE"
      BY Zenon DEF IInv, EndInv
    <3> QED
      BY ONLY <1>2, <1>4, <3>1
  <2> QED
    BY <1>2, <2>1, EndFrame, Zenon DEF IInv, pipevars
<1>9. PipeInv'
  <2>1. \A q \in Procs : \/ pc'[q] = pc[q] /\ PipeOf(q)' = PipeOf(q)
                         \/ pc[q] \notin Asleep /\ pc'[q] \notin Asleep
    BY <1>2, <1>4, Zenon DEF Asleep, PipeOf
  <2> QED
    BY <1>2, <2>1, PipeFrame, Zenon DEF IInv, PipeInv, pipevars
<1> QED
  BY <1>5, <1>6, <1>7, <1>8, <1>9, Zenon DEF IInv

\* The files of a pipealloc in progress are its own.
LEMMA PipeFile ==
  ASSUME Counting, IInv, NEW p \in Procs, pc[p] = "pipe"
  PROVE  /\ file[p] \in Files /\ ref[file[p]] = 1 /\ type[file[p]] = "FD_NONE"
         /\ \A q \in Procs \ {p} : ~Uses(q, file[p])
         /\ \A d \in Fds : ofile[p][d] # file[p]
         /\ \A q \in Procs : q # p /\ pc[q] \in {"pipe"} \cup Reading \cup Writing
              => file[q] # file[p]
         /\ closing[p] = <<>> /\ ff[p].pipe = None
<1>h. Counting /\ FileTypeOK /\ RefsExact
  BY Zenon DEF IInv
<1>1. /\ file[p] \in Files /\ ref[file[p]] = 1 /\ type[file[p]] = "FD_NONE"
      /\ closing[p] = <<>> /\ ff[p].pipe = None
  BY Zenon DEF IInv, CallInv, CallOK, PipeClosing
<1>2. Uses(p, file[p])
  BY Zenon DEF Uses, Borrows
<1>3. \A q \in Procs \ {p} : ~Uses(q, file[p])
  BY <1>1, <1>2, UsedFile DEF IInv
<1>4. \A q \in Procs : q # p /\ pc[q] \in {"pipe"} \cup Reading \cup Writing => file[q] # file[p]
  BY <1>3, Zenon DEF Uses, Borrows, IInv, CallInv, CallOK
<1>5. ASSUME NEW d \in Fds, ofile[p][d] = file[p]
      PROVE  FALSE
  <2>1. /\ Borrowers(file[p]) \in SUBSET Procs /\ p \in Borrowers(file[p])
        /\ Descriptors(file[p]) \in SUBSET (Procs \X Fds) /\ <<p, d>> \in Descriptors(file[p])
    BY <1>5, Zenon DEF Borrowers, Descriptors
  <2>2. /\ Cardinality(Borrowers(file[p])) - 1 \in Nat
        /\ Cardinality(Descriptors(file[p])) - 1 \in Nat
    <3>1. /\ Borrowers(file[p]) \ {p} \in SUBSET Procs
          /\ Descriptors(file[p]) \ {<<p, d>>} \in SUBSET (Procs \X Fds)
      BY <2>1, Zenon
    <3>2. /\ Cardinality(Borrowers(file[p]) \ {p}) \in Nat
          /\ Cardinality(Descriptors(file[p]) \ {<<p, d>>}) \in Nat
      BY <3>1, Zenon DEF Counting, CountProcs, CountPairs
    <3> QED
      BY <2>1, <3>2, Zenon DEF Counting, CountProcs, CountPairs
  <2>3. /\ Cardinality(Borrowers(file[p])) \in Nat /\ Cardinality(Descriptors(file[p])) \in Nat
        /\ Cardinality(Descriptors(file[p])) + Cardinality(Borrowers(file[p])) = 1
    BY <1>1, RefsAre, Zenon DEF IInv, RefsExact
  <2> QED
    BY ONLY <2>2, <2>3
<1> QED
  BY <1>1, <1>3, <1>4, <1>5, Zenon

\* A failed pipealloc closes the files it has.
LEMMA pipealloc_failsInv ==
  ASSUME Counting, IInv, NEW p \in Procs, pipealloc_fails(p)
  PROVE  IInv'
<1>h. Counting /\ FileTypeOK /\ RefsExact
  BY Zenon DEF IInv
<1>1. /\ file[p] \in Files /\ ref[file[p]] = 1 /\ type[file[p]] = "FD_NONE"
      /\ \A q \in Procs : q # p /\ pc[q] \in {"pipe"} \cup Reading \cup Writing
           => file[q] # file[p]
      /\ closing[p] = <<>> /\ ff[p].pipe = None /\ pc[p] = "pipe"
  BY PipeFile, Zenon DEF pipealloc_fails
<1>2. PICK s \in Seq(Files) :
        /\ closing' = [closing EXCEPT ![p] = s] /\ s # <<>>
        /\ \A j, k \in DOMAIN s : s[j] = s[k] => j = k
        /\ \/ ref' = ref /\ \A f \in Files : (\E k \in DOMAIN s : s[k] = f) <=> f = file[p]
           \/ \E g \in Files :
                /\ ref[g] = 0 /\ ref' = [ref EXCEPT ![g] = 1]
                /\ \A f \in Files : (\E k \in DOMAIN s : s[k] = f) <=> f \in {file[p], g}
  <2>1. CASE FreeFiles = {} /\ closing' = [closing EXCEPT ![p] = <<file[p]>>] /\ UNCHANGED ref
    <3>1. /\ <<file[p]>> \in Seq(Files) /\ <<file[p]>> # <<>> /\ DOMAIN <<file[p]>> = {1}
          /\ <<file[p]>>[1] = file[p]
      BY ONLY <1>1
    <3>2. /\ \A j, k \in DOMAIN <<file[p]>> : <<file[p]>>[j] = <<file[p]>>[k] => j = k
          /\ \A f \in Files : (\E k \in DOMAIN <<file[p]>> : <<file[p]>>[k] = f) <=> f = file[p]
      BY <3>1, Zenon
    <3> QED
      BY <2>1, <3>1, <3>2, Zenon
  <2>2. CASE /\ FreeFiles # {} /\ ref' = [ref EXCEPT ![FirstFile] = 1]
             /\ closing' = [closing EXCEPT ![p] = <<file[p], FirstFile>>]
    <3>1. FirstFile \in Files /\ ref[FirstFile] = 0 /\ FirstFile # file[p]
      BY <1>1, <2>2, FirstFree
    <3> DEFINE t == <<file[p], FirstFile>>
    <3>2. t \in Seq(Files) /\ t # <<>> /\ DOMAIN t = {1, 2} /\ t[1] = file[p] /\ t[2] = FirstFile
      BY ONLY <1>1, <3>1
    <3>3. /\ \A j, k \in DOMAIN t : t[j] = t[k] => j = k
          /\ \A f \in Files : (\E k \in DOMAIN t : t[k] = f) <=> f \in {file[p], FirstFile}
      BY <3>1, <3>2, Zenon
    <3> HIDE DEF t
    <3>4. closing' = [closing EXCEPT ![p] = t]
      BY <2>2, Zenon DEF t
    <3> QED
      BY <2>2, <3>1, <3>2, <3>3, <3>4, Zenon
  <2> QED
    BY <2>1, <2>2, Zenon DEF pipealloc_fails
<1>3. /\ pc' = [pc EXCEPT ![p] = "close"] /\ file' = [file EXCEPT ![p] = None]
      /\ UNCHANGED <<type, writable, fpipe, pipevars, plock, ofile, killed, ff, left, kills>>
  BY Zenon DEF pipealloc_fails
<1>4. /\ pc'[p] = "close" /\ closing'[p] = s
      /\ \A q \in Procs : q # p => pc'[q] = pc[q] /\ file'[q] = file[q] /\ closing'[q] = closing[q]
  BY ONLY <1>2, <1>3, <1>h DEF FileTypeOK
<1>11. \/ ref' = ref
       \/ \E g \in Files : ref[g] = 0 /\ ref' = [ref EXCEPT ![g] = 1]
  BY <1>2, Zenon
<1>12. ref \in [Files -> Nat]
  BY Zenon DEF IInv, FileTypeOK
<1>5. \A f \in Files : ref'[f] = ref[f] \/ (ref[f] = 0 /\ ref'[f] = 1)
  BY <1>11, <1>12, Zenon
<1>6. FileTypeOK'
  <2>1. ref' \in [Files -> Nat]
    BY ONLY <1>11, <1>12
  <2>2. closing' = [closing EXCEPT ![p] = s]
    BY <1>2, Zenon
  <2>3. closing' \in [Procs -> Seq(Files)]
    BY <2>2, Zenon DEF IInv, FileTypeOK
  <2> QED
    BY <1>3, <2>1, <2>3, Zenon DEF IInv, FileTypeOK, Places, pipevars
<1>7. RefsExact'
  <2>1. \A f \in Files : Borrows(p, f) <=> f = file[p]
    BY ONLY <1>1 DEF Borrows
  <2>2. \A f \in Files : Borrows(p, f)' <=> \E k \in DOMAIN s : s[k] = f
    BY <1>4, Zenon DEF Borrows
  <2>3. \A f \in Files : Descriptors(f)' = Descriptors(f)
    BY <1>3, Zenon DEF Descriptors
  <2>4. ASSUME NEW f \in Files
        PROVE  /\ (Borrows(p, f)' <=> Borrows(p, f))
                     => Cardinality(Borrowers(f)') = Cardinality(Borrowers(f))
               /\ Borrows(p, f)' /\ ~Borrows(p, f)
                     => Cardinality(Borrowers(f)') = Cardinality(Borrowers(f)) + 1
    BY <1>1, <1>4, Borrowed, Zenon
  <2>5. ASSUME NEW f \in Files
        PROVE  \/ ref'[f] = ref[f] /\ Cardinality(Borrowers(f)') = Cardinality(Borrowers(f))
               \/ /\ ref'[f] = ref[f] + 1
                  /\ Cardinality(Borrowers(f)') = Cardinality(Borrowers(f)) + 1
    <3>0. ref \in [Files -> Nat]
      BY <1>h, Zenon DEF FileTypeOK
    <3>1. CASE f = file[p]
      BY ONLY <1>1, <1>2, <2>1, <2>2, <2>4, <3>0, <3>1
    <3>2. CASE f # file[p]
      BY ONLY <1>1, <1>2, <2>1, <2>2, <2>4, <3>0, <3>2
    <3> QED
      BY <3>1, <3>2, Zenon
  <2> QED
    BY ONLY <2>3, <2>5, RefsAre, <1>h DEF RefsExact
<1>8. CallInv'
  <2>1. ASSUME NEW q \in Procs, q # p
        PROVE  CallOK(q)'
    <3>1. CallOK(q)
      BY Zenon DEF IInv, CallInv
    <3>2. pc[q] = "pipe" => ref'[file[q]] = ref[file[q]] /\ type'[file[q]] = type[file[q]]
      BY <1>3, <1>5, <3>1, Zenon DEF CallOK
    <3>3. pc[q] \in Reading \cup Writing =>
            type'[file[q]] = type[file[q]] /\ writable'[file[q]] = writable[file[q]]
      BY <1>3, Zenon
    <3> QED
      BY <1>3, <1>4, <2>1, <3>1, <3>2, <3>3, CallFrame, Zenon
  <2>2. ff'[p].pipe = None
    BY <1>1, <1>3, Zenon
  <2>3. CallOK(p)'
    BY <1>2, <1>4, <2>2, CallClose, Zenon
  <2> QED
    BY <2>1, <2>3, Zenon DEF CallInv
<1>9. EndInv'
  <2>1. \A f \in Files : ref'[f] = 0 => type'[f] = "FD_NONE"
    BY <1>3, <1>5, Zenon DEF IInv, EndInv
  <2> QED
    BY <1>3, <2>1, EndFrame, Zenon DEF IInv, pipevars
<1>10. PipeInv'
  <2>1. \A q \in Procs : \/ pc'[q] = pc[q] /\ PipeOf(q)' = PipeOf(q)
                         \/ pc[q] \notin Asleep /\ pc'[q] \notin Asleep
    BY <1>1, <1>3, <1>4, Zenon DEF Asleep, PipeOf
  <2> QED
    BY <1>3, <2>1, PipeFrame, Zenon DEF IInv, PipeInv, pipevars
<1> QED
  BY <1>6, <1>7, <1>8, <1>9, <1>10, Zenon DEF IInv

\* pipealloc makes a pipe of two files that are nobody else's.
LEMMA pipeallocInv ==
  ASSUME Counting, IInv, NEW p \in Procs, pipealloc(p)
  PROVE  IInv'
<1>h. Counting /\ FileTypeOK /\ RefsExact
  BY Zenon DEF IInv
<1>1. PICK g \in Files : g = FirstFile /\ ref[g] = 0
  BY FirstFree, Zenon DEF pipealloc
<1>2. PICK rf \in Files : rf = file[p] /\ ref[rf] = 1
  BY PipeFile, Zenon DEF pipealloc
<1>3. /\ rf # g /\ type[rf] = "FD_NONE" /\ type[g] = "FD_NONE"
      /\ \A q \in Procs : q # p /\ pc[q] \in {"pipe"} \cup Reading \cup Writing
           => file[q] \notin {rf, g}
      /\ closing[p] = <<>> /\ ff[p].pipe = None /\ pc[p] = "pipe"
      /\ \A q \in Procs : ~Uses(q, g)
  BY <1>1, <1>2, PipeFile, FreeIsUnused DEF pipealloc
<1>4. PICK i \in Pipes :
        /\ ~used[i]
        /\ used' = [used EXCEPT ![i] = TRUE]
        /\ nread' = [nread EXCEPT ![i] = 0] /\ nwrite' = [nwrite EXCEPT ![i] = 0]
        /\ readopen' = [readopen EXCEPT ![i] = TRUE]
        /\ writeopen' = [writeopen EXCEPT ![i] = TRUE]
        /\ ref' = [ref EXCEPT ![g] = 1]
        /\ type' = [type EXCEPT ![rf] = "FD_PIPE", ![g] = "FD_PIPE"]
        /\ writable' = [writable EXCEPT ![rf] = FALSE, ![g] = TRUE]
        /\ fpipe' = [fpipe EXCEPT ![rf] = i, ![g] = i]
        /\ \/ /\ closing' = [closing EXCEPT ![p] = <<rf, g>>]
              /\ pc' = [pc EXCEPT ![p] = "close"] /\ UNCHANGED ofile
           \/ /\ ~(Cardinality(FreeFds(p)) < 2)
              /\ ofile' = [ofile EXCEPT ![p][FirstFd(p)] = rf,
                                        ![p][Min(FreeFds(p) \ {FirstFd(p)})] = g]
              /\ pc' = [pc EXCEPT ![p] = "user"] /\ UNCHANGED closing
  BY <1>1, <1>2, Zenon DEF pipealloc
<1>5. /\ file' = [file EXCEPT ![p] = None]
      /\ UNCHANGED <<data, plock, killed, ff, left, kills>>
  BY Zenon DEF pipealloc
<1>6. \/ /\ closing' = [closing EXCEPT ![p] = <<rf, g>>]
         /\ pc' = [pc EXCEPT ![p] = "close"] /\ UNCHANGED ofile
      \/ /\ \E d, e \in Fds : /\ d # e /\ ofile[p][d] = None /\ ofile[p][e] = None
                              /\ ofile' = [ofile EXCEPT ![p][d] = rf, ![p][e] = g]
         /\ pc' = [pc EXCEPT ![p] = "user"] /\ UNCHANGED closing
  <2>1. ASSUME ~(Cardinality(FreeFds(p)) < 2)
        PROVE  /\ FirstFd(p) \in FreeFds(p)
               /\ Min(FreeFds(p) \ {FirstFd(p)}) \in FreeFds(p) \ {FirstFd(p)}
    <3>1. FreeFds(p) \in SUBSET Fds /\ FreeFds(p) \in SUBSET Nat
      BY Consts, Zenon DEF FreeFds
    <3>2. FreeFds(p) # {}
      BY <2>1, <3>1, Zenon DEF Counting, CountFds
    <3>3. FirstFd(p) \in FreeFds(p)
      BY <3>1, <3>2, Zenon DEF Counting, Extremes, FirstFd
    <3>4. FreeFds(p) \ {FirstFd(p)} # {} /\ FreeFds(p) \ {FirstFd(p)} \in SUBSET Nat
      BY <2>1, <3>1, <3>3, Zenon DEF Counting, CountFds
    <3> QED
      BY <3>3, <3>4, Zenon DEF Counting, Extremes
  <2>2. ~(Cardinality(FreeFds(p)) < 2) =>
          LET d == FirstFd(p) e == Min(FreeFds(p) \ {FirstFd(p)}) IN
          d \in Fds /\ e \in Fds /\ d # e /\ ofile[p][d] = None /\ ofile[p][e] = None
    BY <2>1, Zenon DEF FreeFds
  <2> QED
    BY <1>4, <2>2, Zenon
<1>7. /\ ref'[g] = 1 /\ ref'[rf] = 1 /\ \A f \in Files : f # g => ref'[f] = ref[f]
      /\ \A f \in Files : f \notin {rf, g} =>
           type'[f] = type[f] /\ writable'[f] = writable[f] /\ fpipe'[f] = fpipe[f]
      /\ type'[rf] = "FD_PIPE" /\ fpipe'[rf] = i /\ writable'[rf] = FALSE
      /\ type'[g] = "FD_PIPE" /\ fpipe'[g] = i /\ writable'[g] = TRUE
  BY <1>2, <1>3, <1>4, Zenon DEF IInv, FileTypeOK
<1>8. /\ \A j \in Pipes : j # i => /\ used'[j] = used[j] /\ nread'[j] = nread[j]
                                  /\ nwrite'[j] = nwrite[j]
                                  /\ readopen'[j] = readopen[j] /\ writeopen'[j] = writeopen[j]
      /\ used'[i] /\ nread'[i] = 0 /\ nwrite'[i] = 0 /\ readopen'[i] /\ writeopen'[i]
  BY <1>4, <1>h, Zenon DEF FileTypeOK
<1>9. /\ \A q \in Procs : q # p => /\ file'[q] = file[q] /\ pc'[q] = pc[q] /\ ff'[q] = ff[q]
                                  /\ ofile'[q] = ofile[q] /\ closing'[q] = closing[q]
      /\ \/ closing'[p] = <<rf, g>> /\ pc'[p] = "close"
         \/ closing'[p] = <<>> /\ pc'[p] = "user"
  BY <1>3, <1>5, <1>6, <1>h, Zenon DEF FileTypeOK
<1>10. FileTypeOK'
  <2>1. /\ ref' \in [Files -> Nat] /\ type' \in [Files -> {"FD_NONE", "FD_PIPE", "FD_INODE"}]
        /\ writable' \in [Files -> BOOLEAN] /\ fpipe' \in [Files -> Pipes \cup {None}]
    BY <1>4, Zenon DEF IInv, FileTypeOK
  <2>2. /\ used' \in [Pipes -> BOOLEAN]
        /\ nread' \in [Pipes -> 0 .. WRAP - 1] /\ nwrite' \in [Pipes -> 0 .. WRAP - 1]
        /\ readopen' \in [Pipes -> BOOLEAN] /\ writeopen' \in [Pipes -> BOOLEAN]
    <3>1. 0 \in 0 .. WRAP - 1
      BY ONLY Consts
    <3> QED
      BY <1>4, <1>h, <3>1, Zenon DEF FileTypeOK
  <2>3. /\ ofile \in [Procs -> [Fds -> Files \cup {None}]] /\ pc \in [Procs -> Places]
        /\ closing \in [Procs -> Seq(Files)] /\ <<rf, g>> \in Seq(Files)
    BY ONLY <1>h DEF FileTypeOK
  <2>4. pc' \in [Procs -> Places] /\ closing' \in [Procs -> Seq(Files)]
    BY <1>6, <2>3, Zenon DEF Places
  <2>5. ofile' \in [Procs -> [Fds -> Files \cup {None}]]
    <3>1. \A d, e \in Fds : /\ d # e /\ ofile[p][d] = None /\ ofile[p][e] = None
                            /\ ofile' = [ofile EXCEPT ![p][d] = rf, ![p][e] = g]
            => ofile' \in [Procs -> [Fds -> Files \cup {None}]]
      <4> TAKE d, e \in Fds
      <4> HAVE /\ d # e /\ ofile[p][d] = None /\ ofile[p][e] = None
               /\ ofile' = [ofile EXCEPT ![p][d] = rf, ![p][e] = g]
      <4> QED
        BY <2>3, Zenon
    <3> QED
      BY <1>6, <2>3, <3>1, Zenon
  <2> QED
    BY <1>5, <2>1, <2>2, <2>4, <2>5, Zenon DEF IInv, FileTypeOK
<1>11. RefsExact'
  <2>1. \A f \in Files : Borrows(p, f) <=> f = rf
    BY ONLY <1>2, <1>3 DEF Borrows
  <2>2. CASE /\ closing' = [closing EXCEPT ![p] = <<rf, g>>]
             /\ pc' = [pc EXCEPT ![p] = "close"] /\ UNCHANGED ofile
    <3>1. closing'[p] = <<rf, g>> /\ pc'[p] = "close"
      BY <2>2, Zenon DEF IInv, FileTypeOK
    <3>2. \A f \in Files : Borrows(p, f)' <=> f \in {rf, g}
      BY ONLY <3>1 DEF Borrows
    <3>3. /\ Cardinality(Borrowers(g)') = Cardinality(Borrowers(g)) + 1
          /\ \A f \in Files : f # g => Cardinality(Borrowers(f)') = Cardinality(Borrowers(f))
      BY <1>3, <1>9, <2>1, <3>2, Borrowed, Zenon
    <3>4. \A f \in Files : Descriptors(f)' = Descriptors(f)
      BY <2>2, Zenon DEF Descriptors
    <3>5. ASSUME NEW f \in Files
          PROVE  ref'[f] = Cardinality(Descriptors(f)') + Cardinality(Borrowers(f)')
      <4>1. CASE f = g
        BY ONLY <1>1, <1>7, <3>3, <3>4, <4>1, RefsAre, <1>h DEF RefsExact
      <4>2. CASE f # g
        BY ONLY <1>7, <3>3, <3>4, <4>2, RefsAre, <1>h DEF RefsExact
      <4> QED
        BY <4>1, <4>2, Zenon
    <3> QED
      BY <3>5, Zenon DEF RefsExact
  <2>3. CASE /\ \E d, e \in Fds : /\ d # e /\ ofile[p][d] = None /\ ofile[p][e] = None
                                  /\ ofile' = [ofile EXCEPT ![p][d] = rf, ![p][e] = g]
             /\ pc' = [pc EXCEPT ![p] = "user"] /\ UNCHANGED closing
    <3>1. closing'[p] = <<>> /\ pc'[p] = "user"
      BY <1>3, <2>3, Zenon DEF IInv, FileTypeOK
    <3>2. \A f \in Files : ~Borrows(p, f)'
      BY ONLY <3>1 DEF Borrows
    <3>3. /\ Cardinality(Borrowers(rf)') = Cardinality(Borrowers(rf)) - 1
          /\ \A f \in Files : f # rf => Cardinality(Borrowers(f)') = Cardinality(Borrowers(f))
      BY <1>9, <2>1, <3>2, Borrowed, Zenon
    <3>4. /\ Cardinality(Descriptors(rf)') = Cardinality(Descriptors(rf)) + 1
          /\ Cardinality(Descriptors(g)') = Cardinality(Descriptors(g)) + 1
          /\ \A f \in Files : f \notin {rf, g} => Descriptors(f)' = Descriptors(f)
      <4>1. PICK d \in Fds, e \in Fds : /\ d # e /\ ofile[p][d] = None /\ ofile[p][e] = None
                                        /\ ofile' = [ofile EXCEPT ![p][d] = rf, ![p][e] = g]
        BY <2>3, Zenon
      <4>2. ofile \in [Procs -> [Fds -> Files \cup {None}]]
        BY Zenon DEF IInv, FileTypeOK
      <4>3. /\ ofile'[p][d] = rf /\ ofile'[p][e] = g /\ rf # None /\ g # None
            /\ \A q \in Procs, c \in Fds : <<q, c>> \notin {<<p, d>>, <<p, e>>} => ofile'[q][c] = ofile[q][c]
        BY <4>1, <4>2, Consts, Zenon
      <4>4. ASSUME NEW f \in Files
            PROVE  Descriptors(f)' = IF f = rf THEN Descriptors(f) \cup {<<p, d>>}
                                     ELSE IF f = g THEN Descriptors(f) \cup {<<p, e>>}
                                     ELSE Descriptors(f)
        BY ONLY <1>3, <4>1, <4>2, <4>3, Consts DEF Descriptors
      <4>5. \A f \in Files : Descriptors(f) \in SUBSET (Procs \X Fds)
        BY Zenon DEF Descriptors
      <4>6. /\ <<p, d>> \in (Procs \X Fds) \ Descriptors(rf)
            /\ <<p, e>> \in (Procs \X Fds) \ Descriptors(g)
        BY <4>1, <4>3, Zenon DEF Descriptors
      <4>7. /\ Cardinality(Descriptors(rf) \cup {<<p, d>>}) = Cardinality(Descriptors(rf)) + 1
            /\ Cardinality(Descriptors(g) \cup {<<p, e>>}) = Cardinality(Descriptors(g)) + 1
        BY <4>5, <4>6, Zenon DEF Counting, CountPairs
      <4>8. /\ Descriptors(rf)' = Descriptors(rf) \cup {<<p, d>>}
            /\ Descriptors(g)' = Descriptors(g) \cup {<<p, e>>}
            /\ \A f \in Files : f \notin {rf, g} => Descriptors(f)' = Descriptors(f)
        BY <1>3, <4>4, Zenon
      <4> QED
        BY <4>7, <4>8, Zenon
    <3>5. ASSUME NEW f \in Files
          PROVE  ref'[f] = Cardinality(Descriptors(f)') + Cardinality(Borrowers(f)')
      <4>h. /\ Cardinality(Descriptors(f)) \in Nat /\ Cardinality(Borrowers(f)) \in Nat
            /\ ref[f] = Cardinality(Descriptors(f)) + Cardinality(Borrowers(f))
        BY <1>h, RefsAre, Zenon DEF RefsExact
      <4>1. CASE f = g
        BY ONLY <1>1, <1>3, <1>7, <3>3, <3>4, <4>1, <4>h
      <4>2. CASE f = rf
        BY ONLY <1>2, <1>7, <3>3, <3>4, <4>2, <4>h
      <4>3. CASE f \notin {rf, g}
        BY ONLY <1>7, <3>3, <3>4, <4>3, <4>h
      <4> QED
        BY <4>1, <4>2, <4>3, Zenon
    <3> QED
      BY <3>5, Zenon DEF RefsExact
  <2> QED
    BY <1>6, <2>2, <2>3, Zenon
<1>12. CallInv'
  <2>1. ASSUME NEW q \in Procs, q # p
        PROVE  CallOK(q)'
    <3>1. CallOK(q)
      BY Zenon DEF IInv, CallInv
    <3>2. pc[q] \in {"pipe"} \cup Reading \cup Writing => file[q] \in Files \ {rf, g}
      BY <1>3, <2>1, <3>1, Zenon DEF CallOK
    <3> QED
      BY <1>7, <1>9, <2>1, <3>1, <3>2, CallFrame, Zenon
  <2>2. ff'[p].pipe = None
    BY <1>3, <1>5, Zenon
  <2>3. CallOK(p)'
    <3> DEFINE t == <<rf, g>>
    <3>1. /\ t \in Seq(Files) /\ t # <<>>
          /\ \A j, k \in DOMAIN t : t[j] = t[k] => j = k
      BY ONLY <1>3
    <3>2. \/ closing'[p] = t /\ pc'[p] = "close"
          \/ closing'[p] = <<>> /\ pc'[p] \in {"user", "exit"}
      BY <1>9, Zenon
    <3> HIDE DEF t
    <3> QED
      BY <2>2, <3>1, <3>2, CallClose, CallUser, Zenon
  <2> QED
    BY <2>1, <2>3, Zenon DEF CallInv
<1>13. EndInv'
  <2>1. ~readopen[i] /\ ~writeopen[i]
    BY <1>4, Zenon DEF IInv, EndInv
  <2>2. \A w \in BOOLEAN : /\ \A f \in Files : ~FileEnd(f, i, w)
                          /\ \A q \in Procs : ~CloseEnd(q, i, w)
    <3>1. EndOK(i, TRUE) /\ EndOK(i, FALSE)
      BY Zenon DEF IInv, EndInv
    <3>2. /\ \A f \in Files : ~FileEnd(f, i, TRUE) /\ ~FileEnd(f, i, FALSE)
          /\ \A q \in Procs : ~CloseEnd(q, i, TRUE) /\ ~CloseEnd(q, i, FALSE)
      BY <2>1, <3>1, Zenon DEF EndOK
    <3> QED
      BY <3>2, Zenon
  <2>3. \A q \in Procs, j \in Pipes, w \in BOOLEAN : CloseEnd(q, j, w)' <=> CloseEnd(q, j, w)
    BY <1>5, Zenon DEF CloseEnd
  <2>4. /\ \A f \in Files \ {rf, g}, j \in Pipes, w \in BOOLEAN : FileEnd(f, j, w)' <=> FileEnd(f, j, w)
        /\ \A j \in Pipes : /\ FileEnd(rf, j, FALSE)' <=> j = i
                            /\ FileEnd(g, j, TRUE)' <=> j = i
                            /\ ~FileEnd(rf, j, TRUE)' /\ ~FileEnd(g, j, FALSE)'
    BY <1>7, Zenon DEF FileEnd
  <2>5. \A j \in Pipes, w \in BOOLEAN : ~FileEnd(rf, j, w) /\ ~FileEnd(g, j, w)
    BY <1>3, Zenon DEF FileEnd
  <2>6. EndOK(i, FALSE)' /\ EndOK(i, TRUE)'
    <3>1. /\ \A f \in Files : FileEnd(f, i, FALSE)' <=> f = rf
          /\ \A f \in Files : FileEnd(f, i, TRUE)' <=> f = g
          /\ \A q \in Procs, w \in BOOLEAN : ~CloseEnd(q, i, w)'
      BY <1>3, <2>2, <2>3, <2>4, Zenon
    <3>2. EndOK(i, FALSE)'
      BY ONLY <1>3, <1>8, <3>1, Zenon DEF EndOK
    <3>3. EndOK(i, TRUE)'
      BY ONLY <1>3, <1>8, <3>1, Zenon DEF EndOK
    <3> QED
      BY ONLY <3>2, <3>3, Zenon
  <2>7. ASSUME NEW j \in Pipes, j # i
        PROVE  /\ EndOK(j, FALSE)' /\ EndOK(j, TRUE)'
               /\ used'[j] <=> readopen'[j] \/ writeopen'[j]
    <3>1. /\ EndOK(j, TRUE) /\ EndOK(j, FALSE) /\ (used[j] <=> readopen[j] \/ writeopen[j])
      BY Zenon DEF IInv, EndInv
    <3>2. \A f \in Files, w \in BOOLEAN : FileEnd(f, j, w)' <=> FileEnd(f, j, w)
      BY <2>4, <2>5, <2>7, Zenon
    <3>3. EndOK(j, FALSE)' /\ EndOK(j, TRUE)'
      BY <1>8, <2>3, <2>7, <3>1, <3>2, Zenon DEF EndOK
    <3> QED
      BY <1>8, <2>7, <3>1, <3>3, Zenon
  <2>8. \A f \in Files : /\ ref'[f] = 0 => type'[f] = "FD_NONE"
                         /\ type'[f] = "FD_PIPE" => fpipe'[f] \in Pipes
    BY <1>7 DEF IInv, EndInv
  <2> QED
    BY <1>8, <2>6, <2>7, <2>8, Zenon DEF EndInv
<1>14. PipeInv'
  <2>1. \A j \in Pipes : Count(j)' = IF j = i THEN 0 ELSE Count(j)
    BY ONLY <1>8, Consts DEF Count
  <2>2. \A j \in Pipes : Count(j)' <= PIPESIZE
    BY <2>1, Consts DEF IInv, PipeInv
  <2>3. ASSUME NEW q \in Procs
        PROVE  \/ /\ pc'[q] = pc[q] /\ PipeOf(q)' = PipeOf(q)
                  /\ pc[q] \in Asleep =>
                       /\ Count(PipeOf(q))' = Count(PipeOf(q))
                       /\ readopen'[PipeOf(q)] = readopen[PipeOf(q)]
                       /\ writeopen'[PipeOf(q)] = writeopen[PipeOf(q)]
               \/ pc[q] \notin Asleep /\ pc'[q] \notin Asleep
    <3>1. CASE pc[q] \notin Asleep
      BY <1>3, <1>9, <3>1, Zenon DEF Asleep
    <3>2. CASE pc[q] \in Asleep
      <4>1. q # p /\ pc[q] \in Reading \cup Writing
        BY <1>3, <3>2, Zenon DEF Asleep, Reading, Writing
      <4>2. PipeOf(q) \in Pipes /\ used[PipeOf(q)] /\ file[q] \in Files \ {rf, g}
        BY <1>3, <4>1, CallEnd, Zenon
      <4>3. pc'[q] = pc[q] /\ PipeOf(q)' = PipeOf(q)
        BY ONLY <1>7, <1>9, <4>1, <4>2 DEF PipeOf
      <4>4. PipeOf(q) # i
        BY <1>4, <4>2, Zenon
      <4> QED
        BY <1>8, <4>2, <4>3, <4>4, Zenon DEF Count
    <3> QED
      BY <3>1, <3>2, Zenon
  <2> QED
    BY <1>5, <2>2, <2>3, SleepFrame, Zenon DEF IInv, PipeInv
<1> QED
  BY <1>10, <1>11, <1>12, <1>13, <1>14, Zenon DEF IInv

\* dup gives a file one more descriptor.
LEMMA dupInv ==
  ASSUME Counting, IInv, NEW p \in Procs, NEW d \in Fds, dup(p, d)
  PROVE  IInv'
<1>h. Counting /\ FileTypeOK /\ RefsExact
  BY Zenon DEF IInv
<1>1. PICK g \in Files : g = ofile[p][d]
  BY DEF dup, IInv, FileTypeOK
<1>2. PICK e \in Fds : ofile[p][e] = None /\ ofile' = [ofile EXCEPT ![p][e] = g]
  BY <1>1, FirstFree, Zenon DEF dup
<1>3. /\ pc[p] = "user" /\ ref' = [ref EXCEPT ![g] = @ + 1]
      /\ UNCHANGED <<type, writable, fpipe, pipevars, plock, killed, pc, file, ff, left,
                     closing, kills>>
  BY <1>1, Zenon DEF dup, CanCall
<1>4. /\ ref'[g] = ref[g] + 1 /\ \A f \in Files : f # g => ref'[f] = ref[f]
      /\ \A q \in Procs : q # p => ofile'[q] = ofile[q]
  BY <1>2, <1>3, Zenon DEF IInv, FileTypeOK
<1>5. FileTypeOK'
  <2>1. ofile \in [Procs -> [Fds -> Files \cup {None}]]
    BY Zenon DEF IInv, FileTypeOK
  <2>2. ofile' \in [Procs -> [Fds -> Files \cup {None}]]
    BY <1>2, <2>1, Zenon
  <2>3. ref' \in [Files -> Nat]
    BY ONLY <1>3, <1>h DEF FileTypeOK
  <2> QED
    BY <1>3, <2>2, <2>3, Zenon DEF IInv, FileTypeOK, pipevars
<1>6. RefsExact'
  <2>1. \A f \in Files : Borrowers(f)' = Borrowers(f)
    BY <1>3, Zenon DEF Borrowers
  <2>2. \A f \in Files : Cardinality(Descriptors(f)') =
          Cardinality(Descriptors(f)) + IF f = g THEN 1 ELSE 0
    BY <1>2, GiveFd, Zenon DEF IInv
  <2> QED
    BY ONLY <1>4, <2>1, <2>2, RefsAre, <1>h DEF RefsExact
<1>7. CallInv'
  <2>1. Uses(p, g)
    BY <1>1, Zenon DEF Uses
  <2>2. ASSUME NEW q \in Procs, q # p
        PROVE  CallOK(q)'
    <3>1. CallOK(q)
      BY Zenon DEF IInv, CallInv
    <3>2. pc[q] = "pipe" => file[q] # g
      BY <2>1, <2>2, PipeFile, Zenon
    <3>3. pc[q] = "pipe" => ref'[file[q]] = ref[file[q]]
      BY <1>4, <3>1, <3>2, Zenon DEF CallOK
    <3> QED
      BY <1>3, <1>4, <2>2, <3>1, <3>3, CallFrame, Zenon
  <2>3. ff'[p].pipe = None /\ pc'[p] \in {"user", "exit"} /\ closing'[p] = <<>>
    BY <1>3, Zenon DEF IInv, CallInv, CallOK, PipeClosing
  <2>4. CallOK(p)'
    BY <2>3, CallUser, Zenon
  <2> QED
    BY <2>2, <2>4, Zenon DEF CallInv
<1>8. EndInv'
  <2>1. \A f \in Files : ref'[f] = 0 => type'[f] = "FD_NONE"
    <3>1. \A f \in Files : ref[f] = 0 => type[f] = "FD_NONE"
      BY Zenon DEF IInv, EndInv
    <3> QED
      BY ONLY <1>3, <1>4, <1>h, <3>1 DEF FileTypeOK
  <2> QED
    BY <1>3, <2>1, EndFrame, Zenon DEF IInv, pipevars
<1>9. PipeInv'
  <2>1. \A q \in Procs : pc'[q] = pc[q] /\ PipeOf(q)' = PipeOf(q)
    BY <1>3, Zenon DEF PipeOf
  <2> QED
    BY <1>3, <2>1, PipeFrame, Zenon DEF IInv, PipeInv, pipevars
<1> QED
  BY <1>5, <1>6, <1>7, <1>8, <1>9 DEF IInv

\* fork gives the child a reference to each of the parent's files.
LEMMA forkInv ==
  ASSUME Counting, IInv, NEW p \in Procs, NEW q \in Procs, fork(p, q)
  PROVE  IInv'
<1>h. Counting /\ FileTypeOK /\ RefsExact
  BY Zenon DEF IInv
<1>1. /\ pc[p] = "user" /\ pc[q] = "unused" /\ p # q
      /\ ofile' = [ofile EXCEPT ![q] = ofile[p]]
      /\ ref' = [f \in Files |-> ref[f] + Shares(p, f)]
      /\ pc' = [pc EXCEPT ![q] = "user"]
      /\ killed' = [killed EXCEPT ![q] = FALSE]
      /\ UNCHANGED <<type, writable, fpipe, pipevars, plock, file, ff, left, closing, kills>>
  BY Zenon DEF fork, CanCall
<1>2. /\ ofile'[q] = ofile[p] /\ pc'[q] = "user"
      /\ \A r \in Procs : r # q => ofile'[r] = ofile[r] /\ pc'[r] = pc[r]
      /\ \A r \in Procs : killed'[r] => killed[r]
  BY <1>1, Zenon DEF IInv, FileTypeOK
<1>3. \A f \in Files : /\ Shares(p, f) \in Nat /\ ref'[f] = ref[f] + Shares(p, f)
                       /\ {d \in Fds : ofile[p][d] = f} \in SUBSET Fds
  <2>1. \A f \in Files : {d \in Fds : ofile[p][d] = f} \in SUBSET Fds
    BY Zenon
  <2>2. \A f \in Files : Shares(p, f) \in Nat
    BY <2>1, Zenon DEF Counting, CountFds, Shares
  <2> QED
    BY <1>1, <2>1, <2>2, Zenon
<1>4. closing[q] = <<>> /\ ff[q].pipe = None /\ \A d \in Fds : ofile[q][d] = None
  BY <1>1, Zenon DEF IInv, CallInv, CallOK, PipeClosing
<1>5. FileTypeOK'
  <2>1. ref \in [Files -> Nat]
    BY Zenon DEF IInv, FileTypeOK
  <2>2. ref' \in [Files -> Nat]
    BY ONLY <1>1, <1>3, <2>1
  <2>3. /\ ofile' \in [Procs -> [Fds -> Files \cup {None}]] /\ pc' \in [Procs -> Places]
        /\ killed' \in [Procs -> BOOLEAN]
    BY <1>1, Zenon DEF IInv, FileTypeOK, Places
  <2> QED
    BY <1>1, <2>2, <2>3, Zenon DEF IInv, FileTypeOK, pipevars
<1>6. RefsExact'
  <2>1. \A f \in Files : Borrowers(f)' = Borrowers(f)
    BY <1>1, <1>2, Zenon DEF Borrowers
  <2>2. ASSUME NEW f \in Files
        PROVE  Cardinality(Descriptors(f)') = Cardinality(Descriptors(f)) + Shares(p, f)
    <3> DEFINE E == {d \in Fds : ofile[p][d] = f}
    <3> DEFINE T == {x \in Procs \X Fds : x[1] = q /\ x[2] \in E}
    <3>1. Descriptors(f)' = Descriptors(f) \cup T
      <4>1. \A r \in Procs, d \in Fds : ofile'[r][d] = f <=> ofile[r][d] = f \/ (r = q /\ d \in E)
        BY ONLY <1>2, <1>4, Consts
      <4>2. \A x \in Procs \X Fds : x[1] \in Procs /\ x[2] \in Fds
        BY Zenon
      <4> HIDE DEF E
      <4> QED
        BY ONLY <4>1, <4>2 DEF Descriptors
    <3>5. /\ T \in SUBSET (Procs \X Fds)
          /\ FdsOf(T, q, E)
      BY Zenon DEF FdsOf
    <3>2. /\ Descriptors(f) \in SUBSET (Procs \X Fds) /\ E \in SUBSET Fds
          /\ Descriptors(f) \cap T = {}
      BY <1>4, Consts, Zenon DEF Descriptors
    <3>3. Shares(p, f) = Cardinality(E)
      BY Zenon DEF Shares
    <3> HIDE DEF E, T
    <3>4. Cardinality(Descriptors(f) \cup T) = Cardinality(Descriptors(f)) + Cardinality(E)
      BY <3>2, <3>5, Zenon DEF Counting, CountUnion
    <3> QED
      BY <3>1, <3>3, <3>4, Zenon
  <2>3. \A f \in Files : ref[f] \in Nat
    BY Zenon DEF IInv, FileTypeOK
  <2> QED
    BY ONLY <1>3, <2>1, <2>2, <2>3, RefsAre, <1>h DEF RefsExact
<1>7. CallInv'
  <2>1. ASSUME NEW r \in Procs, r # q
        PROVE  CallOK(r)'
    <3>1. CallOK(r)
      BY Zenon DEF IInv, CallInv
    <3>2. ASSUME pc[r] = "pipe"
          PROVE  ref'[file[r]] = ref[file[r]]
      <4>1. PICK f \in Files : f = file[r] /\ \A d \in Fds : ofile[p][d] # f
        BY <1>1, <3>2, PipeFile DEF Uses
      <4>2. \A c \in Procs, d \in Fds : ofile'[c][d] = f <=> ofile[c][d] = f
        BY <1>2, <1>4, <4>1, Consts, Zenon
      <4>3. Descriptors(f)' = Descriptors(f)
        BY <4>2, Zenon DEF Descriptors
      <4>4. Borrowers(f)' = Borrowers(f)
        BY <1>1, <1>2, Zenon DEF Borrowers
      <4> QED
        BY <1>6, <4>1, <4>3, <4>4, Zenon DEF RefsExact, IInv
    <3> QED
      BY <1>1, <1>2, <2>1, <3>1, <3>2, CallFrame, Zenon
  <2>2. ff'[q].pipe = None /\ pc'[q] \in {"user", "exit"} /\ closing'[q] = <<>>
    BY <1>1, <1>2, <1>4, Zenon
  <2>3. CallOK(q)'
    BY <2>2, CallUser, Zenon
  <2> QED
    BY <2>1, <2>3, Zenon DEF CallInv
<1>8. EndInv'
  <2>1. \A f \in Files : ref'[f] = 0 => type'[f] = "FD_NONE"
    BY <1>1, <1>3 DEF IInv, EndInv, FileTypeOK
  <2> QED
    BY <1>1, <2>1, EndFrame, Zenon DEF IInv, pipevars
<1>9. PipeInv'
  <2>1. \A r \in Procs : \/ pc'[r] = pc[r] /\ PipeOf(r)' = PipeOf(r)
                         \/ pc[r] \notin Asleep /\ pc'[r] \notin Asleep
    BY <1>1, <1>2, Zenon DEF PipeOf, Asleep
  <2> QED
    BY <1>1, <1>2, <2>1, PipeFrame, Zenon DEF IInv, PipeInv, pipevars
<1> QED
  BY <1>5, <1>6, <1>7, <1>8, <1>9, Zenon DEF IInv

-----------------------------------------------------------------------------
(* Closing files *)

\* Where fileclose leaves a process.
LEMMA ClosePc ==
  ASSUME IInv, NEW p \in Procs, NEW f \in Files, NEW how \in {"close", "exit"}, NEW more \in BOOLEAN,
         fileclose(p, f, how, more)
  PROVE  /\ pc'[p] \in {"unused", "user", "close", "exit", "pipeclose", "exitclose"}
         /\ \A q \in Procs : q # p => pc'[q] = pc[q] /\ ff'[q] = ff[q]
         /\ file' = file /\ pc' \in [Procs -> Places]
<1> DEFINE Left == {"unused", "user", "close", "exit", "pipeclose", "exitclose"}
<1>1. \E x \in Left : pc' = [pc EXCEPT ![p] = x]
  BY Zenon DEF fileclose, AfterClose
<1>2. Left \subseteq Places
  BY Zenon DEF Places, PipeClosing
<1>3. pc \in [Procs -> Places] /\ ff \in [Procs -> [pipe : Pipes \cup {None}, writable : BOOLEAN]]
  BY Zenon DEF IInv, FileTypeOK
<1> HIDE DEF Left
<1>4. pc' \in [Procs -> Places] /\ pc'[p] \in Left /\ \A q \in Procs : q # p => pc'[q] = pc[q]
  BY <1>1, <1>2, <1>3, Zenon
<1>5. file' = file /\ \A q \in Procs : q # p => ff'[q] = ff[q]
  BY <1>3, Zenon DEF fileclose
<1> QED
  BY <1>4, <1>5, Zenon DEF Left

\* What the callers of fileclose do besides: they take a use of f away from p,
\* a descriptor or the head of its list.
GivesUp(p, f, how, more) ==
  /\ \A h \in Files : /\ Cardinality(Descriptors(h)') \in Nat
                      /\ Cardinality(Borrowers(h)') \in Nat
                      /\ Cardinality(Descriptors(h)') + Cardinality(Borrowers(h)') =
                           IF h = f THEN ref[h] - 1 ELSE ref[h]
  /\ ofile' \in [Procs -> [Fds -> Files \cup {None}]] /\ closing' \in [Procs -> Seq(Files)]
  /\ \A q \in Procs : q # p => ofile'[q] = ofile[q] /\ closing'[q] = closing[q]
  /\ \A j, k \in DOMAIN closing'[p] : closing'[p][j] = closing'[p][k] => j = k
  /\ how = "exit" => closing'[p] = <<>> /\ (~more => \A d \in Fds : ofile'[p][d] = None)
  /\ how = "close" => (more <=> closing'[p] # <<>>)

\* fileclose of a file that p uses.
LEMMA filecloseInv ==
  ASSUME Counting, IInv, NEW p \in Procs, NEW f \in Files,
         NEW how \in {"close", "exit"}, NEW more \in BOOLEAN, fileclose(p, f, how, more),
         Uses(p, f), pc[p] \in {"user", "close", "exit"}, GivesUp(p, f, how, more)
  PROVE  IInv'
<1>h. Counting /\ FileTypeOK /\ RefsExact
  BY Zenon DEF IInv
<1>1. /\ ref' = [ref EXCEPT ![f] = @ - 1] /\ ref[f] \in Nat /\ ref[f] >= 1
      /\ \A q \in Procs \ {p} : Uses(q, f) => ref[f] >= 2
      /\ UNCHANGED <<pipevars, plock, killed, file, left, kills>>
  BY UsedFile, Zenon DEF fileclose, IInv, FileTypeOK
<1>2. /\ ref'[f] = ref[f] - 1 /\ \A h \in Files : h # f => ref'[h] = ref[h]
  BY <1>1, Zenon DEF IInv, FileTypeOK
<1>3. /\ \A h \in Files : h # f =>
           type'[h] = type[h] /\ writable'[h] = writable[h] /\ fpipe'[h] = fpipe[h]
      /\ ref[f] > 1 => type'[f] = type[f] /\ writable'[f] = writable[f] /\ fpipe'[f] = fpipe[f]
      /\ ref[f] = 1 => type'[f] = "FD_NONE"
  BY <1>1 DEF fileclose, IInv, FileTypeOK
<1>4. /\ pc'[p] \in {"unused", "user", "close", "exit", "pipeclose", "exitclose"}
      /\ \A q \in Procs : q # p => pc'[q] = pc[q] /\ ff'[q] = ff[q]
      /\ file' = file /\ pc' \in [Procs -> Places]
  BY ClosePc, Zenon
<1>5. ff[p].pipe = None
  BY Zenon DEF IInv, CallInv, CallOK, PipeClosing
<1>6. \A q \in Procs : q # p /\ pc[q] \in Reading \cup Writing =>
        /\ file[q] \in Files /\ type'[file[q]] = type[file[q]]
        /\ writable'[file[q]] = writable[file[q]] /\ fpipe'[file[q]] = fpipe[file[q]]
  <2> SUFFICES ASSUME NEW q \in Procs, q # p, pc[q] \in Reading \cup Writing
               PROVE  /\ file[q] \in Files /\ type'[file[q]] = type[file[q]]
                      /\ writable'[file[q]] = writable[file[q]] /\ fpipe'[file[q]] = fpipe[file[q]]
    BY Zenon
  <2>1. file[q] \in Files /\ Uses(q, file[q])
    BY Zenon DEF IInv, CallInv, CallOK, Uses
  <2>2. file[q] = f => ref[f] >= 2
    BY <1>1, <2>1, Zenon
  <2>3. file[q] = f => ref[f] > 1
    <3>1. ref[f] \in Nat
      BY Zenon DEF IInv, FileTypeOK
    <3> QED
      BY ONLY <2>2, <3>1
  <2> QED
    BY <1>3, <2>1, <2>3, Zenon
<1>7. FileTypeOK'
  <2>1. /\ ref' \in [Files -> Nat] /\ type' \in [Files -> {"FD_NONE", "FD_PIPE", "FD_INODE"}]
        /\ writable' \in [Files -> BOOLEAN] /\ fpipe' \in [Files -> Pipes \cup {None}]
    <3>1. /\ ref \in [Files -> Nat] /\ type \in [Files -> {"FD_NONE", "FD_PIPE", "FD_INODE"}]
          /\ writable \in [Files -> BOOLEAN] /\ fpipe \in [Files -> Pipes \cup {None}]
      BY Zenon DEF IInv, FileTypeOK
    <3>2. ref' \in [Files -> Nat]
      BY ONLY <1>1, <3>1
    <3>3. CASE ref[f] > 1
      BY <3>1, <3>2, <3>3, Zenon DEF fileclose
    <3>4. CASE ~(ref[f] > 1)
      BY <3>1, <3>2, <3>4, Zenon DEF fileclose
    <3> QED
      BY <3>3, <3>4, Zenon
  <2>2. ff' \in [Procs -> [pipe : Pipes \cup {None}, writable : BOOLEAN]]
    <3>1. /\ ff \in [Procs -> [pipe : Pipes \cup {None}, writable : BOOLEAN]]
          /\ [pipe |-> fpipe[f], writable |-> writable[f]] \in [pipe : Pipes \cup {None}, writable : BOOLEAN]
      BY Zenon DEF IInv, FileTypeOK
    <3>2. ff' = ff \/ ff' = [ff EXCEPT ![p] = [pipe |-> fpipe[f], writable |-> writable[f]]]
      BY Zenon DEF fileclose
    <3> QED
      BY <3>1, <3>2, Zenon
  <2> QED
    BY <1>1, <1>4, <2>1, <2>2, Zenon DEF IInv, FileTypeOK, GivesUp, pipevars
<1>8. RefsExact'
  BY <1>2, Zenon DEF RefsExact, GivesUp
<1>9. CallInv'
  <2>1. ASSUME NEW q \in Procs, q # p
        PROVE  CallOK(q)'
    <3>1. CallOK(q)
      BY Zenon DEF IInv, CallInv
    <3>2. pc[q] = "pipe" => file[q] # f
      BY <2>1, PipeFile, Zenon
    <3>3. pc[q] = "pipe" => ref'[file[q]] = ref[file[q]] /\ type'[file[q]] = type[file[q]]
      BY <1>2, <1>3, <3>1, <3>2, Zenon DEF CallOK
    <3>4. pc[q] \in Reading \cup Writing =>
            type'[file[q]] = type[file[q]] /\ writable'[file[q]] = writable[file[q]]
      BY <1>6, <2>1, Zenon
    <3> QED
      BY <1>4, <2>1, <3>1, <3>3, <3>4, CallFrame, Zenon DEF GivesUp
  <2>2. CallOK(p)'
    <3>1. CASE ref[f] = 1 /\ type[f] = "FD_PIPE"
      <4>1. /\ ff'[p].pipe = fpipe[f] /\ fpipe[f] \in Pipes
            /\ pc'[p] = IF how = "exit" THEN "exitclose" ELSE "pipeclose"
        <5>1. /\ ff \in [Procs -> [pipe : Pipes \cup {None}, writable : BOOLEAN]] /\ pc \in [Procs -> Places]
              /\ fpipe[f] \in Pipes
          BY <3>1, Zenon DEF IInv, FileTypeOK, EndInv
        <5>2. /\ ff' = [ff EXCEPT ![p] = [pipe |-> fpipe[f], writable |-> writable[f]]]
              /\ pc' = [pc EXCEPT ![p] = IF how = "exit" THEN "exitclose" ELSE "pipeclose"]
          BY <3>1, Zenon DEF fileclose
        <5> QED
          BY ONLY <5>1, <5>2
      <4> QED
        BY <4>1, Consts, Zenon DEF CallOK, GivesUp, PipeClosing, Reading, Writing
    <3>2. CASE ~(ref[f] = 1 /\ type[f] = "FD_PIPE")
      <4>1. ff'[p] = ff[p] /\ pc'[p] = AfterClose(how, more)
        BY <3>2, Zenon DEF fileclose, IInv, FileTypeOK
      <4> QED
        BY <1>5, <4>1, Consts, Zenon DEF CallOK, GivesUp, PipeClosing, Reading, Writing, AfterClose
    <3> QED
      BY <3>1, <3>2, Zenon
  <2> QED
    BY <2>1, <2>2, Zenon DEF CallInv
<1>10. EndInv'
  <2>0. \A h \in Files : ref'[h] = 0 => type'[h] = "FD_NONE"
    <3>1. \A h \in Files : ref[h] = 0 => type[h] = "FD_NONE"
      BY Zenon DEF IInv, EndInv
    <3>2. ref'[f] = 0 => type'[f] = "FD_NONE"
      <4>1. ref[f] \in Nat
        BY Zenon DEF IInv, FileTypeOK
      <4>2. ref'[f] = 0 => ref[f] = 1
        BY ONLY <1>2, <4>1
      <4> QED
        BY <1>3, <4>2, Zenon
    <3> QED
      BY <1>2, <1>3, <3>1, <3>2, Zenon
  <2>1. CASE ref[f] = 1 /\ type[f] = "FD_PIPE"
    <3>1. /\ ff'[p] = [pipe |-> fpipe[f], writable |-> writable[f]]
          /\ type'[f] = "FD_NONE"
      BY <1>3, <2>1, Zenon DEF fileclose, IInv, FileTypeOK
    <3>2. \A h \in Files, i \in Pipes, w \in BOOLEAN : FileEnd(h, i, w)' <=> FileEnd(h, i, w) /\ h # f
      BY <1>3, <3>1, Zenon DEF FileEnd
    <3>3. \A q \in Procs, i \in Pipes, w \in BOOLEAN : q # p => (CloseEnd(q, i, w)' <=> CloseEnd(q, i, w))
      BY <1>4, Zenon DEF CloseEnd
    <3>4. \A i \in Pipes, w \in BOOLEAN : /\ CloseEnd(p, i, w)' <=> FileEnd(f, i, w)
                                         /\ ~CloseEnd(p, i, w)
      <4>1. ff'[p].pipe = fpipe[f] /\ ff'[p].writable = writable[f]
        BY ONLY <3>1
      <4> QED
        BY <1>5, <2>1, <4>1, Consts, Zenon DEF CloseEnd, FileEnd
    <3>5. \A i \in Pipes : EndOK(i, FALSE) /\ EndOK(i, TRUE)
      BY Zenon DEF IInv, EndInv
    <3>6. UNCHANGED <<readopen, writeopen, used>>
      BY <1>1, Zenon DEF pipevars
    <3>11. ASSUME NEW i \in Pipes, NEW w \in BOOLEAN, EndOK(i, w)
           PROVE  EndOK(i, w)'
      <4>5. /\ \A h \in Files : FileEnd(h, i, w)' <=> FileEnd(h, i, w) /\ h # f
            /\ \A q \in Procs : q # p => (CloseEnd(q, i, w)' <=> CloseEnd(q, i, w))
            /\ CloseEnd(p, i, w)' <=> FileEnd(f, i, w)
            /\ ~CloseEnd(p, i, w)
        BY <3>2, <3>3, <3>4, Zenon
      <4>1. \A h, g \in Files : FileEnd(h, i, w)' /\ FileEnd(g, i, w)' => h = g
        BY <4>5, <3>11, Zenon DEF EndOK
      <4>2. \A q, r \in Procs : CloseEnd(q, i, w)' /\ CloseEnd(r, i, w)' => q = r
        BY <4>5, <3>11, Zenon DEF EndOK
      <4>3. \A h \in Files, q \in Procs : ~(FileEnd(h, i, w)' /\ CloseEnd(q, i, w)')
        BY <4>5, <3>11, Zenon DEF EndOK
      <4>4. (\E h \in Files : FileEnd(h, i, w)') \/ (\E q \in Procs : CloseEnd(q, i, w)')
              <=> (\E h \in Files : FileEnd(h, i, w)) \/ \E q \in Procs : CloseEnd(q, i, w)
        BY <4>5, Zenon
      <4> QED
        BY <3>6, <3>11, <4>1, <4>2, <4>3, <4>4, Zenon DEF EndOK
    <3>7. \A i \in Pipes : EndOK(i, FALSE)'
      BY <3>5, <3>11, Zenon
    <3>8. \A i \in Pipes : EndOK(i, TRUE)'
      BY <3>5, <3>11, Zenon
    <3>9. \A h \in Files : type'[h] = "FD_PIPE" => fpipe'[h] \in Pipes
      BY <1>3, <3>1, Zenon DEF IInv, EndInv
    <3>10. \A i \in Pipes : used'[i] <=> readopen'[i] \/ writeopen'[i]
      BY <3>6, Zenon DEF IInv, EndInv
    <3> QED
      BY <2>0, <3>7, <3>8, <3>9, <3>10, Zenon DEF EndInv
  <2>2. CASE ~(ref[f] = 1 /\ type[f] = "FD_PIPE")
    <3>1. ff' = ff
      BY <2>2, Zenon DEF fileclose
    <3>2. \A h \in Files : /\ type'[h] = "FD_PIPE" <=> type[h] = "FD_PIPE"
                           /\ type[h] = "FD_PIPE" => fpipe'[h] = fpipe[h] /\ writable'[h] = writable[h]
      <4>1. ref[f] > 1 \/ ref[f] = 1
        BY ONLY <1>1
      <4> QED
        BY <1>3, <2>2, <4>1, Zenon
    <3> QED
      BY <1>1, <2>0, <3>1, <3>2, EndFrame, Zenon DEF IInv, pipevars
  <2> QED
    BY <2>1, <2>2, Zenon
<1>11. PipeInv'
  <2>1. \A q \in Procs : \/ pc'[q] = pc[q] /\ PipeOf(q)' = PipeOf(q)
                         \/ pc[q] \notin Asleep /\ pc'[q] \notin Asleep
    BY <1>4, <1>6, Zenon DEF PipeOf, Asleep, Reading, Writing
  <2> QED
    BY <1>1, <2>1, PipeFrame, Zenon DEF IInv, PipeInv, pipevars
<1> QED
  BY <1>7, <1>8, <1>9, <1>10, <1>11, Zenon DEF IInv

\* A process outside any failed call closes descriptor d.
LEMMA CloseFd ==
  ASSUME Counting, IInv, NEW p \in Procs, NEW d \in Fds,
         NEW how \in {"close", "exit"}, NEW more \in BOOLEAN, pc[p] \in {"user", "exit"},
         ofile[p][d] # None, ofile' = [ofile EXCEPT ![p][d] = None],
         fileclose(p, ofile[p][d], how, more), UNCHANGED closing,
         how = "close" => ~more,
         how = "exit" /\ ~more => \A e \in Fds : e # d => ofile[p][e] = None
  PROVE  IInv'
<1>h. Counting /\ FileTypeOK /\ RefsExact
  BY Zenon DEF IInv
<1>1. PICK f \in Files : f = ofile[p][d]
  BY DEF IInv, FileTypeOK
<1>2. fileclose(p, f, how, more) /\ Uses(p, f)
  BY <1>1, Zenon DEF Uses
<1>3. closing[p] = <<>> /\ \A h \in Files : ref[h] \in Nat
  BY Zenon DEF IInv, CallInv, CallOK, FileTypeOK
<1>4. /\ pc'[p] # "pipe" /\ file' = file /\ \A q \in Procs : q # p => pc'[q] = pc[q]
  BY <1>2, ClosePc, Zenon
<1>5. \A h \in Files : Borrowers(h)' = Borrowers(h)
  BY <1>4, Zenon DEF Borrowers
<1>6. \A h \in Files : Cardinality(Descriptors(h)') =
        Cardinality(Descriptors(h)) - IF h = f THEN 1 ELSE 0
  BY <1>1, TakeFd, Zenon DEF IInv
<1>7. \A h \in Files : /\ Cardinality(Descriptors(h)') \in Nat
                       /\ Cardinality(Borrowers(h)') \in Nat
                       /\ Cardinality(Descriptors(h)') + Cardinality(Borrowers(h)') =
                            IF h = f THEN ref[h] - 1 ELSE ref[h]
  <2>1. \A h \in Files : Cardinality(Descriptors(h)') \in Nat
    <3>1. \A h \in Files : Descriptors(h)' \in SUBSET (Procs \X Fds)
      BY Zenon DEF Descriptors
    <3> QED
      BY <3>1, Zenon DEF Counting, CountPairs
  <2> QED
    BY ONLY <1>3, <1>5, <1>6, <2>1, RefsAre, <1>h DEF RefsExact
<1>8. ofile \in [Procs -> [Fds -> Files \cup {None}]] /\ closing \in [Procs -> Seq(Files)]
  BY Zenon DEF IInv, FileTypeOK
<1>9. /\ ofile' \in [Procs -> [Fds -> Files \cup {None}]] /\ closing' \in [Procs -> Seq(Files)]
      /\ \A q \in Procs : q # p => ofile'[q] = ofile[q] /\ closing'[q] = closing[q]
      /\ ofile'[p][d] = None /\ \A e \in Fds : e # d => ofile'[p][e] = ofile[p][e]
  BY <1>8, Zenon
<1>10. /\ closing'[p] = <<>>
       /\ \A j, k \in DOMAIN closing'[p] : closing'[p][j] = closing'[p][k] => j = k
  BY <1>3
<1>11. /\ how = "exit" => closing'[p] = <<>> /\ (~more => \A e \in Fds : ofile'[p][e] = None)
       /\ how = "close" => (more <=> closing'[p] # <<>>)
  BY <1>9, <1>10
<1>12. GivesUp(p, f, how, more)
  BY <1>7, <1>9, <1>10, <1>11, Zenon DEF GivesUp
<1> QED
  BY <1>2, <1>12, filecloseInv, Zenon

\* close of a descriptor.
LEMMA closeInv ==
  ASSUME Counting, IInv, NEW p \in Procs, NEW d \in Fds, close(p, d)
  PROVE  IInv'
BY CloseFd, Zenon DEF close, CanCall

\* exit closes the next descriptor, or is done.
LEMMA exitInv ==
  ASSUME Counting, IInv, NEW p \in Procs, exit(p)
  PROVE  IInv'
<1>h. Counting /\ FileTypeOK /\ RefsExact
  BY Zenon DEF IInv
<1>1. pc[p] \in {"user", "exit"}
  BY Zenon DEF exit
<1>2. CASE OpenFds(p) # {}
  <2>1. OpenFds(p) \in SUBSET Nat
    BY Consts, Zenon DEF OpenFds
  <2>2. PICK d \in Fds : d = Min(OpenFds(p)) /\ ofile[p][d] # None
    BY <1>2, <2>1, Zenon DEF Counting, Extremes, OpenFds
  <2>3. /\ ofile' = [ofile EXCEPT ![p][d] = None]
        /\ fileclose(p, ofile[p][d], "exit", OpenFds(p) # {d}) /\ UNCHANGED closing
    BY <1>2, <2>2, Zenon DEF exit
  <2>4. /\ (OpenFds(p) # {d}) \in BOOLEAN
        /\ ~(OpenFds(p) # {d}) => \A e \in Fds : e # d => ofile[p][e] = None
    BY Zenon DEF OpenFds
  <2> QED
    BY <1>1, <2>2, <2>3, <2>4, CloseFd, Zenon
<1>3. CASE OpenFds(p) = {}
  <2>1. /\ pc' = [pc EXCEPT ![p] = "unused"]
        /\ UNCHANGED <<filevars, pipevars, plock, ofile, killed, file, ff, left, closing, kills>>
    BY <1>3, Zenon DEF exit
  <2>2. pc'[p] = "unused" /\ \A q \in Procs : q # p => pc'[q] = pc[q]
    BY <2>1, Zenon DEF IInv, FileTypeOK
  <2>3. FileTypeOK'
    BY <2>1, Zenon DEF IInv, FileTypeOK, Places, filevars, pipevars
  <2>4. RefsExact'
    <3>1. \A f \in Files : Descriptors(f)' = Descriptors(f) /\ Borrowers(f)' = Borrowers(f)
      BY <1>1, <2>1, <2>2, Zenon DEF Descriptors, Borrowers
    <3> QED
      BY <2>1, <3>1, Zenon DEF IInv, RefsExact, filevars
  <2>5. CallInv'
    <3>1. ASSUME NEW q \in Procs, q # p
          PROVE  CallOK(q)'
      BY <2>1, <2>2, <3>1, CallFrame, Zenon DEF IInv, CallInv, filevars
    <3>2. /\ \A d \in Fds : ofile'[p][d] = None
          /\ closing'[p] = <<>> /\ ff'[p].pipe = None
      BY <1>1, <1>3, <2>1, Zenon DEF OpenFds, IInv, CallInv, CallOK, PipeClosing
    <3>3. CallOK(p)'
      <4>1. pc'[p] \notin {"close", "pipe"} \cup PipeClosing \cup Reading \cup Writing
        BY ONLY <2>2 DEF Reading, Writing, PipeClosing
      <4>2. DOMAIN closing'[p] = {}
        BY ONLY <3>2
      <4> QED
        BY ONLY <3>2, <4>1, <4>2, Zenon DEF CallOK
    <3> QED
      BY <3>1, <3>3, Zenon DEF CallInv
  <2>6. EndInv'
    BY <2>1, EndFrame, Zenon DEF IInv, EndInv, filevars, pipevars
  <2>7. PipeInv'
    <3>1. \A q \in Procs : \/ pc'[q] = pc[q] /\ PipeOf(q)' = PipeOf(q)
                           \/ pc[q] \notin Asleep /\ pc'[q] \notin Asleep
      BY <1>1, <2>1, <2>2, Zenon DEF PipeOf, Asleep, filevars
    <3> QED
      BY <2>1, <3>1, PipeFrame, Zenon DEF IInv, PipeInv, pipevars
  <2> QED
    BY <2>3, <2>4, <2>5, <2>6, <2>7, Zenon DEF IInv
<1> QED
  BY <1>2, <1>3, Zenon

\* A failed call closes its next file.
LEMMA close_nextInv ==
  ASSUME Counting, IInv, NEW p \in Procs, close_next(p)
  PROVE  IInv'
<1>h. Counting /\ FileTypeOK /\ RefsExact
  BY Zenon DEF IInv
<1>1. /\ pc[p] = "close" /\ closing' = [closing EXCEPT ![p] = Tail(@)]
      /\ fileclose(p, Head(closing[p]), "close", Len(closing[p]) > 1) /\ UNCHANGED ofile
  BY Zenon DEF close_next
<1>2. PICK s \in Seq(Files) : s = closing[p] /\ s # <<>> /\ \A j, k \in DOMAIN s : s[j] = s[k] => j = k
  BY <1>1 DEF IInv, CallInv, CallOK, FileTypeOK
<1>3. PICK f \in Files : f = Head(s)
  BY ONLY <1>2
<1>13. PICK t \in Seq(Files) : t = Tail(s)
  <2>1. s # <<>>
    BY <1>2, Zenon
  <2>2. Tail(s) \in Seq(Files)
    BY ONLY <2>1
  <2> QED
    BY <2>2, Zenon
<1>4. PICK more \in BOOLEAN : more <=> Len(s) > 1
  BY Zenon
<1>5. /\ Len(s) \in Nat /\ Len(s) > 0 /\ s[1] = f /\ DOMAIN s = 1 .. Len(s)
      /\ Len(t) = Len(s) - 1 /\ DOMAIN t = 1 .. Len(s) - 1
      /\ \A k \in 1 .. Len(s) - 1 : t[k] = s[k + 1]
      /\ t = <<>> <=> Len(s) = 1
  <2>1. /\ Len(s) \in Nat /\ Len(s) > 0 /\ s[1] = f /\ DOMAIN s = 1 .. Len(s)
    BY ONLY <1>2, <1>3
  <2>2. Len(t) = Len(s) - 1 /\ DOMAIN t = 1 .. Len(s) - 1
    BY ONLY <1>2, <1>13, <2>1
  <2>3. \A k \in 1 .. Len(s) - 1 : t[k] = s[k + 1]
    BY ONLY <1>2, <1>13, <2>1
  <2>4. t = <<>> <=> Len(t) = 0
    OBVIOUS
  <2> QED
    BY ONLY <2>1, <2>2, <2>3, <2>4
<1>6. /\ more <=> t # <<>>
      /\ \A j, k \in DOMAIN t : t[j] = t[k] => j = k
      /\ \A h \in Files : (\E k \in DOMAIN t : t[k] = h) <=>
                            h # f /\ \E k \in DOMAIN s : s[k] = h
  <2>1. more <=> t # <<>>
    BY ONLY <1>4, <1>5
  <2>2. ASSUME NEW j \in DOMAIN t, NEW k \in DOMAIN t, t[j] = t[k]
        PROVE  j = k
    <3>1. /\ j \in Nat /\ k \in Nat /\ s[j + 1] = s[k + 1]
          /\ j + 1 \in DOMAIN s /\ k + 1 \in DOMAIN s
      BY ONLY <1>5, <2>2
    <3>2. j + 1 = k + 1
      BY <1>2, <3>1, Zenon
    <3> QED
      BY ONLY <3>1, <3>2
  <2>3. ASSUME NEW h \in Files
        PROVE  (\E k \in DOMAIN t : t[k] = h) <=> h # f /\ \E k \in DOMAIN s : s[k] = h
    <3>1. ASSUME NEW k \in DOMAIN t, t[k] = h
          PROVE  h # f /\ \E j \in DOMAIN s : s[j] = h
      <4>1. k + 1 \in DOMAIN s /\ 1 \in DOMAIN s /\ s[k + 1] = h /\ s[1] = f /\ k + 1 # 1
        BY ONLY <1>5, <3>1
      <4> QED
        BY <1>2, <4>1, Zenon
    <3>2. ASSUME h # f, NEW k \in DOMAIN s, s[k] = h
          PROVE  \E j \in DOMAIN t : t[j] = h
      <4>1. k - 1 \in DOMAIN t /\ t[k - 1] = s[k]
        BY ONLY <1>5, <3>2
      <4> QED
        BY <3>2, <4>1, Zenon
    <3> QED
      BY <3>1, <3>2, Zenon
  <2> QED
    BY <2>1, <2>2, <2>3, Zenon
<1>7. fileclose(p, f, "close", more)
  <2>1. more = (Len(s) > 1)
    BY ONLY <1>4, <1>5
  <2> QED
    BY <1>1, <1>2, <1>3, <2>1, Zenon
<1>8. /\ closing' \in [Procs -> Seq(Files)] /\ closing'[p] = t
      /\ \A q \in Procs : q # p => closing'[q] = closing[q]
      /\ ofile' \in [Procs -> [Fds -> Files \cup {None}]]
  <2>1. closing \in [Procs -> Seq(Files)] /\ ofile \in [Procs -> [Fds -> Files \cup {None}]]
    BY Zenon DEF IInv, FileTypeOK
  <2> QED
    BY <1>1, <1>2, <1>13, <2>1, Zenon
<1>9. Uses(p, f)
  BY ONLY <1>2, <1>5 DEF Uses, Borrows
<1>10. /\ pc'[p] # "pipe" /\ file' = file /\ \A q \in Procs : q # p => pc'[q] = pc[q]
  BY <1>7, ClosePc, Zenon
<1>11. \A h \in Files : /\ Cardinality(Descriptors(h)') \in Nat
                        /\ Cardinality(Borrowers(h)') \in Nat
                        /\ Cardinality(Descriptors(h)') + Cardinality(Borrowers(h)') =
                             IF h = f THEN ref[h] - 1 ELSE ref[h]
  <2>1. /\ \A h \in Files : h # f => (Borrows(p, h)' <=> Borrows(p, h))
        /\ Borrows(p, f) /\ ~Borrows(p, f)'
    <3>1. \A h \in Files : Borrows(p, h) <=> \E k \in DOMAIN s : s[k] = h
      BY <1>1, <1>2, Zenon DEF Borrows
    <3>2. \A h \in Files : Borrows(p, h)' <=> \E k \in DOMAIN t : t[k] = h
      BY <1>8, <1>10, Zenon DEF Borrows
    <3>3. \E k \in DOMAIN s : s[k] = f
      BY ONLY <1>5
    <3> QED
      BY <1>6, <3>1, <3>2, <3>3, Zenon
  <2>2. /\ Cardinality(Borrowers(f)') = Cardinality(Borrowers(f)) - 1
        /\ \A h \in Files : h # f => Cardinality(Borrowers(h)') = Cardinality(Borrowers(h))
    BY <1>8, <1>10, <2>1, Borrowed, Zenon
  <2>3. \A h \in Files : Descriptors(h)' = Descriptors(h)
    BY <1>1, Zenon DEF Descriptors
  <2>4. \A h \in Files : Cardinality(Borrowers(h)') \in Nat
    <3>1. \A h \in Files : Borrowers(h)' \in SUBSET Procs
      BY Zenon DEF Borrowers
    <3> QED
      BY <3>1, Zenon DEF Counting, CountProcs
  <2>5. \A h \in Files : ref[h] \in Nat
    BY Zenon DEF IInv, FileTypeOK
  <2> QED
    <3>1. \A h \in Files : /\ Cardinality(Descriptors(h)) \in Nat /\ Cardinality(Borrowers(h)) \in Nat
                           /\ ref[h] = Cardinality(Descriptors(h)) + Cardinality(Borrowers(h))
      BY <1>h, RefsAre, Zenon DEF RefsExact
    <3>2. ASSUME NEW h \in Files
          PROVE  /\ Cardinality(Descriptors(h)') \in Nat /\ Cardinality(Borrowers(h)') \in Nat
                 /\ Cardinality(Descriptors(h)') + Cardinality(Borrowers(h)') =
                      IF h = f THEN ref[h] - 1 ELSE ref[h]
      <4>1. Cardinality(Descriptors(h)') = Cardinality(Descriptors(h))
        BY ONLY <2>3, Zenon
      <4>2. CASE h = f
        BY ONLY <2>2, <2>4, <3>1, <4>1, <4>2
      <4>3. CASE h # f
        BY ONLY <2>2, <2>4, <3>1, <4>1, <4>3
      <4> QED
        BY ONLY <4>2, <4>3, Zenon
    <3> QED
      BY ONLY <3>2, Zenon
<1>12. GivesUp(p, f, "close", more)
  <2>1. /\ \A j, k \in DOMAIN closing'[p] : closing'[p][j] = closing'[p][k] => j = k
        /\ more <=> closing'[p] # <<>>
    BY <1>6, <1>8, Zenon
  <2> QED
    BY <1>1, <1>8, <1>11, <2>1, Zenon DEF GivesUp
<1> QED
  BY <1>1, <1>7, <1>9, <1>12, filecloseInv, Zenon
=============================================================================
