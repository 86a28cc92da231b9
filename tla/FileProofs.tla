----------------------------- MODULE FileProofs ------------------------------
(***************************************************************************)
(* The safety of File for any number of processes, files, descriptors and  *)
(* pipes and any size of a pipe: the steps on pipes preserve the invariant *)
(* of FileInvariant too, and the properties follow from it.                *)
(***************************************************************************)
EXTENDS FileInvariant

-----------------------------------------------------------------------------
(* Calls on pipes *)

\* A call on a pipe goes on or returns.
Moves(q) ==
  \/ pc'[q] = pc[q] /\ file'[q] = file[q]
  \/ pc[q] \in Reading /\ pc'[q] \in Reading /\ file'[q] = file[q]
  \/ pc[q] \in Writing /\ pc'[q] \in Writing /\ file'[q] = file[q]
  \/ pc[q] \in Reading \cup Writing /\ pc'[q] = "user"

\* That leaves the file table and the ends of pipes alone.
LEMMA OnPipe ==
  ASSUME IInv, UNCHANGED <<filevars, used, readopen, writeopen, ofile, ff, closing>>,
         \A q \in Procs : Moves(q)
  PROVE  RefsExact' /\ CallInv' /\ EndInv'
<1>1. RefsExact'
  <2>1. \A q \in Procs : /\ pc'[q] = "pipe" <=> pc[q] = "pipe"
                         /\ pc[q] = "pipe" => file'[q] = file[q]
    BY Zenon DEF Moves, Reading, Writing
  <2>2. \A f \in Files : Descriptors(f)' = Descriptors(f) /\ Borrowers(f)' = Borrowers(f)
    BY <2>1, Zenon DEF Descriptors, Borrowers
  <2> QED
    BY <2>2, Zenon DEF IInv, RefsExact, filevars
<1>2. CallInv'
  <2> SUFFICES ASSUME NEW q \in Procs
               PROVE  CallOK(q)'
    BY Zenon DEF CallInv
  <2>1. CallOK(q)
    BY Zenon DEF IInv, CallInv
  <2>2. CASE file'[q] = file[q] /\ ~(pc[q] \in Reading \cup Writing /\ pc'[q] = "user")
    BY <2>1, <2>2, CallFrame, Zenon DEF Moves, filevars
  <2>3. CASE pc[q] \in Reading \cup Writing /\ pc'[q] = "user"
    <3>1. closing'[q] = <<>> /\ ff'[q].pipe = None
      BY <2>1, <2>3, Zenon DEF CallOK, Reading, Writing, PipeClosing
    <3> QED
      BY <2>3, <3>1, CallUser, Zenon
  <2> QED
    BY <2>2, <2>3, Zenon DEF Moves
<1>3. EndInv'
  BY EndFrame, Zenon DEF IInv, EndInv, filevars
<1> QED
  BY <1>1, <1>2, <1>3, Zenon

\* read and write find the pipe of an open descriptor.
LEMMA readInv ==
  ASSUME Counting, IInv, NEW p \in Procs, NEW d \in Fds, NEW n \in Sizes, read(p, d, n)
  PROVE  IInv'
<1>1. PICK f \in Files : f = ofile[p][d] /\ type[f] = "FD_PIPE"
  BY DEF read, IInv, FileTypeOK
<1>2. /\ pc[p] = "user" /\ file' = [file EXCEPT ![p] = f] /\ left' = [left EXCEPT ![p] = n]
      /\ pc' = [pc EXCEPT ![p] = IF writable[f] THEN "write" ELSE "read"]
      /\ UNCHANGED <<filevars, pipevars, plock, ofile, killed, ff, closing, kills>>
  BY <1>1, Zenon DEF read, CanCall
<1>3. /\ pc'[p] = (IF writable[f] THEN "write" ELSE "read") /\ file'[p] = f
      /\ writable[f] \in BOOLEAN
      /\ \A q \in Procs : q # p => pc'[q] = pc[q] /\ file'[q] = file[q]
  BY <1>2, Zenon DEF IInv, FileTypeOK
<1>4. FileTypeOK'
  <2>1. n \in Nat
    BY FileAssumption, Zenon
  <2>2. pc' \in [Procs -> Places]
    BY <1>2, Zenon DEF IInv, FileTypeOK, Places, Reading, Writing
  <2> QED
    BY <1>2, <2>1, <2>2, Zenon DEF IInv, FileTypeOK, filevars, pipevars
<1>5. RefsExact'
  <2>1. \A f1 \in Files : Descriptors(f1)' = Descriptors(f1) /\ Borrowers(f1)' = Borrowers(f1)
    BY <1>2, <1>3 DEF Descriptors, Borrowers
  <2> QED
    BY <1>2, <2>1, Zenon DEF IInv, RefsExact, filevars
<1>6. CallInv'
  <2>1. ASSUME NEW q \in Procs, q # p
        PROVE  CallOK(q)'
    BY <1>2, <1>3, <2>1, CallFrame, Zenon DEF IInv, CallInv, filevars
  <2>2. closing'[p] = <<>> /\ ff'[p].pipe = None
    BY <1>2, Zenon DEF IInv, CallInv, CallOK, PipeClosing
  <2>3. CallOK(p)'
    BY <1>1, <1>2, <1>3, <2>2 DEF CallOK, Reading, Writing, PipeClosing, filevars
  <2> QED
    BY <2>1, <2>3, Zenon DEF CallInv
<1>7. EndInv'
  BY <1>2, EndFrame, Zenon DEF IInv, EndInv, filevars, pipevars
<1>8. PipeInv'
  <2>1. \A q \in Procs : \/ pc'[q] = pc[q] /\ PipeOf(q)' = PipeOf(q)
                         \/ pc[q] \notin Asleep /\ pc'[q] \notin Asleep
    BY <1>2, <1>3 DEF PipeOf, Asleep, filevars
  <2> QED
    BY <1>2, <2>1, PipeFrame, Zenon DEF IInv, PipeInv, pipevars
<1> QED
  BY <1>4, <1>5, <1>6, <1>7, <1>8, Zenon DEF IInv

\* sleep lets go of the pipe's lock.
LEMMA sleepInv ==
  ASSUME Counting, IInv, NEW p \in Procs, sleep(p)
  PROVE  IInv'
<1>1. /\ pc[p] \in {"rsleep", "wsleep"}
      /\ pc' = [pc EXCEPT ![p] = IF @ = "rsleep" THEN "rasleep" ELSE "wasleep"]
      /\ plock' = [plock EXCEPT ![PipeOf(p)] = None]
      /\ UNCHANGED <<filevars, pipevars, ofile, killed, file, ff, left, closing, kills>>
  BY Zenon DEF sleep
<1>2. /\ pc'[p] = (IF pc[p] = "rsleep" THEN "rasleep" ELSE "wasleep")
      /\ \A q \in Procs : q # p => pc'[q] = pc[q]
      /\ PipeOf(p) \in Pipes /\ plock'[PipeOf(p)] = None
      /\ \A i \in Pipes : i # PipeOf(p) => plock'[i] = plock[i]
      /\ \A q \in Procs : PipeOf(q)' = PipeOf(q)
  BY <1>1, CallEnd, Zenon DEF IInv, FileTypeOK, Reading, Writing, PipeOf, filevars
<1>3. FileTypeOK'
  BY <1>1, <1>2, Zenon DEF IInv, FileTypeOK, Places, Reading, Writing, filevars, pipevars
<1>4. RefsExact' /\ CallInv' /\ EndInv'
  <2>1. \A q \in Procs : Moves(q)
    BY <1>1, <1>2, Zenon DEF Moves, Reading, Writing
  <2> QED
    BY <1>1, <2>1, OnPipe, Zenon DEF pipevars
<1>5. PipeInv'
  <2>1. LockInv'
    BY <1>1, <1>2, Consts DEF IInv, PipeInv, LockInv
  <2>2. \A i : Count(i)' = Count(i)
    BY <1>1, Zenon DEF Count, pipevars
  <2>3. SleepersHaveReason'
    BY <1>1, <1>2, <2>2 DEF IInv, PipeInv, SleepersHaveReason, pipevars
  <2> QED
    BY <1>1, <2>1, <2>2, <2>3, Zenon DEF IInv, PipeInv
<1> QED
  BY <1>3, <1>4, <1>5, Zenon DEF IInv

\* kill wakes its victim.
LEMMA killInv ==
  ASSUME Counting, IInv, NEW p \in Procs, NEW q \in Procs, kill(p, q)
  PROVE  IInv'
<1>1. /\ killed' = [killed EXCEPT ![q] = TRUE] /\ kills' = kills + 1
      /\ pc' = [pc EXCEPT ![q] = IF @ = "rasleep" THEN "read"
                                 ELSE IF @ = "wasleep" THEN "write" ELSE @]
      /\ UNCHANGED <<filevars, pipevars, plock, ofile, file, ff, left, closing>>
  BY Zenon DEF kill
<1>2. /\ pc'[q] = (IF pc[q] = "rasleep" THEN "read" ELSE IF pc[q] = "wasleep" THEN "write" ELSE pc[q])
      /\ \A r \in Procs : r # q => pc'[r] = pc[r]
      /\ \A r \in Procs : PipeOf(r)' = PipeOf(r)
      /\ kills' \in Nat /\ kills' # 0
  BY <1>1 DEF IInv, FileTypeOK, PipeOf, filevars
<1>3. FileTypeOK'
  <2>1. pc' \in [Procs -> Places]
    BY <1>1, Zenon DEF IInv, FileTypeOK, Places, Reading, Writing
  <2> QED
    BY <1>1, <1>2, <2>1, Zenon DEF IInv, FileTypeOK, filevars, pipevars
<1>4. RefsExact' /\ CallInv' /\ EndInv'
  <2>1. \A r \in Procs : Moves(r)
    BY <1>1, <1>2, Zenon DEF Moves, Reading, Writing
  <2> QED
    BY <1>1, <2>1, OnPipe, Zenon DEF pipevars
<1>5. PipeInv'
  <2>1. LockInv'
    BY <1>1, <1>2 DEF IInv, PipeInv, LockInv
  <2>2. \A i : Count(i)' = Count(i)
    BY <1>1, Zenon DEF Count, pipevars
  <2>3. SleepersHaveReason'
    BY <1>1, <1>2, <2>2 DEF IInv, PipeInv, SleepersHaveReason, pipevars
  <2> QED
    BY <1>2, <2>1, <2>2, <2>3, Zenon DEF IInv, PipeInv
<1> QED
  BY <1>3, <1>4, <1>5, Zenon DEF IInv

\* Nobody is about to sleep on a pipe whose lock is free.
LEMMA LockFree ==
  ASSUME IInv, NEW i \in Pipes, plock[i] = None
  PROVE  \A q \in Procs : pc[q] \in {"rsleep", "wsleep"} => PipeOf(q) # i
BY Consts DEF IInv, PipeInv, LockInv

\* What wakeup does to a process.
LEMMA Wakes ==
  ASSUME NEW i, NEW r, NEW w, NEW q \in Procs
  PROVE  /\ r /\ pc[q] = "rasleep" /\ PipeOf(q) = i => AfterWakeup(i, r, w)[q] = "read"
         /\ w /\ pc[q] = "wasleep" /\ PipeOf(q) = i => AfterWakeup(i, r, w)[q] = "write"
         /\ ~(r /\ pc[q] = "rasleep" /\ PipeOf(q) = i) /\ ~(w /\ pc[q] = "wasleep" /\ PipeOf(q) = i)
              => AfterWakeup(i, r, w)[q] = pc[q]
BY Zenon DEF AfterWakeup

\* The last reference to an end is gone: pipeclose.
LEMMA pipecloseInv ==
  ASSUME Counting, IInv, NEW p \in Procs, pipeclose(p)
  PROVE  IInv'
<1>1. PICK i \in Pipes, w \in BOOLEAN : ff[p].pipe = i /\ ff[p].writable = w
  <2>1. ff[p].pipe # None /\ ff[p] \in [pipe : Pipes \cup {None}, writable : BOOLEAN]
    BY Zenon DEF pipeclose, PipeClosing, IInv, CallInv, CallOK, FileTypeOK
  <2> QED
    BY <2>1, Zenon
<1> DEFINE r1 == readopen[i] /\ w
           w1 == writeopen[i] /\ ~w
           next == IF pc[p] = "exitclose" THEN AfterClose("exit", OpenFds(p) # {})
                   ELSE AfterClose("close", closing[p] # <<>>)
<1>2. /\ pc[p] \in PipeClosing /\ plock[i] = None
      /\ readopen' = [readopen EXCEPT ![i] = r1]
      /\ writeopen' = [writeopen EXCEPT ![i] = w1]
      /\ used' = [used EXCEPT ![i] = ~Freed(r1, w1)]
      /\ \/ /\ Freed(r1, w1) /\ nread' = [nread EXCEPT ![i] = 0] /\ nwrite' = [nwrite EXCEPT ![i] = 0]
            /\ data' = [data EXCEPT ![i] = EmptyBuffer]
         \/ UNCHANGED <<nread, nwrite, data>>
      /\ pc' = [AfterWakeup(i, w, ~w) EXCEPT ![p] = next]
      /\ ff' = [ff EXCEPT ![p] = NoFile]
      /\ UNCHANGED <<filevars, plock, ofile, killed, file, left, closing, kills>>
  BY <1>1, Zenon DEF pipeclose, PipeClosing
<1>3. /\ pc'[p] = next /\ next \in {"close", "user", "exit", "unused"}
      /\ \A q \in Procs : q # p => pc'[q] = AfterWakeup(i, w, ~w)[q]
      /\ ff'[p] = NoFile /\ \A q \in Procs : q # p => ff'[q] = ff[q]
      /\ \A q \in Procs : PipeOf(q)' = PipeOf(q)
  <2>1. ff \in [Procs -> [pipe : Pipes \cup {None}, writable : BOOLEAN]]
    BY Zenon DEF IInv, FileTypeOK
  <2>2. next \in {"close", "user", "exit", "unused"}
    BY Zenon DEF AfterClose
  <2>3. AfterWakeup(i, w, ~w) = [q \in Procs |-> AfterWakeup(i, w, ~w)[q]]
    BY Zenon DEF AfterWakeup
  <2> HIDE DEF next
  <2> QED
    BY <1>2, <2>1, <2>2, <2>3, Zenon DEF PipeOf, filevars
<1>4. /\ \A q \in Procs : \/ pc'[q] = pc[q] \/ q = p
                          \/ pc[q] = "rasleep" /\ pc'[q] = "read"
                          \/ pc[q] = "wasleep" /\ pc'[q] = "write"
  BY <1>3, Wakes
<1>5. /\ \A j \in Pipes : j # i => /\ readopen'[j] = readopen[j] /\ writeopen'[j] = writeopen[j]
                                  /\ used'[j] = used[j] /\ nread'[j] = nread[j] /\ nwrite'[j] = nwrite[j]
      /\ readopen'[i] <=> readopen[i] /\ w
      /\ writeopen'[i] <=> writeopen[i] /\ ~w
      /\ used'[i] <=> readopen'[i] \/ writeopen'[i]
  BY <1>2 DEF Freed, IInv, FileTypeOK
<1>6. FileTypeOK'
  <2>1. /\ readopen' \in [Pipes -> BOOLEAN] /\ writeopen' \in [Pipes -> BOOLEAN]
        /\ used' \in [Pipes -> BOOLEAN]
    <3>1. /\ readopen \in [Pipes -> BOOLEAN] /\ writeopen \in [Pipes -> BOOLEAN]
          /\ used \in [Pipes -> BOOLEAN]
      BY Zenon DEF IInv, FileTypeOK
    <3>2. r1 \in BOOLEAN /\ w1 \in BOOLEAN /\ (~Freed(r1, w1)) \in BOOLEAN
      BY Zenon DEF Freed
    <3> HIDE DEF r1, w1
    <3> QED
      BY <1>2, <3>1, <3>2, Zenon
  <2>2. /\ nread' \in [Pipes -> 0 .. WRAP - 1] /\ nwrite' \in [Pipes -> 0 .. WRAP - 1]
        /\ data' \in [Pipes -> [0 .. PIPESIZE - 1 -> Bytes]]
    <3>1. EmptyBuffer \in [0 .. PIPESIZE - 1 -> Bytes] /\ 0 \in 0 .. WRAP - 1
      BY FileAssumption, Consts DEF EmptyBuffer
    <3>2. /\ nread \in [Pipes -> 0 .. WRAP - 1] /\ nwrite \in [Pipes -> 0 .. WRAP - 1]
          /\ data \in [Pipes -> [0 .. PIPESIZE - 1 -> Bytes]]
      BY Zenon DEF IInv, FileTypeOK
    <3> HIDE DEF r1, w1
    <3> QED
      BY <1>2, <3>1, <3>2
  <2>3. pc' \in [Procs -> Places]
    <3>1. AfterWakeup(i, w, ~w) \in [Procs -> Places]
      BY Zenon DEF AfterWakeup, IInv, FileTypeOK, Places, Reading, Writing
    <3> HIDE DEF next
    <3> QED
      BY <1>2, <1>3, <3>1, Zenon DEF Places
  <2>4. ff' \in [Procs -> [pipe : Pipes \cup {None}, writable : BOOLEAN]]
    BY <1>2, Zenon DEF IInv, FileTypeOK, NoFile
  <2> QED
    BY <1>2, <2>1, <2>2, <2>3, <2>4, Zenon DEF IInv, FileTypeOK, filevars
<1>7. RefsExact'
  <2>1. \A q \in Procs : pc'[q] = "pipe" <=> pc[q] = "pipe"
    BY <1>2, <1>3, <1>4, Zenon DEF PipeClosing
  <2>2. \A f \in Files : Descriptors(f)' = Descriptors(f) /\ Borrowers(f)' = Borrowers(f)
    BY <1>2, <2>1, Zenon DEF Descriptors, Borrowers
  <2> QED
    BY <1>2, <2>2, Zenon DEF IInv, RefsExact, filevars
<1>8. CallInv'
  <2>1. ASSUME NEW q \in Procs, q # p
        PROVE  CallOK(q)'
    <3>1. CallOK(q)
      BY Zenon DEF IInv, CallInv
    <3>2. \/ pc'[q] = pc[q]
          \/ pc[q] \in Reading /\ pc'[q] \in Reading
          \/ pc[q] \in Writing /\ pc'[q] \in Writing
      BY <1>4, <2>1, Zenon DEF Reading, Writing
    <3> QED
      BY <1>2, <1>3, <2>1, <3>1, <3>2, CallFrame, Zenon DEF filevars
  <2>2. CallOK(p)'
    <3>1. /\ pc[p] = "exitclose" => closing[p] = <<>>
          /\ \A j, k \in DOMAIN closing[p] : closing[p][j] = closing[p][k] => j = k
      BY Zenon DEF IInv, CallInv, CallOK
    <3>2. ff'[p].pipe = None /\ closing'[p] = closing[p] /\ ofile'[p] = ofile[p]
      <4>1. ff'[p] = NoFile /\ closing' = closing /\ ofile' = ofile
        BY ONLY <1>2, <1>3, Zenon
      <4> QED
        BY ONLY <4>1 DEF NoFile
    <3>3. /\ pc'[p] = "unused" => \A d \in Fds : ofile[p][d] = None
          /\ pc'[p] = "close" <=> closing[p] # <<>>
      BY <1>2, <1>3, <3>1, Zenon DEF AfterClose, PipeClosing, OpenFds
    <3>4. pc'[p] \in {"close", "user", "exit", "unused"}
      BY <1>3, Zenon
    <3> HIDE DEF next
    <3> QED
      BY <3>1, <3>2, <3>3, <3>4, Zenon DEF CallOK, Reading, Writing, PipeClosing
  <2> QED
    BY <2>1, <2>2, Zenon DEF CallInv
<1>9. EndInv'
  <2>1. \A f \in Files, j \in Pipes, v \in BOOLEAN : FileEnd(f, j, v)' <=> FileEnd(f, j, v)
    BY <1>2, Zenon DEF FileEnd, filevars
  <2>2. \A q \in Procs, j \in Pipes, v \in BOOLEAN : CloseEnd(q, j, v)' <=> CloseEnd(q, j, v) /\ q # p
    <3>1. \A j \in Pipes, v \in BOOLEAN : ~CloseEnd(p, j, v)'
      <4>1. ff'[p].pipe = None
        BY <1>3 DEF NoFile
      <4> QED
        BY <4>1, Consts, Zenon DEF CloseEnd
    <3>2. \A q \in Procs, j \in Pipes, v \in BOOLEAN : q # p => (CloseEnd(q, j, v)' <=> CloseEnd(q, j, v))
      BY <1>3, Zenon DEF CloseEnd
    <3> QED
      BY <3>1, <3>2, Zenon
  <2>3. \A j \in Pipes, v \in BOOLEAN : CloseEnd(p, j, v) <=> j = i /\ v = w
    BY <1>1, Zenon DEF CloseEnd
  <2>4. ASSUME NEW j \in Pipes, NEW v \in BOOLEAN, EndOK(j, v), ~(j = i /\ v = w)
        PROVE  EndOK(j, v)'
    <3>1. /\ \A f \in Files : FileEnd(f, j, v)' <=> FileEnd(f, j, v)
          /\ \A q \in Procs : CloseEnd(q, j, v)' <=> CloseEnd(q, j, v)
      BY <2>1, <2>2, <2>3, <2>4, Zenon
    <3>2. /\ v => (writeopen'[j] <=> writeopen[j])
          /\ ~v => (readopen'[j] <=> readopen[j])
      BY <1>5, <2>4, Zenon
    <3> QED
      BY <2>4, <3>1, <3>2, Zenon DEF EndOK
  <2>5. ASSUME EndOK(i, w)
        PROVE  EndOK(i, w)'
    <3>1. CloseEnd(p, i, w)
      BY <2>3, Zenon
    <3>2. \A f \in Files : ~FileEnd(f, i, w)
      BY <2>5, <3>1, Zenon DEF EndOK
    <3>3. \A q \in Procs : q # p => ~CloseEnd(q, i, w)
      BY <2>5, <3>1, Zenon DEF EndOK
    <3>4. (\A f \in Files : ~FileEnd(f, i, w)') /\ (\A q \in Procs : ~CloseEnd(q, i, w)')
      BY <2>1, <2>2, <3>2, <3>3, Zenon
    <3>5. /\ w => ~writeopen'[i]
          /\ ~w => ~readopen'[i]
      BY <1>5, Zenon
    <3> QED
      BY <3>4, <3>5, Zenon DEF EndOK
  <2>6. \A j \in Pipes : EndOK(j, FALSE) /\ EndOK(j, TRUE) /\ (used[j] <=> readopen[j] \/ writeopen[j])
    BY Zenon DEF IInv, EndInv
  <2>7. \A j \in Pipes : EndOK(j, FALSE)'
    <3>1. CASE w = FALSE
      BY <2>4, <2>5, <2>6, <3>1, Zenon
    <3>2. CASE w = TRUE
      BY <2>4, <2>6, <3>2, Zenon
    <3> QED
      BY <3>1, <3>2, Zenon
  <2>8. \A j \in Pipes : EndOK(j, TRUE)'
    <3>1. CASE w = TRUE
      BY <2>4, <2>5, <2>6, <3>1, Zenon
    <3>2. CASE w = FALSE
      BY <2>4, <2>6, <3>2, Zenon
    <3> QED
      BY <3>1, <3>2, Zenon
  <2>9. \A j \in Pipes : used'[j] <=> readopen'[j] \/ writeopen'[j]
    BY <1>5, <2>6, Zenon
  <2>10. \A f \in Files : /\ ref'[f] = 0 => type'[f] = "FD_NONE"
                          /\ type'[f] = "FD_PIPE" => fpipe'[f] \in Pipes
    BY <1>2, Zenon DEF IInv, EndInv, filevars
  <2> QED
    BY <2>7, <2>8, <2>9, <2>10, Zenon DEF EndInv
<1>10. PipeInv'
  <2>1. \A q \in Procs : pc[q] \in Asleep /\ PipeOf(q) = i =>
          /\ w <=> pc[q] \in Reading
          /\ pc[q] = "rasleep" \/ pc[q] = "wasleep"
    <3> SUFFICES ASSUME NEW q \in Procs, pc[q] \in Asleep, PipeOf(q) = i
                 PROVE  /\ w <=> pc[q] \in Reading
                        /\ pc[q] = "rasleep" \/ pc[q] = "wasleep"
      BY Zenon
    <3>1. pc[q] = "rasleep" \/ pc[q] = "wasleep"
      BY <1>2, LockFree, Zenon DEF Asleep
    <3>2. /\ pc[q] = "rasleep" => FileEnd(file[q], i, FALSE)
          /\ pc[q] = "wasleep" => FileEnd(file[q], i, TRUE)
          /\ file[q] \in Files
      BY <3>1, CallEnd, Zenon DEF Reading, Writing
    <3>3. CloseEnd(p, i, w) /\ EndOK(i, TRUE) /\ EndOK(i, FALSE)
      BY <1>1, Zenon DEF CloseEnd, IInv, EndInv
    <3>4. ~FileEnd(file[q], i, w)
      <4>1. CASE w = TRUE
        BY <3>2, <3>3, <4>1, Zenon DEF EndOK
      <4>2. CASE w = FALSE
        BY <3>2, <3>3, <4>2, Zenon DEF EndOK
      <4> QED
        BY <4>1, <4>2, Zenon
    <3> QED
      BY <3>1, <3>2, <3>4, Zenon DEF Reading
  <2>2. \A q \in Procs : pc'[q] \in Asleep => pc'[q] = pc[q] /\ PipeOf(q) \in Pipes
    <3>1. \A q \in Procs : pc'[q] \in Asleep => pc'[q] = pc[q]
      BY <1>3, <1>4, Zenon DEF Asleep
    <3> QED
      BY <3>1, CallEnd, Zenon DEF Asleep, Reading, Writing
  <2>3. \A q \in Procs : pc'[q] \in Asleep => PipeOf(q) # i
    <3> SUFFICES ASSUME NEW q \in Procs, pc'[q] \in Asleep, PipeOf(q) = i
                 PROVE  FALSE
      BY Zenon
    <3>1. q # p /\ pc[q] \in Asleep
      BY <1>3, <2>2, Zenon DEF Asleep
    <3>2. (w /\ pc[q] = "rasleep") \/ (~w /\ pc[q] = "wasleep")
      BY <2>1, <3>1, Zenon DEF Reading
    <3>3. pc'[q] \in {"read", "write"}
      <4>1. pc'[q] = AfterWakeup(i, w, ~w)[q]
        BY <1>3, <3>1, Zenon
      <4> QED
        BY <3>2, <4>1, Zenon DEF AfterWakeup
    <3> QED
      BY <3>3, Zenon DEF Asleep
  <2>4. \A j \in Pipes : Count(j)' = Count(j) \/ Count(j)' = 0
    <3>1. nread \in [Pipes -> 0 .. WRAP - 1] /\ nwrite \in [Pipes -> 0 .. WRAP - 1]
      BY Zenon DEF IInv, FileTypeOK
    <3>2. \/ nread'[i] = 0 /\ nwrite'[i] = 0
          \/ nread'[i] = nread[i] /\ nwrite'[i] = nwrite[i]
      BY <1>2, <3>1, Zenon
    <3> QED
      BY <1>5, <3>2, Consts DEF Count
  <2>5. \A j \in Pipes : j # i => Count(j)' = Count(j)
    BY <1>5, Zenon DEF Count
  <2>6. LockInv'
    <3>1. \A q \in Procs : pc'[q] \in {"rsleep", "wsleep"} <=> pc[q] \in {"rsleep", "wsleep"}
      BY <1>2, <1>3, <1>4, Zenon DEF PipeClosing
    <3>2. \A q \in Procs, j \in Pipes : plock[j] = q <=> pc[q] \in {"rsleep", "wsleep"} /\ PipeOf(q) = j
      BY Zenon DEF IInv, PipeInv, LockInv
    <3>3. plock' = plock
      BY <1>2, Zenon
    <3>4. \A q \in Procs : PipeOf(q)' = PipeOf(q)
      BY <1>3, Zenon
    <3> QED
      BY <3>1, <3>2, <3>3, <3>4 DEF LockInv
  <2>7. SleepersHaveReason'
    <3>1. kills' = kills /\ \A q \in Procs : PipeOf(q)' = PipeOf(q)
      BY <1>2, <1>3, Zenon
    <3>2. \A q \in Procs : pc'[q] \in Asleep =>
            /\ pc'[q] = pc[q] /\ Count(PipeOf(q))' = Count(PipeOf(q))
            /\ readopen'[PipeOf(q)] = readopen[PipeOf(q)]
            /\ writeopen'[PipeOf(q)] = writeopen[PipeOf(q)]
      BY <1>5, <2>2, <2>3, <3>1, Zenon DEF Count
    <3> QED
      BY <3>1, <3>2 DEF IInv, PipeInv, SleepersHaveReason, Asleep, Count
  <2>8. \A j \in Pipes : Count(j)' <= PIPESIZE
    BY <2>4, Consts DEF IInv, PipeInv
  <2> QED
    BY <1>2, <2>6, <2>7, <2>8, Zenon DEF IInv, PipeInv
<1> QED
  BY <1>6, <1>7, <1>8, <1>9, <1>10, Zenon DEF IInv

\* Unsigned arithmetic of nread and nwrite.
LEMMA Unsigned ==
  ASSUME NEW r \in 0 .. WRAP - 1, NEW w \in 0 .. WRAP - 1, NEW k \in Nat
  PROVE  /\ (w - r) % WRAP \in 0 .. WRAP - 1
         /\ Advance(r, k) \in 0 .. WRAP - 1
         /\ k <= (w - r) % WRAP => (w - Advance(r, k)) % WRAP = ((w - r) % WRAP) - k
         /\ ((w - r) % WRAP) + k < WRAP => (Advance(w, k) - r) % WRAP = ((w - r) % WRAP) + k
<1>1. (w - r) % WRAP \in 0 .. WRAP - 1 /\ Advance(r, k) \in 0 .. WRAP - 1
  BY Consts DEF Advance
<1>2. k <= (w - r) % WRAP => (w - Advance(r, k)) % WRAP = ((w - r) % WRAP) - k
  BY Consts DEF Advance
<1>3. ((w - r) % WRAP) + k < WRAP => (Advance(w, k) - r) % WRAP = ((w - r) % WRAP) + k
  BY Consts DEF Advance
<1> QED
  BY <1>1, <1>2, <1>3, Zenon

\* A buffer stays one.
LEMMA PutType ==
  ASSUME Counting, NEW b \in [0 .. PIPESIZE - 1 -> Bytes], NEW n \in Nat, NEW k \in Nat,
         NEW s \in [0 .. k - 1 -> Bytes]
  PROVE  Put(b, n, s) \in [0 .. PIPESIZE - 1 -> Bytes]
<1>1. ASSUME NEW j \in 0 .. PIPESIZE - 1
      PROVE  LET here == {m \in DOMAIN s : Slot(Advance(n, m)) = j} IN
             (IF here = {} THEN b[j] ELSE s[Max(here)]) \in Bytes
  <2> DEFINE here == {m \in DOMAIN s : Slot(Advance(n, m)) = j}
  <2>1. here \in SUBSET (0 .. k - 1)
    BY Zenon
  <2> HIDE DEF here
  <2>2. here # {} => Max(here) \in here
    BY <2>1, Zenon DEF Counting, Extremes
  <2>3. (IF here = {} THEN b[j] ELSE s[Max(here)]) \in Bytes
    BY <2>1, <2>2, Zenon
  <2> QED
    BY <2>3, Zenon DEF here
<1>2. DOMAIN b = 0 .. PIPESIZE - 1
  BY Zenon
<1> QED
  BY <1>1, <1>2, Zenon DEF Put

\* The smaller of two numbers.
LEMMA MinOfTwo ==
  ASSUME Counting, NEW a \in Nat, NEW b \in Nat
  PROVE  Min({a, b}) \in Nat /\ Min({a, b}) \in {a, b} /\ Min({a, b}) <= a /\ Min({a, b}) <= b
<1>1. {a, b} \in SUBSET Nat /\ {a, b} # {}
  BY Zenon
<1> QED
  BY <1>1, Zenon DEF Counting, Extremes

\* piperead waits, gives up or takes bytes.
LEMMA pipereadInv ==
  ASSUME Counting, IInv, NEW p \in Procs, piperead(p)
  PROVE  IInv'
<1>1. PICK i \in Pipes : i = PipeOf(p)
  BY CallEnd, Zenon DEF piperead, Reading
<1>2. /\ pc[p] = "read" /\ plock[i] = None
      /\ UNCHANGED <<filevars, used, nwrite, readopen, writeopen, ofile, killed, ff, closing, kills>>
  BY <1>1, Zenon DEF piperead
<1>3. \A q \in Procs : pc[q] \in {"rsleep", "wsleep"} => PipeOf(q) # i
  BY <1>2, LockFree, Zenon
<1>4. /\ \A j \in Pipes : plock[j] # p
      /\ \A q \in Procs, j \in Pipes :
           plock[j] = q <=> pc[q] \in {"rsleep", "wsleep"} /\ PipeOf(q) = j
  BY <1>2, Zenon DEF IInv, PipeInv, LockInv
<1>5. \A q \in Procs : q # p => file'[q] = file[q] /\ PipeOf(q)' = PipeOf(q)
  BY <1>2, Zenon DEF piperead, Return, IInv, FileTypeOK, PipeOf, filevars
<1>6. CASE /\ Waits(i) /\ pc' = [pc EXCEPT ![p] = "rsleep"] /\ plock' = [plock EXCEPT ![i] = p]
           /\ UNCHANGED <<nread, data, file, left>>
  <2>1. /\ pc'[p] = "rsleep" /\ \A q \in Procs : q # p => pc'[q] = pc[q]
        /\ plock'[i] = p /\ \A j \in Pipes : j # i => plock'[j] = plock[j]
        /\ PipeOf(p)' = i
    BY <1>1, <1>2, <1>6, Zenon DEF IInv, FileTypeOK, PipeOf, filevars
  <2>2. FileTypeOK'
    <3>1. pc' \in [Procs -> Places] /\ plock' \in [Pipes -> Procs \cup {None}]
      BY <1>6, Zenon DEF IInv, FileTypeOK, Places, Reading
    <3> QED
      BY <1>2, <1>6, <3>1, Zenon DEF IInv, FileTypeOK, filevars
  <2>3. RefsExact' /\ CallInv' /\ EndInv'
    <3>1. \A q \in Procs : Moves(q)
      BY <1>2, <1>6, <2>1, Zenon DEF Moves, Reading
    <3> QED
      BY <1>2, <3>1, OnPipe, Zenon
  <2>4. \A j : Count(j)' = Count(j)
    BY <1>2, <1>6, Zenon DEF Count
  <2>5. LockInv'
    <3>1. ASSUME NEW q \in Procs, NEW j \in Pipes, q # p
          PROVE  plock'[j] = q <=> pc'[q] \in {"rsleep", "wsleep"} /\ PipeOf(q)' = j
      <4>1. plock'[j] = q <=> plock[j] = q
        <5>1. CASE j = i
          BY <1>2, <2>1, <3>1, <5>1, Consts
        <5>2. CASE j # i
          BY <2>1, <5>2, Zenon
        <5> QED
          BY <5>1, <5>2, Zenon
      <4> QED
        BY <1>4, <1>5, <2>1, <3>1, <4>1
    <3>2. ASSUME NEW j \in Pipes
          PROVE  plock'[j] = p <=> pc'[p] \in {"rsleep", "wsleep"} /\ PipeOf(p)' = j
      <4>1. plock'[j] = p <=> j = i
        BY <1>4, <2>1
      <4> QED
        BY <2>1, <4>1
    <3> QED
      BY <3>1, <3>2, Zenon DEF LockInv
  <2>6. SleepersHaveReason'
    BY <1>1, <1>2, <1>5, <1>6, <2>1, <2>4 DEF IInv, PipeInv, SleepersHaveReason, Waits
  <2>7. PipeInv'
    BY <1>2, <2>4, <2>5, <2>6, Zenon DEF IInv, PipeInv
  <2> QED
    BY <2>2, <2>3, <2>7, Zenon DEF IInv
<1>7. CASE Waits(i) /\ killed[p] /\ Return(p, pc) /\ UNCHANGED <<nread, data, plock>>
  <2>1. /\ pc'[p] = "user" /\ \A q \in Procs : q # p => pc'[q] = pc[q]
        /\ pc' = [pc EXCEPT ![p] = "user"] /\ file' = [file EXCEPT ![p] = None]
        /\ left' = [left EXCEPT ![p] = 0]
    BY <1>7, Zenon DEF Return, IInv, FileTypeOK
  <2>2. FileTypeOK'
    BY <1>2, <1>7, <2>1, Zenon DEF IInv, FileTypeOK, Places, filevars
  <2>3. RefsExact' /\ CallInv' /\ EndInv'
    <3>1. \A q \in Procs : Moves(q)
      BY <1>2, <1>5, <2>1, Zenon DEF Moves, Reading
    <3> QED
      BY <1>2, <3>1, OnPipe, Zenon
  <2>4. PipeInv'
    <3>1. \A q \in Procs : \/ pc'[q] = pc[q] /\ PipeOf(q)' = PipeOf(q)
                           \/ pc[q] \notin Asleep /\ pc'[q] \notin Asleep
      BY <1>2, <1>5, <2>1, Zenon DEF Asleep
    <3> QED
      BY <1>2, <1>7, <3>1, PipeFrame, Zenon DEF IInv, PipeInv
  <2> QED
    BY <2>2, <2>3, <2>4, Zenon DEF IInv
<1>8. CASE /\ ~Waits(i)
           /\ LET k == Min({left[p], Count(i)}) IN
                /\ nread' = [nread EXCEPT ![i] = Advance(@, k)]
                /\ data' = [data EXCEPT ![i] = Put(@, nread[i], [m \in 0 .. k - 1 |-> 0])]
           /\ Return(p, AfterWakeup(i, FALSE, TRUE)) /\ UNCHANGED plock
  <2>1. /\ nread \in [Pipes -> 0 .. WRAP - 1] /\ nwrite \in [Pipes -> 0 .. WRAP - 1]
        /\ data \in [Pipes -> [0 .. PIPESIZE - 1 -> Bytes]]
        /\ left[p] \in Nat /\ Count(i) \in Nat
    <3>1. /\ nread \in [Pipes -> 0 .. WRAP - 1] /\ nwrite \in [Pipes -> 0 .. WRAP - 1]
          /\ data \in [Pipes -> [0 .. PIPESIZE - 1 -> Bytes]] /\ left[p] \in Nat
      BY Zenon DEF IInv, FileTypeOK
    <3>2. Count(i) \in Nat
      BY <3>1, Consts DEF Count
    <3> QED
      BY <3>1, <3>2, Zenon
  <2>2. PICK k \in Nat : /\ k <= Count(i)
                         /\ nread' = [nread EXCEPT ![i] = Advance(@, k)]
                         /\ data' = [data EXCEPT ![i] = Put(@, nread[i], [m \in 0 .. k - 1 |-> 0])]
    BY <1>8, <2>1, MinOfTwo, Zenon
  <2>3. /\ nread' \in [Pipes -> 0 .. WRAP - 1] /\ data' \in [Pipes -> [0 .. PIPESIZE - 1 -> Bytes]]
    <3>1. Advance(nread[i], k) \in 0 .. WRAP - 1
      BY <2>1, Unsigned, Zenon
    <3>2. Put(data[i], nread[i], [m \in 0 .. k - 1 |-> 0]) \in [0 .. PIPESIZE - 1 -> Bytes]
      <4>1. [m \in 0 .. k - 1 |-> 0] \in [0 .. k - 1 -> Bytes]
        BY FileAssumption, Zenon
      <4>2. nread[i] \in Nat /\ data[i] \in [0 .. PIPESIZE - 1 -> Bytes]
        BY <2>1, Consts
      <4> QED
        BY <4>1, <4>2, PutType, Zenon
    <3> QED
      BY <2>1, <2>2, <3>1, <3>2, Zenon
  <2>4. /\ Count(i)' = Count(i) - k
        /\ \A j \in Pipes : j # i => Count(j)' = Count(j)
    <3>1. nread'[i] = Advance(nread[i], k) /\ \A j \in Pipes : j # i => nread'[j] = nread[j]
      BY <2>1, <2>2, Zenon
    <3> QED
      BY <1>2, <2>1, <2>2, <3>1, Unsigned DEF Count
  <2>5. /\ pc' = [AfterWakeup(i, FALSE, TRUE) EXCEPT ![p] = "user"]
        /\ file' = [file EXCEPT ![p] = None] /\ left' = [left EXCEPT ![p] = 0]
    BY <1>8, Zenon DEF Return
  <2>6. /\ pc'[p] = "user"
        /\ \A q \in Procs : q # p => pc'[q] = IF pc[q] = "wasleep" /\ PipeOf(q) = i THEN "write" ELSE pc[q]
    BY <2>5, Zenon DEF AfterWakeup
  <2>7. FileTypeOK'
    <3>1. pc' \in [Procs -> Places]
      <4>1. AfterWakeup(i, FALSE, TRUE) \in [Procs -> Places]
        BY Zenon DEF AfterWakeup, IInv, FileTypeOK, Places, Writing
      <4> QED
        BY <2>5, <4>1, Zenon DEF Places
    <3>2. file' \in [Procs -> Files \cup {None}] /\ left' \in [Procs -> Nat]
      BY <2>5, Zenon DEF IInv, FileTypeOK
    <3> QED
      BY <1>2, <1>8, <2>3, <3>1, <3>2, Zenon DEF IInv, FileTypeOK, filevars
  <2>8. RefsExact' /\ CallInv' /\ EndInv'
    <3>1. \A q \in Procs : Moves(q)
      BY <1>2, <1>5, <2>6, Zenon DEF Moves, Reading, Writing
    <3> QED
      BY <1>2, <3>1, OnPipe, Zenon
  <2>9. LockInv'
    <3>1. \A q \in Procs : pc'[q] \in {"rsleep", "wsleep"} <=> pc[q] \in {"rsleep", "wsleep"}
      BY <1>2, <2>6, Zenon
    <3>2. \A q \in Procs : pc'[q] \in {"rsleep", "wsleep"} => PipeOf(q)' = PipeOf(q)
      BY <1>5, <2>6, Zenon
    <3> QED
      BY <1>4, <1>8, <3>1, <3>2 DEF LockInv
  <2>10. SleepersHaveReason'
    <3> SUFFICES ASSUME NEW q \in Procs, pc'[q] \in Asleep
                 PROVE  /\ pc'[q] \in {"wsleep", "wasleep"} => Count(PipeOf(q))' = PIPESIZE /\ readopen'[PipeOf(q)']
                        /\ pc'[q] \in {"rsleep", "rasleep"} /\ kills' = 0
                             => Count(PipeOf(q))' = 0 /\ writeopen'[PipeOf(q)']
      BY Zenon DEF SleepersHaveReason, Asleep
    <3>1. q # p /\ pc'[q] = pc[q] /\ PipeOf(q)' = PipeOf(q) /\ PipeOf(q) \in Pipes
      BY <1>5, <2>6, CallEnd, Zenon DEF Asleep, Reading, Writing
    <3>2. PICK j \in Pipes : j = PipeOf(q) /\ j = PipeOf(q)'
      BY <3>1, Zenon
    <3>3. CASE j # i
      <4>1. Count(PipeOf(q))' = Count(PipeOf(q))
        BY <2>4, <3>2, <3>3, Zenon DEF Count
      <4> QED
        BY <1>2, <3>1, <4>1, Zenon DEF IInv, PipeInv, SleepersHaveReason
    <3>4. CASE j = i
      <4>1. pc[q] = "rasleep"
        BY <1>3, <2>6, <3>1, <3>2, <3>4, Zenon DEF Asleep
      <4>2. kills # 0
        BY <1>8, <3>2, <3>4, <4>1, Zenon DEF IInv, PipeInv, SleepersHaveReason, Waits
      <4> QED
        BY <1>2, <3>1, <4>1, <4>2, Zenon
    <3> QED
      BY <3>3, <3>4, Zenon
  <2>11. PipeInv'
    <3>1. \A j \in Pipes : Count(j)' <= PIPESIZE
      <4>1. \A j \in Pipes : Count(j) <= PIPESIZE
        BY Zenon DEF IInv, PipeInv
      <4>2. Count(i)' <= PIPESIZE
        BY <2>1, <2>2, <2>4, <4>1, Consts
      <4> QED
        BY <2>4, <4>1, <4>2, Zenon
    <3> QED
      BY <1>2, <2>9, <2>10, <3>1, Zenon DEF IInv, PipeInv
  <2> QED
    BY <2>7, <2>8, <2>11, Zenon DEF IInv
<1> QED
  BY <1>1, <1>6, <1>7, <1>8, Zenon DEF piperead

\* pipewrite fills the pipe, and returns or waits.
LEMMA pipewriteInv ==
  ASSUME Counting, IInv, NEW p \in Procs, pipewrite(p)
  PROVE  IInv'
<1>1. PICK i \in Pipes : i = PipeOf(p)
  BY CallEnd, Zenon DEF pipewrite, Writing
<1>2. /\ pc[p] = "write" /\ plock[i] = None
      /\ UNCHANGED <<filevars, used, nread, readopen, writeopen, ofile, killed, ff, closing, kills>>
  BY <1>1, Zenon DEF pipewrite
<1>3. \A q \in Procs : pc[q] \in {"rsleep", "wsleep"} => PipeOf(q) # i
  BY <1>2, LockFree, Zenon
<1>4. /\ \A j \in Pipes : plock[j] # p
      /\ \A q \in Procs, j \in Pipes :
           plock[j] = q <=> pc[q] \in {"rsleep", "wsleep"} /\ PipeOf(q) = j
  BY <1>2, Zenon DEF IInv, PipeInv, LockInv
<1>5. \A q \in Procs : q # p => file'[q] = file[q] /\ PipeOf(q)' = PipeOf(q)
  BY <1>2, Zenon DEF pipewrite, Return, IInv, FileTypeOK, PipeOf, filevars
<1>6. /\ nread \in [Pipes -> 0 .. WRAP - 1] /\ nwrite \in [Pipes -> 0 .. WRAP - 1]
      /\ data \in [Pipes -> [0 .. PIPESIZE - 1 -> Bytes]] /\ left[p] \in Nat
  BY Zenon DEF IInv, FileTypeOK
<1>7. Count(i) \in Nat /\ PIPESIZE - Count(i) \in Nat
  <2>1. Count(i) \in Nat
    BY <1>6, Consts DEF Count
  <2> QED
    BY <2>1, Consts DEF IInv, PipeInv
<1>8. PICK k \in Nat : k = Min({left[p], PIPESIZE - Count(i)})
  BY <1>6, <1>7, MinOfTwo, Zenon
<1>9. k \in {left[p], PIPESIZE - Count(i)} /\ k <= left[p] /\ k <= PIPESIZE - Count(i)
  BY <1>6, <1>7, <1>8, MinOfTwo, Zenon
<1>10. /\ \E s \in [0 .. k - 1 -> Bytes] : data' = [data EXCEPT ![i] = Put(@, nwrite[i], s)]
       /\ nwrite' = [nwrite EXCEPT ![i] = Advance(@, k)]
       /\ \/ left[p] = k /\ Return(p, AfterWakeup(i, TRUE, FALSE)) /\ UNCHANGED plock
          \/ /\ left[p] > k /\ (~readopen[i] \/ killed[p])
             /\ Return(p, pc) /\ UNCHANGED plock
          \/ /\ left[p] > k /\ readopen[i] /\ ~killed[p]
             /\ pc' = [AfterWakeup(i, TRUE, FALSE) EXCEPT ![p] = "wsleep"]
             /\ left' = [left EXCEPT ![p] = @ - k]
             /\ plock' = [plock EXCEPT ![i] = p] /\ UNCHANGED file
  BY <1>1, <1>8, Zenon DEF pipewrite
<1>11. nwrite' \in [Pipes -> 0 .. WRAP - 1] /\ data' \in [Pipes -> [0 .. PIPESIZE - 1 -> Bytes]]
  <2>1. Advance(nwrite[i], k) \in 0 .. WRAP - 1
    BY <1>6, Unsigned, Zenon
  <2>2. PICK s \in [0 .. k - 1 -> Bytes] : data' = [data EXCEPT ![i] = Put(@, nwrite[i], s)]
    BY <1>10, Zenon
  <2>3. Put(data[i], nwrite[i], s) \in [0 .. PIPESIZE - 1 -> Bytes]
    <3>1. nwrite[i] \in Nat /\ data[i] \in [0 .. PIPESIZE - 1 -> Bytes]
      BY <1>6, Consts
    <3> QED
      BY <3>1, PutType, Zenon
  <2> QED
    BY <1>6, <1>10, <2>1, <2>2, <2>3, Zenon
<1>12. /\ Count(i)' = Count(i) + k
       /\ \A j \in Pipes : j # i => Count(j)' = Count(j)
  <2>1. nwrite'[i] = Advance(nwrite[i], k) /\ \A j \in Pipes : j # i => nwrite'[j] = nwrite[j]
    BY <1>6, <1>10, Zenon
  <2>2. Count(i) + k < WRAP
    BY <1>7, <1>9, Consts
  <2>3. nread[i] \in 0 .. WRAP - 1 /\ nwrite[i] \in 0 .. WRAP - 1
    BY <1>6, Zenon
  <2>4. (Advance(nwrite[i], k) - nread[i]) % WRAP = ((nwrite[i] - nread[i]) % WRAP) + k
    BY <2>2, <2>3, Unsigned, Zenon DEF Count
  <2> QED
    BY <1>2, <2>1, <2>4, Zenon DEF Count
<1>13. \A j \in Pipes : Count(j)' <= PIPESIZE
  <2>1. \A j \in Pipes : Count(j) <= PIPESIZE
    BY Zenon DEF IInv, PipeInv
  <2>2. Count(i)' <= PIPESIZE
    BY <1>7, <1>9, <1>12, Consts
  <2> QED
    BY <1>12, <2>1, <2>2, Zenon
<1>14. \A q \in Procs : pc[q] = "wasleep" /\ PipeOf(q) = i => Count(i)' = PIPESIZE /\ readopen[i]
  <2>1. \A q \in Procs : pc[q] = "wasleep" /\ PipeOf(q) = i => Count(i) = PIPESIZE /\ readopen[i]
    BY Zenon DEF IInv, PipeInv, SleepersHaveReason
  <2>2. Count(i) = PIPESIZE => Count(i)' = PIPESIZE
    BY <1>7, <1>9, <1>12, Consts
  <2> QED
    BY <2>1, <2>2, Zenon
\* Who still sleeps, other than p, does so for a reason.
<1>15. ASSUME NEW q \in Procs, q # p, pc'[q] = pc[q], pc[q] \in Asleep,
              PipeOf(q) = i /\ pc[q] = "rasleep" => kills # 0
       PROVE  /\ pc'[q] \in {"wsleep", "wasleep"} => Count(PipeOf(q))' = PIPESIZE /\ readopen'[PipeOf(q)']
              /\ pc'[q] \in {"rsleep", "rasleep"} /\ kills' = 0
                   => Count(PipeOf(q))' = 0 /\ writeopen'[PipeOf(q)']
  <2>1. PICK j \in Pipes : j = PipeOf(q) /\ j = PipeOf(q)'
    BY <1>5, <1>15, CallEnd, Zenon DEF Asleep, Reading, Writing
  <2>2. CASE j # i
    <3>1. Count(PipeOf(q))' = Count(PipeOf(q))
      BY <1>12, <2>1, <2>2, Zenon DEF Count
    <3> QED
      BY <1>2, <1>5, <1>15, <3>1, Zenon DEF IInv, PipeInv, SleepersHaveReason
  <2>3. CASE j = i
    <3>1. pc[q] \in {"rasleep", "wasleep"} /\ PipeOf(q) = i /\ PipeOf(q)' = i
      BY <1>3, <1>15, <2>1, <2>3, Zenon DEF Asleep
    <3>2. Count(PipeOf(q))' = Count(i)'
      BY <3>1, Zenon DEF Count
    <3> QED
      BY <1>2, <1>14, <1>15, <3>1, <3>2, Zenon
  <2> QED
    BY <2>2, <2>3, Zenon
<1>16. CASE Return(p, AfterWakeup(i, TRUE, FALSE)) /\ UNCHANGED plock
  <2>1. /\ pc' = [AfterWakeup(i, TRUE, FALSE) EXCEPT ![p] = "user"]
        /\ file' = [file EXCEPT ![p] = None] /\ left' = [left EXCEPT ![p] = 0]
    BY <1>16, Zenon DEF Return
  <2>2. /\ pc'[p] = "user"
        /\ \A q \in Procs : q # p => pc'[q] = IF pc[q] = "rasleep" /\ PipeOf(q) = i THEN "read" ELSE pc[q]
    BY <2>1, Zenon DEF AfterWakeup
  <2>3. FileTypeOK'
    <3>1. pc' \in [Procs -> Places]
      <4>1. AfterWakeup(i, TRUE, FALSE) \in [Procs -> Places]
        BY Zenon DEF AfterWakeup, IInv, FileTypeOK, Places, Reading
      <4> QED
        BY <2>1, <4>1, Zenon DEF Places
    <3>2. file' \in [Procs -> Files \cup {None}] /\ left' \in [Procs -> Nat]
      BY <2>1, Zenon DEF IInv, FileTypeOK
    <3> QED
      BY <1>2, <1>11, <1>16, <3>1, <3>2, Zenon DEF IInv, FileTypeOK, filevars
  <2>4. RefsExact' /\ CallInv' /\ EndInv'
    <3>1. \A q \in Procs : Moves(q)
      BY <1>2, <1>5, <2>2, Zenon DEF Moves, Reading, Writing
    <3> QED
      BY <1>2, <3>1, OnPipe, Zenon
  <2>5. LockInv'
    <3>1. \A q \in Procs : pc'[q] \in {"rsleep", "wsleep"} <=> pc[q] \in {"rsleep", "wsleep"}
      BY <1>2, <2>2, Zenon
    <3>2. \A q \in Procs : pc'[q] \in {"rsleep", "wsleep"} => PipeOf(q)' = PipeOf(q)
      BY <1>5, <2>2, Zenon
    <3> QED
      BY <1>4, <1>16, <3>1, <3>2 DEF LockInv
  <2>6. \A q \in Procs : pc'[q] \in Asleep =>
          /\ q # p /\ pc'[q] = pc[q] /\ pc[q] \in Asleep
          /\ ~(PipeOf(q) = i /\ pc[q] = "rasleep")
    BY <2>2, Zenon DEF Asleep
  <2>7. SleepersHaveReason'
    BY <1>15, <2>6, Zenon DEF SleepersHaveReason, Asleep
  <2> QED
    BY <1>2, <1>13, <2>3, <2>4, <2>5, <2>7, Zenon DEF IInv, PipeInv
<1>17. CASE (~readopen[i] \/ killed[p]) /\ Return(p, pc) /\ UNCHANGED plock
  <2>1. /\ pc' = [pc EXCEPT ![p] = "user"]
        /\ file' = [file EXCEPT ![p] = None] /\ left' = [left EXCEPT ![p] = 0]
    BY <1>17, Zenon DEF Return
  <2>2. pc'[p] = "user" /\ \A q \in Procs : q # p => pc'[q] = pc[q]
    BY <2>1, Zenon DEF IInv, FileTypeOK
  <2>3. FileTypeOK'
    BY <1>2, <1>11, <1>17, <2>1, Zenon DEF IInv, FileTypeOK, Places, filevars
  <2>4. RefsExact' /\ CallInv' /\ EndInv'
    <3>1. \A q \in Procs : Moves(q)
      BY <1>2, <1>5, <2>2, Zenon DEF Moves, Reading, Writing
    <3> QED
      BY <1>2, <3>1, OnPipe, Zenon
  <2>5. LockInv'
    BY <1>2, <1>4, <1>5, <1>17, <2>2 DEF LockInv
  <2>6. \A q \in Procs : PipeOf(q) = i /\ pc[q] = "rasleep" => kills # 0
    BY <1>17, CallEnd, Zenon DEF IInv, PipeInv, Reading
  <2>7. SleepersHaveReason'
    BY <1>15, <2>2, <2>6, Zenon DEF SleepersHaveReason, Asleep
  <2> QED
    BY <1>2, <1>13, <2>3, <2>4, <2>5, <2>7, Zenon DEF IInv, PipeInv
<1>18. CASE /\ left[p] > k /\ readopen[i]
            /\ pc' = [AfterWakeup(i, TRUE, FALSE) EXCEPT ![p] = "wsleep"]
            /\ left' = [left EXCEPT ![p] = @ - k]
            /\ plock' = [plock EXCEPT ![i] = p] /\ UNCHANGED file
  <2>1. Count(i)' = PIPESIZE /\ PipeOf(p)' = i
    BY <1>1, <1>2, <1>6, <1>7, <1>9, <1>12, <1>18, Consts DEF PipeOf, filevars
  <2>2. /\ pc'[p] = "wsleep"
        /\ \A q \in Procs : q # p => pc'[q] = IF pc[q] = "rasleep" /\ PipeOf(q) = i THEN "read" ELSE pc[q]
    BY <1>18 DEF AfterWakeup
  <2>3. plock'[i] = p /\ (\A j \in Pipes : j # i => plock'[j] = plock[j])
        /\ plock' \in [Pipes -> Procs \cup {None}]
    BY <1>18, Zenon DEF IInv, FileTypeOK
  <2>4. FileTypeOK'
    <3>1. pc' \in [Procs -> Places]
      <4>1. AfterWakeup(i, TRUE, FALSE) \in [Procs -> Places]
        BY Zenon DEF AfterWakeup, IInv, FileTypeOK, Places, Reading
      <4> QED
        BY <1>18, <4>1, Zenon DEF Places, Writing
    <3>2. left' \in [Procs -> Nat]
      <4>1. left \in [Procs -> Nat] /\ left[p] - k \in Nat
        BY <1>6, <1>9 DEF IInv, FileTypeOK
      <4> QED
        BY <1>18, <4>1, Zenon
    <3> QED
      BY <1>2, <1>11, <1>18, <2>3, <3>1, <3>2 DEF IInv, FileTypeOK, filevars
  <2>5. RefsExact' /\ CallInv' /\ EndInv'
    <3>1. \A q \in Procs : Moves(q)
      BY <1>2, <1>18, <2>2, Zenon DEF Moves, Reading, Writing
    <3> QED
      BY <1>2, <3>1, OnPipe, Zenon
  <2>6. LockInv'
    <3>1. \A q \in Procs : q # p => (pc'[q] \in {"rsleep", "wsleep"} <=> pc[q] \in {"rsleep", "wsleep"})
      BY ONLY <2>2
    <3> QED
      BY <1>2, <1>3, <1>4, <1>5, <2>1, <2>2, <2>3, <3>1, Consts DEF LockInv
  <2>7. SleepersHaveReason'
    <3>1. \A q \in Procs : pc'[q] \in Asleep /\ q # p =>
            /\ pc'[q] = pc[q] /\ pc[q] \in Asleep
            /\ ~(PipeOf(q) = i /\ pc[q] = "rasleep")
      BY <2>2 DEF Asleep
    <3>2. Count(PipeOf(p))' = PIPESIZE /\ readopen'[PipeOf(p)']
      BY <1>2, <1>18, <2>1, Zenon DEF Count
    <3> QED
      BY <1>15, <2>2, <3>1, <3>2, Zenon DEF SleepersHaveReason, Asleep
  <2> QED
    BY <1>2, <1>13, <2>4, <2>5, <2>6, <2>7, Zenon DEF IInv, PipeInv
<1> QED
  BY <1>10, <1>16, <1>17, <1>18

-----------------------------------------------------------------------------
(* The invariant *)

\* No file is open at first.
LEMMA InitInv ==
  ASSUME Counting, Init
  PROVE  IInv
<1>1. FileTypeOK
  BY FileAssumption, Consts DEF Init, FileTypeOK, Places, NoFile, EmptyBuffer
<1>2. RefsExact
  <2>1. \A f \in Files : Descriptors(f) = {} /\ Borrowers(f) = {}
    BY Consts DEF Init, Descriptors, Borrowers
  <2>2. Cardinality({}) = 0
    BY Zenon DEF Counting
  <2>3. \A f \in Files : ref[f] = 0
    BY Zenon DEF Init
  <2>4. ASSUME NEW f \in Files
        PROVE  ref[f] = Cardinality(Descriptors(f)) + Cardinality(Borrowers(f))
    <3>1. Cardinality(Descriptors(f)) = 0 /\ Cardinality(Borrowers(f)) = 0 /\ ref[f] = 0
      BY <2>1, <2>2, <2>3, Zenon
    <3> QED
      BY <3>1
  <2> QED
    BY <2>4, Zenon DEF RefsExact
<1>3. CallInv
  BY DEF Init, CallInv, CallOK, NoFile, Reading, Writing, PipeClosing
<1>4. EndInv
  <2>1. \A f \in Files, i \in Pipes, w \in BOOLEAN : ~FileEnd(f, i, w)
    BY Zenon DEF Init, FileEnd
  <2>2. \A p \in Procs, i \in Pipes, w \in BOOLEAN : ~CloseEnd(p, i, w)
    BY Consts, Zenon DEF Init, CloseEnd, NoFile
  <2>3. \A i \in Pipes : ~readopen[i] /\ ~writeopen[i] /\ ~used[i]
    BY Zenon DEF Init
  <2>4. \A i \in Pipes : EndOK(i, FALSE) /\ EndOK(i, TRUE)
    BY <2>1, <2>2, <2>3, Zenon DEF EndOK
  <2>5. \A f \in Files : type[f] = "FD_NONE"
    BY Zenon DEF Init
  <2> QED
    BY <2>3, <2>4, <2>5, Zenon DEF EndInv
<1>5. PipeInv
  <2>1. \A p \in Procs : pc[p] \in {"user", "unused"} /\ ~killed[p]
    BY Zenon DEF Init
  <2>2. \A i \in Pipes : Count(i) = 0 /\ plock[i] = None
    BY Consts DEF Init, Count
  <2>3. LockInv
    BY <2>1, <2>2, Consts, Zenon DEF LockInv
  <2>4. SleepersHaveReason
    BY <2>1, Zenon DEF SleepersHaveReason
  <2> QED
    BY <2>1, <2>2, <2>3, <2>4, Consts DEF PipeInv
<1> QED
  BY <1>1, <1>2, <1>3, <1>4, <1>5 DEF IInv

\* Every step preserves the invariant.
LEMMA StepInv ==
  ASSUME Counting, IInv, [Next]_vars
  PROVE  IInv'
<1>1. CASE UNCHANGED vars
  <2>1. UNCHANGED <<ref, type, writable, fpipe, used, nread, nwrite, data, readopen, writeopen,
                    plock, ofile, killed, pc, file, ff, left, closing, kills>>
    BY <1>1, Zenon DEF vars, filevars, pipevars
  <2>2. FileTypeOK'
    BY <2>1, Zenon DEF IInv, FileTypeOK
  <2>3. RefsExact' /\ CallInv' /\ EndInv'
    BY <2>1, OnPipe, Zenon DEF Moves, filevars
  <2>4. PipeInv'
    BY <2>1, PipeFrame, Zenon DEF IInv, PipeInv, PipeOf
  <2> QED
    BY <2>2, <2>3, <2>4, Zenon DEF IInv
<1>2. CASE Next
  <2>1. ASSUME NEW p \in Procs, Step(p)
        PROVE  IInv'
    BY Zenon, <2>1, pipealloc_failsInv, pipeallocInv, close_nextInv, pipecloseInv, pipereadInv,
       pipewriteInv, sleepInv, Zenon DEF Step
  <2>2. ASSUME NEW p \in Procs, open(p) \/ filealloc(p) \/ exit(p)
        PROVE  IInv'
    BY <2>2, openInv, fileallocInv, exitInv, Zenon
  <2>3. ASSUME NEW p \in Procs, NEW d \in Fds, dup(p, d) \/ close(p, d) \/ \E n \in Sizes : read(p, d, n)
        PROVE  IInv'
    BY <2>3, dupInv, closeInv, readInv, Zenon
  <2>4. ASSUME NEW p \in Procs, NEW q \in Procs, fork(p, q) \/ kill(p, q)
        PROVE  IInv'
    BY <2>4, forkInv, killInv, Zenon
  <2> QED
    BY <1>2, <2>1, <2>2, <2>3, <2>4, Zenon DEF Next
<1> QED
  BY <1>1, <1>2, Zenon

-----------------------------------------------------------------------------
(* Finite sets *)
INSTANCE FiniteSetTheorems

\* A set of numbers has a least element, and a bounded one a greatest.
LEMMA Least ==
  ASSUME NEW T \in SUBSET Nat, T # {}
  PROVE  Min(T) \in T /\ \A y \in T : Min(T) <= y
<1>1. PICK x \in T : \A y \in T : ~(<<y, x>> \in OpToRel(<, Nat))
  BY NatLessThanWellFounded, WFMin, Zenon
<1>2. ASSUME NEW y \in T
      PROVE  ~(y < x)
  <2>1. <<y, x>> \in Nat \X Nat /\ <<y, x>> \notin OpToRel(<, Nat)
    BY <1>1, Zenon
  <2> QED
    BY <2>1, Zenon DEF OpToRel
<1>3. \E z \in T : \A y \in T : z <= y
  BY <1>2
<1> QED
  BY <1>3, Zenon DEF Min

\* The greatest is the least bound.
LEMMA Greatest ==
  ASSUME NEW k \in Nat, NEW S \in SUBSET (0 .. k - 1), S # {}
  PROVE  Max(S) \in S
<1> DEFINE T == {u \in Nat : \A y \in S : y <= u}
<1>1. T \in SUBSET Nat /\ k \in T
  OBVIOUS
<1>2. PICK m \in T : m = Min(T) /\ \A u \in T : m <= u
  BY <1>1, Least, Zenon
<1>3. m \in S
  <2> SUFFICES ASSUME m \notin S
               PROVE  FALSE
    BY Zenon
  <2>1. \A y \in S : y \in Nat /\ y <= m /\ y # m
    BY <1>2
  <2>2. PICK z \in S : z \in Nat /\ z <= m /\ z # m
    BY <2>1, Zenon
  <2>3. m \in Nat
    BY <1>2, Zenon
  <2>4. m - 1 \in Nat
    BY <2>2, <2>3
  <2>5. \A y \in S : y <= m - 1
    BY <2>1, <2>3
  <2>6. m - 1 \in T
    BY <2>4, <2>5, Zenon
  <2> QED
    BY <1>2, <2>3, <2>6
<1>4. \E z \in S : \A y \in S : z >= y
  BY <1>2, <1>3
<1> QED
  BY <1>4, Zenon DEF Max

\* Processes and descriptors are finitely many.
LEMMA ProcsCount == Counting
<1>1. IsFiniteSet(Procs) /\ IsFiniteSet(Fds) /\ IsFiniteSet(Procs \X Fds)
  <2>1. IsFiniteSet(Fds)
    BY FileAssumption, FS_Interval DEF Fds
  <2> QED
    BY <2>1, FileAssumption, FS_Product, Zenon
<1>2. ASSUME NEW U, IsFiniteSet(U), NEW S \in SUBSET U
      PROVE  /\ IsFiniteSet(S) /\ Cardinality(S) \in Nat
             /\ \A x \in U \ S : Cardinality(S \cup {x}) = Cardinality(S) + 1
             /\ \A x \in S : Cardinality(S \ {x}) = Cardinality(S) - 1
  BY <1>2, FS_Subset, FS_CardinalityType, FS_AddElement, FS_RemoveElement
<1>3. ASSUME NEW S \in SUBSET (Procs \X Fds), NEW T \in SUBSET (Procs \X Fds), NEW E \in SUBSET Fds,
             NEW q \in Procs, FdsOf(T, q, E), S \cap T = {}
      PROVE  Cardinality(S \cup T) = Cardinality(S) + Cardinality(E)
  <2>1. IsFiniteSet(S) /\ IsFiniteSet(T) /\ IsFiniteSet(E)
    BY <1>1, <1>2, Zenon
  <2>2. ExistsBijection(E, T)
    <3> DEFINE F == [d \in E |-> <<q, d>>]
    <3>1. \A r \in Procs, d \in Fds : <<r, d>> \in T <=> r = q /\ d \in E
      BY <1>3, Zenon DEF FdsOf
    <3>2. F \in [E -> T]
      BY <3>1, Zenon
    <3>3. \A a, b \in E : F[a] = F[b] => a = b
      BY Zenon
    <3>4. \A t \in T : \E d \in E : F[d] = t
      BY <3>1
    <3> HIDE DEF F
    <3>5. F \in Bijection(E, T)
      BY <3>2, <3>3, <3>4, Zenon DEF Bijection, Injection, Surjection, IsInjective
    <3> QED
      BY <3>5, Zenon DEF ExistsBijection
  <2>3. Cardinality(T) = Cardinality(E)
    BY <2>1, <2>2, FS_Bijection
  <2>4. Cardinality(S \cup T) = Cardinality(S) + Cardinality(T) - 0
    BY <1>3, <2>1, FS_Union, FS_EmptySet
  <2> QED
    BY <2>1, <2>3, <2>4, FS_CardinalityType
<1>4. ASSUME NEW E \in SUBSET Fds
      PROVE  /\ Cardinality(E) \in Nat
             /\ \A d \in E : E \ {d} = {} => Cardinality(E) < 2
             /\ E = {} => Cardinality(E) < 2
  BY <1>1, <1>2, FS_EmptySet
<1>5. Cardinality({}) = 0
  BY FS_EmptySet
<1>6. CountProcs
  BY <1>1, <1>2, Zenon DEF CountProcs
<1>7. CountPairs
  BY <1>1, <1>2 DEF CountPairs
<1>8. CountUnion
  BY <1>3 DEF CountUnion
<1>9. CountFds
  BY <1>4, Zenon DEF CountFds
<1>10. Extremes
  BY Least, Greatest, Zenon DEF Extremes
<1> QED
  BY <1>5, <1>6, <1>7, <1>8, <1>9, <1>10 DEF Counting

-----------------------------------------------------------------------------
(* Theorems *)

\* The invariant holds in every reachable state.
LEMMA Invariant == Spec => []IInv
<1>1. Init => IInv
  BY InitInv, ProcsCount, Zenon
<1>2. IInv /\ [Next]_vars => IInv'
  BY StepInv, ProcsCount, Zenon
<1> QED
  BY <1>1, <1>2, PTL DEF Spec

\* An entry of the file table counts the descriptors and the calls in progress
\* that refer to it, however fileclose, filedup, fork, exit and the error paths
\* of pipealloc, sys_pipe and sys_open interleave (file.c:26-80).
THEOREM ReferencesAreExact == Spec => []RefsExact
<1>1. IInv => RefsExact
  BY Zenon DEF IInv
<1> QED
  BY <1>1, Invariant, PTL

\* A pipe is freed with its second end, and an end is closed when the last file
\* that refers to it is, although pipeclose works on a copy of an entry that may
\* be in use again (file.c:67-79, pipe.c:59-75).
THEOREM PipesLiveWithTheirEnds == Spec => []PipesInUse
<1>1. ASSUME IInv
      PROVE  PipesInUse
  <2> SUFFICES ASSUME NEW i \in Pipes
               PROVE  LET Referred(w) == \/ \E f \in Files : /\ ref[f] > 0 /\ type[f] = "FD_PIPE"
                                                            /\ fpipe[f] = i /\ writable[f] = w
                                         \/ \E p \in Procs : ff[p] = [pipe |-> i, writable |-> w] IN
                      /\ readopen[i] <=> Referred(FALSE)
                      /\ writeopen[i] <=> Referred(TRUE)
                      /\ used[i] <=> readopen[i] \/ writeopen[i]
    BY DEF PipesInUse
  <2>1. \A f \in Files, w \in BOOLEAN :
          FileEnd(f, i, w) <=> /\ ref[f] > 0 /\ type[f] = "FD_PIPE"
                               /\ fpipe[f] = i /\ writable[f] = w
    BY <1>1 DEF FileEnd, IInv, EndInv, FileTypeOK
  <2>2. \A p \in Procs, w \in BOOLEAN : CloseEnd(p, i, w) <=> ff[p] = [pipe |-> i, writable |-> w]
    BY <1>1 DEF CloseEnd, IInv, FileTypeOK
  <2>3. EndOK(i, FALSE) /\ EndOK(i, TRUE) /\ (used[i] <=> readopen[i] \/ writeopen[i])
    BY <1>1, Zenon DEF IInv, EndInv
  <2> QED
    BY <2>1, <2>2, <2>3, Zenon DEF EndOK
<1> QED
  BY <1>1, Invariant, PTL

\* Whoever sleeps in pipewrite or piperead does so on a full or an empty pipe
\* whose other end is open: no wakeup is lost (pipe.c:59-121).
THEOREM PipesWakeTheirSleepers == Spec => []SleepersHaveReason
<1>1. IInv => SleepersHaveReason
  BY Zenon DEF IInv, PipeInv
<1> QED
  BY <1>1, Invariant, PTL
=============================================================================
