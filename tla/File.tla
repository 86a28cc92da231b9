-------------------------------- MODULE File --------------------------------
(***************************************************************************)
(* Open files: the file table of file.c, the descriptors of sysfile.c and  *)
(* the pipes of pipe.c, with the processes that share them by fork.        *)
(*                                                                         *)
(* One action is one critical section of ftable.lock or of a pipe's lock   *)
(* with the unlocked code up to the next one: a process's descriptors are  *)
(* its own, and nobody else touches a file that is being set up.  sleep    *)
(* keeps the pipe's lock until it has ptable.lock, which kill takes too,   *)
(* so it is a step of its own.                                             *)
(***************************************************************************)
EXTENDS Integers, Sequences, FiniteSets, FiniteSetsExt

CONSTANTS
  Procs,     \* processes, numbered from 1
  NFILE,     \* entries of ftable (100 in the source)
  NOFILE,    \* descriptors of a process (16 in the source)
  NPIPE,     \* pages that kalloc has for pipes
  PIPESIZE,  \* bytes in a pipe (512 in the source)
  WRAP,      \* nread and nwrite are counted modulo WRAP (2^32 in the source)
  Bytes,     \* what is written
  Sizes,     \* bound: how many bytes are read or written at a time
  MaxKills   \* bound: calls of kill

ASSUME FileAssumption ==
  /\ Procs \subseteq Nat \ {0} /\ Procs # {} /\ IsFiniteSet(Procs)
  /\ NFILE \in Nat \ {0} /\ NOFILE \in Nat \ {0}
  /\ NPIPE \in Nat \ {0} /\ PIPESIZE \in Nat \ {0}
  /\ Sizes \subseteq Nat \ {0} /\ 0 \in Bytes /\ MaxKills \in Nat
  /\ WRAP \in Nat /\ WRAP > PIPESIZE /\ WRAP % PIPESIZE = 0

Files == 1 .. NFILE
Fds == 0 .. NOFILE - 1
Pipes == 1 .. NPIPE
None == 0
NoFile == [pipe |-> None, writable |-> FALSE]
EmptyBuffer == [k \in 0 .. PIPESIZE - 1 |-> 0]
FirstProc == Min(Procs)

VARIABLES
  ref, type, writable, fpipe,                   \* struct file
  used, nread, nwrite, data, readopen, writeopen, \* struct pipe, once allocated
  plock,                                        \* holder of a pipe's lock, in sleep
  ofile, killed,                                \* struct proc
  pc,                                           \* where a process is in the kernel
  file,                                         \* the file its call is about
  ff,                                           \* fileclose's copy: pipe and writable
  left,                                         \* bytes its read or write has left
  closing,                                      \* files its call still has to close
  kills

filevars == <<ref, type, writable, fpipe>>
pipevars == <<used, nread, nwrite, data, readopen, writeopen>>
vars == <<filevars, pipevars, plock, ofile, killed, pc, file, ff, left, closing, kills>>

\* One process, with no files open.
Init ==
  /\ ref = [f \in Files |-> 0] /\ type = [f \in Files |-> "FD_NONE"]
  /\ writable = [f \in Files |-> FALSE] /\ fpipe = [f \in Files |-> None]
  /\ used = [i \in Pipes |-> FALSE]
  /\ nread = [i \in Pipes |-> 0] /\ nwrite = [i \in Pipes |-> 0]
  /\ data = [i \in Pipes |-> EmptyBuffer]
  /\ readopen = [i \in Pipes |-> FALSE] /\ writeopen = [i \in Pipes |-> FALSE]
  /\ plock = [i \in Pipes |-> None]
  /\ ofile = [p \in Procs |-> [d \in Fds |-> None]] /\ killed = [p \in Procs |-> FALSE]
  /\ pc = [p \in Procs |-> IF p = FirstProc THEN "user" ELSE "unused"]
  /\ file = [p \in Procs |-> None] /\ left = [p \in Procs |-> 0]
  /\ ff = [p \in Procs |-> NoFile]
  /\ closing = [p \in Procs |-> <<>>] /\ kills = 0

-----------------------------------------------------------------------------
(* Descriptors and the file table *)

\* trap: a killed process gets no further than exit.
CanCall(p) == pc[p] = "user" /\ ~killed[p]

FreeFiles == {f \in Files : ref[f] = 0}
FreeFds(p) == {d \in Fds : ofile[p][d] = None}

\* filealloc and fdalloc take the first free entry.
FirstFile == Min(FreeFiles)
FirstFd(p) == Min(FreeFds(p))

\* sys_open, as far as the file table is concerned.
open(p) ==
  /\ CanCall(p) /\ FreeFiles # {}
  /\ ref' = [ref EXCEPT ![FirstFile] = 1]
  /\ IF FreeFds(p) = {}
     THEN /\ closing' = [closing EXCEPT ![p] = <<FirstFile>>]
          /\ pc' = [pc EXCEPT ![p] = "close"]
          /\ UNCHANGED <<type, ofile>>
     ELSE /\ ofile' = [ofile EXCEPT ![p][FirstFd(p)] = FirstFile]
          /\ type' = [type EXCEPT ![FirstFile] = "FD_INODE"]
          /\ UNCHANGED <<closing, pc>>
  /\ UNCHANGED <<writable, fpipe, pipevars, plock, killed, file, ff, left, kills>>

\* sys_pipe: pipealloc's first filealloc.
filealloc(p) ==
  /\ CanCall(p) /\ FreeFiles # {}
  /\ ref' = [ref EXCEPT ![FirstFile] = 1]
  /\ file' = [file EXCEPT ![p] = FirstFile]
  /\ pc' = [pc EXCEPT ![p] = "pipe"]
  /\ UNCHANGED <<type, writable, fpipe, pipevars, plock, ofile, killed, ff, left,
                 closing, kills>>

\* The rest of pipealloc and sys_pipe fails for want of a file or a page: the
\* files s are closed again.
pipealloc_fails(p) ==
  /\ pc[p] = "pipe"
  /\ \/ FreeFiles = {} /\ closing' = [closing EXCEPT ![p] = <<file[p]>>] /\ UNCHANGED ref
     \/ /\ FreeFiles # {} /\ \A i \in Pipes : used[i]
        /\ ref' = [ref EXCEPT ![FirstFile] = 1]
        /\ closing' = [closing EXCEPT ![p] = <<file[p], FirstFile>>]
  /\ pc' = [pc EXCEPT ![p] = "close"]
  /\ file' = [file EXCEPT ![p] = None]
  /\ UNCHANGED <<type, writable, fpipe, pipevars, plock, ofile, killed, ff, left, kills>>

\* pipealloc has made the pipe; sys_pipe looks for two descriptors.
pipealloc(p) ==
  /\ pc[p] = "pipe" /\ FreeFiles # {}
  /\ \E i \in Pipes :
       LET rf == file[p] wf == FirstFile IN
       /\ ~used[i]
       /\ used' = [used EXCEPT ![i] = TRUE]
       /\ nread' = [nread EXCEPT ![i] = 0] /\ nwrite' = [nwrite EXCEPT ![i] = 0]
       /\ readopen' = [readopen EXCEPT ![i] = TRUE]
       /\ writeopen' = [writeopen EXCEPT ![i] = TRUE]
       /\ ref' = [ref EXCEPT ![wf] = 1]
       /\ type' = [type EXCEPT ![rf] = "FD_PIPE", ![wf] = "FD_PIPE"]
       /\ writable' = [writable EXCEPT ![rf] = FALSE, ![wf] = TRUE]
       /\ fpipe' = [fpipe EXCEPT ![rf] = i, ![wf] = i]
       /\ IF Cardinality(FreeFds(p)) < 2
          THEN /\ closing' = [closing EXCEPT ![p] = <<rf, wf>>]
               /\ pc' = [pc EXCEPT ![p] = "close"] /\ UNCHANGED ofile
          ELSE /\ ofile' = [ofile EXCEPT ![p][FirstFd(p)] = rf,
                                         ![p][Min(FreeFds(p) \ {FirstFd(p)})] = wf]
               /\ pc' = [pc EXCEPT ![p] = "user"] /\ UNCHANGED closing
  /\ file' = [file EXCEPT ![p] = None]
  /\ UNCHANGED <<data, plock, killed, ff, left, kills>>

dup(p, d) ==
  /\ CanCall(p) /\ ofile[p][d] # None /\ FreeFds(p) # {}
  /\ ofile' = [ofile EXCEPT ![p][FirstFd(p)] = ofile[p][d]]
  /\ ref' = [ref EXCEPT ![ofile[p][d]] = @ + 1]
  /\ UNCHANGED <<type, writable, fpipe, pipevars, plock, killed, pc, file, ff, left,
                 closing, kills>>

\* Mutant: the child's descriptors are not counted.
Uncounted_Shares(p, f) == 0

\* How often p has f open.
Shares(p, f) == Cardinality({d \in Fds : ofile[p][d] = f})

\* fork and clone: the child gets a reference to every open file.
fork(p, q) ==
  /\ CanCall(p) /\ pc[q] = "unused"
  /\ ofile' = [ofile EXCEPT ![q] = ofile[p]]
  /\ ref' = [f \in Files |-> ref[f] + Shares(p, f)]
  /\ pc' = [pc EXCEPT ![q] = "user"]
  /\ killed' = [killed EXCEPT ![q] = FALSE]
  /\ UNCHANGED <<type, writable, fpipe, pipevars, plock, file, ff, left, closing, kills>>

\* What becomes of a process that closes files ("close" in a call, "exit" in
\* exit): if there are more it goes on, otherwise it returns or is gone.
AfterClose(how, more) ==
  IF more THEN how ELSE IF how = "exit" THEN "unused" ELSE "user"

\* fileclose of f, under ftable.lock: drop a reference; the last one frees the
\* entry and leaves pipeclose to do, with a copy of it.  (The code leaves dead
\* values in a free entry, as it does in bytes that were read and in a freed
\* pipe; nothing reads them before they are set again.)
fileclose(p, f, how, more) ==
  /\ ref' = [ref EXCEPT ![f] = @ - 1]
  /\ IF ref[f] > 1
     THEN UNCHANGED <<type, writable, fpipe>>
     ELSE /\ type' = [type EXCEPT ![f] = "FD_NONE"]
          /\ writable' = [writable EXCEPT ![f] = FALSE]
          /\ fpipe' = [fpipe EXCEPT ![f] = None]
  /\ IF ref[f] = 1 /\ type[f] = "FD_PIPE"
     THEN /\ ff' = [ff EXCEPT ![p] = [pipe |-> fpipe[f], writable |-> writable[f]]]
          /\ pc' = [pc EXCEPT ![p] = IF how = "exit" THEN "exitclose" ELSE "pipeclose"]
     ELSE UNCHANGED ff /\ pc' = [pc EXCEPT ![p] = AfterClose(how, more)]
  /\ UNCHANGED <<pipevars, plock, killed, file, left, kills>>

close(p, d) ==
  /\ CanCall(p) /\ ofile[p][d] # None
  /\ ofile' = [ofile EXCEPT ![p][d] = None]
  /\ fileclose(p, ofile[p][d], "close", FALSE)
  /\ UNCHANGED closing

\* The next file that a failed call has to close.
close_next(p) ==
  /\ pc[p] = "close"
  /\ closing' = [closing EXCEPT ![p] = Tail(@)]
  /\ fileclose(p, Head(closing[p]), "close", Len(closing[p]) > 1)
  /\ UNCHANGED ofile

OpenFds(p) == {d \in Fds : ofile[p][d] # None}

\* exit closes every file, in the order of the descriptors.  The first process
\* stands for init.
exit(p) ==
  /\ (pc[p] = "user" /\ p # FirstProc) \/ pc[p] = "exit"
  /\ IF OpenFds(p) = {}
     THEN /\ pc' = [pc EXCEPT ![p] = "unused"]
          /\ UNCHANGED <<filevars, pipevars, plock, ofile, killed, file, ff, left, kills>>
     ELSE LET d == Min(OpenFds(p)) IN
          /\ ofile' = [ofile EXCEPT ![p][d] = None]
          /\ fileclose(p, ofile[p][d], "exit", OpenFds(p) # {d})
  /\ UNCHANGED closing

-----------------------------------------------------------------------------
(* Pipes *)

\* Bytes in a pipe.
Count(i) == (nwrite[i] - nread[i]) % WRAP

\* nread or nwrite after k more bytes, as an unsigned int.
Advance(n, k) == (n + k) % WRAP

\* Mutant: the index does not wrap around.
Bad_Slot(n) == IF n >= PIPESIZE THEN PIPESIZE - 1 ELSE n

\* Where byte n of the stream is kept.
Slot(n) == n % PIPESIZE

\* The buffer with the bytes s stored from byte n on.
Put(buffer, n, s) ==
  [j \in DOMAIN buffer |->
     LET here == {m \in DOMAIN s : Slot(Advance(n, m)) = j} IN
     IF here = {} THEN buffer[j] ELSE s[Max(here)]]

\* The pipe that p reads or writes.
PipeOf(p) == fpipe[file[p]]

\* Mutant: nobody is woken.
Nobody_AfterWakeup(i, readers, writers) == pc

\* wakeup(&p->nread) and wakeup(&p->nwrite) of pipe i.
AfterWakeup(i, readers, writers) ==
  [q \in Procs |-> IF readers /\ pc[q] = "rasleep" /\ PipeOf(q) = i THEN "read"
                   ELSE IF writers /\ pc[q] = "wasleep" /\ PipeOf(q) = i THEN "write"
                   ELSE pc[q]]

\* Mutant: the page is freed with the first end.
Early_Freed(r, w) == ~r \/ ~w

\* The page goes when neither end is open.
Freed(r, w) == ~r /\ ~w

pipeclose(p) ==
  /\ pc[p] \in {"pipeclose", "exitclose"} /\ plock[ff[p].pipe] = None
  /\ LET i == ff[p].pipe
         w == ff[p].writable
         r1 == readopen[i] /\ w
         w1 == writeopen[i] /\ ~w IN
       /\ readopen' = [readopen EXCEPT ![i] = r1]
       /\ writeopen' = [writeopen EXCEPT ![i] = w1]
       /\ used' = [used EXCEPT ![i] = ~Freed(r1, w1)]
       /\ IF Freed(r1, w1)
          THEN /\ nread' = [nread EXCEPT ![i] = 0] /\ nwrite' = [nwrite EXCEPT ![i] = 0]
               /\ data' = [data EXCEPT ![i] = EmptyBuffer]
          ELSE UNCHANGED <<nread, nwrite, data>>
       /\ pc' = [AfterWakeup(i, w, ~w) EXCEPT ![p] =
                  IF pc[p] = "exitclose" THEN AfterClose("exit", OpenFds(p) # {})
                  ELSE AfterClose("close", closing[p] # <<>>)]
  /\ ff' = [ff EXCEPT ![p] = NoFile]
  /\ UNCHANGED <<filevars, plock, ofile, killed, file, left, closing, kills>>

\* sys_read and sys_write of n bytes on a pipe, up to its lock.
read(p, d, n) ==
  /\ CanCall(p) /\ ofile[p][d] # None
  /\ type[ofile[p][d]] = "FD_PIPE"
  /\ file' = [file EXCEPT ![p] = ofile[p][d]]
  /\ left' = [left EXCEPT ![p] = n]
  /\ pc' = [pc EXCEPT ![p] = IF writable[ofile[p][d]] THEN "write" ELSE "read"]
  /\ UNCHANGED <<filevars, pipevars, plock, ofile, killed, ff, closing, kills>>

\* A read or write returns to the user.
Return(p, next) ==
  /\ pc' = [next EXCEPT ![p] = "user"]
  /\ file' = [file EXCEPT ![p] = None] /\ left' = [left EXCEPT ![p] = 0]

Waits(i) == Count(i) = 0 /\ writeopen[i]

piperead(p) ==
  /\ pc[p] = "read" /\ plock[PipeOf(p)] = None
  /\ LET i == PipeOf(p) IN
     \/ /\ Waits(i) /\ ~killed[p]
        /\ pc' = [pc EXCEPT ![p] = "rsleep"]
        /\ plock' = [plock EXCEPT ![i] = p]
        /\ UNCHANGED <<nread, data, file, left>>
     \/ Waits(i) /\ killed[p] /\ Return(p, pc) /\ UNCHANGED <<nread, data, plock>>
     \/ /\ ~Waits(i)
        /\ LET k == Min({left[p], Count(i)}) IN
             /\ nread' = [nread EXCEPT ![i] = Advance(@, k)]
             /\ data' = [data EXCEPT ![i] = Put(@, nread[i], [m \in 0 .. k - 1 |-> 0])]
        /\ Return(p, AfterWakeup(i, FALSE, TRUE)) /\ UNCHANGED plock
  /\ UNCHANGED <<filevars, used, nwrite, readopen, writeopen, ofile, killed, ff,
                 closing, kills>>

\* pipewrite copies what there is room for.  If that is all, or if nobody will
\* make room, it returns; only in the first case does it wake the readers.
pipewrite(p) ==
  /\ pc[p] = "write" /\ plock[PipeOf(p)] = None
  /\ LET i == PipeOf(p)
         k == Min({left[p], PIPESIZE - Count(i)}) IN
     /\ \E s \in [0 .. k - 1 -> Bytes] : data' = [data EXCEPT ![i] = Put(@, nwrite[i], s)]
     /\ nwrite' = [nwrite EXCEPT ![i] = Advance(@, k)]
     /\ \/ left[p] = k /\ Return(p, AfterWakeup(i, TRUE, FALSE)) /\ UNCHANGED plock
        \/ /\ left[p] > k /\ (~readopen[i] \/ killed[p])
           /\ Return(p, pc) /\ UNCHANGED plock
        \/ /\ left[p] > k /\ readopen[i] /\ ~killed[p]
           /\ pc' = [AfterWakeup(i, TRUE, FALSE) EXCEPT ![p] = "wsleep"]
           /\ left' = [left EXCEPT ![p] = @ - k]
           /\ plock' = [plock EXCEPT ![i] = p] /\ UNCHANGED file
  /\ UNCHANGED <<filevars, used, nread, readopen, writeopen, ofile, killed, ff,
                 closing, kills>>

\* sleep: with ptable.lock, give up the pipe's lock.
sleep(p) ==
  /\ pc[p] \in {"rsleep", "wsleep"}
  /\ pc' = [pc EXCEPT ![p] = IF @ = "rsleep" THEN "rasleep" ELSE "wasleep"]
  /\ plock' = [plock EXCEPT ![PipeOf(p)] = None]
  /\ UNCHANGED <<filevars, pipevars, ofile, killed, file, ff, left, closing, kills>>

\* kill marks a process and wakes it if it is asleep already.  (init is not
\* killed: its exit would be a panic.)
kill(p, q) ==
  /\ CanCall(p) /\ pc[q] # "unused" /\ q # FirstProc /\ kills < MaxKills
  /\ killed' = [killed EXCEPT ![q] = TRUE]
  /\ pc' = [pc EXCEPT ![q] = IF @ = "rasleep" THEN "read"
                             ELSE IF @ = "wasleep" THEN "write" ELSE @]
  /\ kills' = kills + 1
  /\ UNCHANGED <<filevars, pipevars, plock, ofile, file, ff, left, closing>>

Step(p) ==
  \/ pipealloc_fails(p) \/ pipealloc(p) \/ close_next(p)
  \/ pipeclose(p) \/ piperead(p) \/ pipewrite(p) \/ sleep(p)

Next ==
  \E p \in Procs :
    \/ Step(p) \/ open(p) \/ filealloc(p) \/ exit(p)
    \/ \E d \in Fds : dup(p, d) \/ close(p, d) \/ \E n \in Sizes : read(p, d, n)
    \/ \E q \in Procs : fork(p, q) \/ kill(p, q)

Spec == Init /\ [][Next]_vars

-----------------------------------------------------------------------------
(* Properties *)

\* The descriptors that refer to f, and the calls in progress that do: a
\* pipealloc that sets it up, or a failed call that has to close it.
Descriptors(f) == {x \in Procs \X Fds : ofile[x[1]][x[2]] = f}
Borrowers(f) ==
  {p \in Procs : \/ pc[p] = "pipe" /\ file[p] = f
                 \/ \E k \in DOMAIN closing[p] : closing[p][k] = f}

\* A file's reference count is the number of descriptors that refer to it plus
\* the references of calls in progress, so an entry is neither reused while
\* it is open nor lost (file.c:26-80, sysfile.c:40-67, 422-444).
RefsExact ==
  \A f \in Files : ref[f] = Cardinality(Descriptors(f)) + Cardinality(Borrowers(f))

\* A pipe's page lives exactly as long as one of its ends is open, an end is
\* open exactly as long as a file refers to it or its pipeclose is still to
\* come, and whoever reads or writes is on a pipe that exists (pipe.c:59-75,
\* file.c:56-80).
PipesInUse ==
  \A i \in Pipes :
    LET Referred(w) == \/ \E f \in Files : /\ ref[f] > 0 /\ type[f] = "FD_PIPE"
                                         /\ fpipe[f] = i /\ writable[f] = w
                       \/ \E p \in Procs : ff[p] = [pipe |-> i, writable |-> w] IN
    /\ readopen[i] <=> Referred(FALSE)
    /\ writeopen[i] <=> Referred(TRUE)
    /\ used[i] <=> readopen[i] \/ writeopen[i]

\* No wakeup is lost: a writer sleeps only on a full pipe that somebody can
\* read, and, as long as nobody was killed, a reader only on an empty one that
\* somebody can write: nobody waits for a process that has closed its end,
\* exited or acted already (pipe.c:59-121).  (A write that a kill cuts short
\* wakes no reader.)
SleepersHaveReason ==
  \A p \in Procs :
    /\ pc[p] \in {"wsleep", "wasleep"} => Count(PipeOf(p)) = PIPESIZE /\ readopen[PipeOf(p)]
    /\ pc[p] \in {"rsleep", "rasleep"} /\ kills = 0
         => Count(PipeOf(p)) = 0 /\ writeopen[PipeOf(p)]

\* The bytes in a pipe, oldest first.
Contents(i) ==
  IF used[i] THEN [k \in 1 .. Count(i) |-> data[i][Slot(Advance(nread[i], k - 1))]]
  ELSE <<>>

Ch == INSTANCE Channel WITH Capacity <- PIPESIZE, queue <- Contents(1),
                            readopen <- readopen[1], writeopen <- writeopen[1]

\* A pipe is a bounded queue: bytes arrive in order, across the wrap-around of
\* the counters and of the buffer, whoever writes, reads, closes, exits or is
\* killed meanwhile (pipe.c:78-121).  Stated for pipe 1; all are alike.
PipeIsChannel == Ch!Spec
=============================================================================
