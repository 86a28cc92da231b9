------------------------------ MODULE Console -------------------------------
(***************************************************************************)
(* The console (console.c) and timed sleeps (sys_sleep, the timer          *)
(* interrupt of trap.c): processes and interrupt handlers that share a     *)
(* buffer and a clock, protected by cons.lock and tickslock.               *)
(*                                                                         *)
(* Every processor runs one process.  ptable.lock is taken last and for    *)
(* single steps of sleep, wakeup and kill, so each of these is one step.   *)
(* What getc returns is any character.  Ticks are counted from the moment  *)
(* a sys_sleep first has tickslock.                                        *)
(***************************************************************************)
EXTENDS Spinlock, Sequences, SequencesExt, Integers

CONSTANTS
  Boot,       \* the processor that takes the console's and clock interrupts
  INPUT_BUF,  \* size of the buffer
  UINT,       \* 2^32 in the source: where r, w and e wrap around
  Text,       \* characters without a meaning of their own
  Sizes,      \* arguments n of consoleread
  Naps,       \* arguments n of sys_sleep
  Victims     \* bound: processors whose processes are killed

ASSUME ConsoleAssumption ==
  /\ Boot \in CPUs /\ INPUT_BUF \in Nat \ {0}
  /\ UINT \in Nat /\ UINT > INPUT_BUF /\ UINT % INPUT_BUF = 0
  /\ Sizes \subseteq Nat /\ Naps \subseteq Nat /\ Locks = {"cons", "tick"}
  /\ Victims \subseteq CPUs

VARIABLES
  buf, r, w, e,   \* input
  pc, call,       \* where the process of a processor is, and in which call
  dst,            \* what its consoleread has stored
  ticks,          \* ticks since its sys_sleep began, up to what it waits for
  killed,
  intr            \* the handler on Boot: its interrupt and where it is

inputvars == <<buf, r, w, e>>
procvars == <<pc, call, dst, ticks, killed>>
vars == <<lockvars, inputvars, procvars, intr>>

NoCall == [op |-> "none", n |-> 0]
Calls == [op : {"read"}, n : Sizes] \cup [op : {"nap"}, n : Naps] \cup [op : {"write"}, n : {0}]
NoIntr == [irq |-> "none", pc |-> "none"]
Chars == Text \cup {"\n", "^D"}

Init ==
  /\ SpinlockInit
  /\ buf = [i \in 0 .. INPUT_BUF - 1 |-> "\n"] /\ r = 0 /\ w = 0 /\ e = 0
  /\ pc = [c \in CPUs |-> "user"] /\ call = [c \in CPUs |-> NoCall]
  /\ dst = [c \in CPUs |-> <<>>]
  /\ ticks = [c \in CPUs |-> 0] /\ killed = [c \in CPUs |-> FALSE]
  /\ intr = NoIntr

Plus(x, k) == (x + k) % UINT
Minus(x, y) == (x - y) % UINT
At(x) == buf[x % INPUT_BUF]
LockOf(op) == IF op = "nap" THEN "tick" ELSE "cons"
MyLock(c) == LockOf(call[c].op)
IntrLock == IF intr.irq = "timer" THEN "tick" ELSE "cons"

\* The process on c can run: no handler is on top of it.
Runs(c) == ~panicked /\ (c = Boot => intr = NoIntr)

-----------------------------------------------------------------------------
(* System calls *)

\* A call begins, with interrupts on, and acquires its lock.
enter(c) ==
  /\ Runs(c) /\ pc[c] = "user"
  /\ \E x \in Calls :
       /\ acquire(c, LockOf(x.op))
       /\ call' = [call EXCEPT ![c] = x]
       /\ dst' = [dst EXCEPT ![c] = <<>>]
       /\ ticks' = [ticks EXCEPT ![c] = 0]
  /\ pc' = [pc EXCEPT ![c] = "enter"]
  /\ UNCHANGED <<lock, inputvars, killed, intr>>

\* How many characters consoleread takes in one go: until it has n, or "\n", or
\* the buffer is empty, or before the end of file; that itself if it is first.
Untaken(c) == call[c].n - Len(dst[c])
Stops(c, k) ==
  \/ k = Untaken(c) \/ Plus(r, k) = w
  \/ k > 0 /\ At(Plus(r, k - 1)) \in {"\n", "^D"}
  \/ At(Plus(r, k)) = "^D" /\ Len(dst[c]) + k > 0
Taken(c) == CHOOSE k \in 0 .. INPUT_BUF : Stops(c, k) /\ \A j \in 0 .. k - 1 : ~Stops(c, j)

\* Characters of the buffer that go to the caller.
Read(c, k) ==
  SelectSeq([i \in 1 .. k |-> At(Plus(r, i - 1))], LAMBDA ch : ch # "^D")

\* With its lock, consoleread takes what there is and is finished, or has to
\* sleep.
consoleread(c) ==
  LET k == Taken(c)
      done == \/ Len(dst[c]) + k = call[c].n
              \/ k > 0 /\ At(Plus(r, k - 1)) \in {"\n", "^D"}
              \/ Plus(r, k) # w /\ At(Plus(r, k)) = "^D"
  IN
  /\ r' = Plus(r, k)
  /\ dst' = [dst EXCEPT ![c] = @ \o Read(c, k)]
  /\ pc' = [pc EXCEPT ![c] = IF done \/ killed[c] THEN "held" ELSE "sleep"]
  /\ UNCHANGED <<buf, w, e>>

\* With its lock, sys_sleep looks at the clock.
sys_sleep(c) ==
  /\ pc' = [pc EXCEPT ![c] = IF ticks[c] >= call[c].n \/ killed[c] THEN "held" ELSE "sleep"]
  /\ UNCHANGED <<inputvars, dst>>

\* consolewrite and cprintf only print.
consolewrite(c) ==
  /\ pc' = [pc EXCEPT ![c] = "held"]
  /\ UNCHANGED <<inputvars, dst>>

\* The process gets its lock and does what it holds it for.
locked(c) ==
  /\ Runs(c) /\ pc[c] \in {"enter", "acquire"} /\ xchg(c, MyLock(c))
  /\ \/ call[c].op = "read" /\ consoleread(c)
     \/ call[c].op = "nap" /\ sys_sleep(c)
     \/ call[c].op = "write" /\ consolewrite(c)
  /\ UNCHANGED <<ncli, intena, IF_, panicked, call, ticks, killed, intr>>

\* release, and the call returns.  A process that was killed exits; another
\* takes its place.
leave(c) ==
  /\ Runs(c) /\ pc[c] = "held" /\ release(c, MyLock(c))
  /\ pc' = [pc EXCEPT ![c] = "user"]
  /\ call' = [call EXCEPT ![c] = NoCall]
  /\ dst' = [dst EXCEPT ![c] = <<>>]
  /\ ticks' = [ticks EXCEPT ![c] = 0]
  /\ killed' = [killed EXCEPT ![c] = FALSE]
  /\ UNCHANGED <<inputvars, intr>>

\* sleep under ptable.lock: the lock is released and the scheduler runs, with
\* interrupts on.
sleep(c) ==
  /\ Runs(c) /\ pc[c] = "sleep" /\ release(c, MyLock(c))
  /\ pc' = [pc EXCEPT ![c] = "asleep"]
  /\ UNCHANGED <<inputvars, call, dst, ticks, killed, intr>>

\* The scheduler resumes the process, which acquires its lock again.
resume(c) ==
  /\ Runs(c) /\ pc[c] = "woken" /\ acquire(c, MyLock(c))
  /\ pc' = [pc EXCEPT ![c] = "acquire"]
  /\ UNCHANGED <<lock, inputvars, call, dst, ticks, killed, intr>>

\* kill, by the process of another processor.
kill(c) ==
  /\ \E d \in CPUs \ {c} : Runs(d) /\ pc[d] = "user"
  /\ call[c].op # "none" /\ ~killed[c]
  /\ killed' = [killed EXCEPT ![c] = TRUE]
  /\ pc' = [pc EXCEPT ![c] = IF @ = "asleep" THEN "woken" ELSE @]
  /\ UNCHANGED <<lockvars, inputvars, call, dst, ticks, intr>>

-----------------------------------------------------------------------------
(* Interrupts *)

\* An interrupt arrives: the flag is cleared and the handler acquires its lock.
trap(irq) ==
  /\ Runs(Boot) /\ IF_[Boot]
  /\ LET l == IF irq = "timer" THEN "tick" ELSE "cons" IN
       panicked' = holding(Boot, l)
  /\ IF_' = [IF_ EXCEPT ![Boot] = FALSE]
  /\ intena' = IF ncli[Boot] = 0 THEN [intena EXCEPT ![Boot] = FALSE] ELSE intena
  /\ ncli' = [ncli EXCEPT ![Boot] = @ + 1]
  /\ intr' = [irq |-> irq, pc |-> "acquire"]
  /\ UNCHANGED <<lock, inputvars, procvars>>

\* The timer counts a tick as soon as it has the lock.
intr_locked ==
  /\ ~panicked /\ intr.pc = "acquire" /\ xchg(Boot, IntrLock)
  /\ IF intr.irq = "timer"
     THEN /\ ticks' = [c \in CPUs |->
                         IF call[c].op = "nap" /\ pc[c] # "enter" /\ ticks[c] < call[c].n
                         THEN ticks[c] + 1 ELSE ticks[c]]
          /\ intr' = [intr EXCEPT !.pc = "wakeup"]
     ELSE UNCHANGED ticks /\ intr' = [intr EXCEPT !.pc = "held"]
  /\ UNCHANGED <<ncli, intena, IF_, panicked, inputvars, pc, call, dst, killed>>

\* C('H') and C('U').
Backspace ==
  /\ e # w /\ e' = Minus(e, 1)
  /\ UNCHANGED <<buf, r, w, intr>>

KillLine ==
  LET back == CHOOSE k \in 0 .. INPUT_BUF :
                /\ Minus(e, k) = w \/ At(Minus(e, k + 1)) = "\n"
                /\ \A j \in 0 .. k - 1 : Minus(e, j) # w /\ At(Minus(e, j + 1)) # "\n"
  IN e' = Minus(e, back) /\ UNCHANGED <<buf, r, w, intr>>

HasRoom == Minus(e, r) < INPUT_BUF

\* Mutant: a full buffer without "\n" does not end a line.
Newline_EndsLine(ch) == ch \in {"\n", "^D"}

EndsLine(ch) == ch \in {"\n", "^D"} \/ Plus(e, 1) = Plus(r, INPUT_BUF)

\* Any other character is stored if there is room.
Store(ch) ==
  /\ HasRoom
  /\ buf' = [buf EXCEPT ![e % INPUT_BUF] = ch]
  /\ e' = Plus(e, 1)
  /\ IF EndsLine(ch)
     THEN w' = e' /\ intr' = [intr EXCEPT !.pc = "wakeup"]
     ELSE UNCHANGED <<w, intr>>
  /\ UNCHANGED r

\* consoleintr: one character from getc.
consoleintr ==
  /\ ~panicked /\ intr.irq = "kbd" /\ intr.pc = "held"
  /\ Backspace \/ KillLine \/ \E ch \in Chars : Store(ch)
  /\ UNCHANGED <<lockvars, procvars>>

\* Mutant: only one of the sleepers is woken.
One_Sleepers(op) ==
  LET all == {c \in CPUs : pc[c] = "asleep" /\ call[c].op = op} IN
  IF all = {} THEN {} ELSE {CHOOSE c \in all : TRUE}

\* The processes that sleep on &input.r or on &ticks.
Sleepers(op) == {c \in CPUs : pc[c] = "asleep" /\ call[c].op = op}

intr_wakeup ==
  /\ ~panicked /\ intr.pc = "wakeup"
  /\ LET s == Sleepers(IF intr.irq = "timer" THEN "nap" ELSE "read") IN
       pc' = [c \in CPUs |-> IF c \in s THEN "woken" ELSE pc[c]]
  /\ intr' = [intr EXCEPT !.pc = "held"]
  /\ UNCHANGED <<lockvars, inputvars, call, dst, ticks, killed>>

\* getc has no more characters, or the tick is over: release, and iret restores
\* the flag.
iret ==
  /\ ~panicked /\ intr.pc = "held"
  /\ lock' = [lock EXCEPT ![IntrLock] = NoCPU]
  /\ ncli' = [ncli EXCEPT ![Boot] = @ - 1]
  /\ IF_' = [IF_ EXCEPT ![Boot] = TRUE]
  /\ panicked' = (~holding(Boot, IntrLock) \/ IF_[Boot] \/ ncli[Boot] = 0)
  /\ intr' = NoIntr
  /\ UNCHANGED <<intena, inputvars, procvars>>

Next ==
  \/ \E c \in CPUs :
       enter(c) \/ locked(c) \/ leave(c) \/ sleep(c) \/ resume(c)
  \/ (\E c \in Victims : kill(c))
  \/ (\E irq \in {"kbd", "timer"} : trap(irq))
  \/ intr_locked \/ consoleintr \/ intr_wakeup \/ iret

Spec == Init /\ [][Next]_vars

-----------------------------------------------------------------------------
(* Properties *)

\* The locks that the process and the handler on c hold, and those they wait for.
ProcHolds(c) == {l \in {MyLock(c)} : pc[c] \in {"held", "sleep"}}
IntrHolds(c) == {l \in {IntrLock} : c = Boot /\ intr.pc \in {"held", "wakeup"}}
Waits(c) == Cardinality({x \in {pc[c]} : x \in {"enter", "acquire"}})
            + Cardinality({x \in {intr.pc} : c = Boot /\ x = "acquire"})

\* A lock is held by exactly the code between its acquire and its release, of
\* one processor at a time; a handler never runs on top of a process that holds
\* or waits for a lock, so it cannot wait for the processor it runs on; and
\* interrupts are on again when no lock is left (spinlock.c:25-68, 104-125).
LocksSafe ==
  /\ ~panicked
  /\ \A l \in Locks :
       /\ Cardinality({c \in CPUs : l \in ProcHolds(c) \cup IntrHolds(c)}) <= 1
       /\ \A c \in CPUs : lock[l] = c <=> l \in ProcHolds(c) \cup IntrHolds(c)
  /\ \A c \in CPUs :
       /\ ncli[c] = Cardinality(ProcHolds(c)) + Cardinality(IntrHolds(c)) + Waits(c)
       /\ IF_[c] <=> ncli[c] = 0
  /\ intr # NoIntr => ProcHolds(Boot) = {} /\ pc[Boot] \notin {"enter", "acquire"}

\* A process sleeps in consoleread only while no line is there, and in sys_sleep
\* only while its time is not over, unless the handler that changed this is
\* about to wake it (console.c:221-224, 245-251; sysproc.c:69-75).
SleepsForReason ==
  \A c \in CPUs : pc[c] = "asleep" =>
    \/ call[c].op = "read" /\ r = w
    \/ call[c].op = "nap" /\ ticks[c] < call[c].n
    \/ intr.pc = "wakeup" /\ IntrLock = MyLock(c)

\* The buffer with its three indices behaves as an edited line and a queue.
tty == INSTANCE Tty WITH
  Readers <- CPUs, Size <- INPUT_BUF, got <- dst,
  queue <- [i \in 1 .. Minus(w, r) |-> At(Plus(r, i - 1))],
  line <- [i \in 1 .. Minus(e, w) |-> At(Plus(w, i - 1))]

\* What is read is what was typed, as edited, in order and once: keys are never
\* lost, repeated or mixed up between readers and handlers, also where the
\* indices wrap around (console.c:192-271).
ReadsWhatWasTyped == tty!Spec
=============================================================================
