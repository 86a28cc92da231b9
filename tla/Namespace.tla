----------------------------- MODULE Namespace -----------------------------
(***************************************************************************)
(* Path lookup in fs.c and the system calls of sysfile.c that change the   *)
(* tree of names: open, mkdir, mknod, link, unlink and chdir, with the     *)
(* close and exit that drop what they hold.                                *)
(*                                                                         *)
(* A call is a sequence of steps, each of which takes one inode lock or    *)
(* makes one access to icache or to a free inode on disk, together with    *)
(* all that follows under the locks it holds.  A step that has to iput     *)
(* inodes appends them to puts, and the call goes on when they are put.    *)
(* Calls are put in transactions by begin_op and end_op; these order no    *)
(* two calls (several share a transaction), and are in module Log.         *)
(***************************************************************************)
EXTENDS Inode

CONSTANTS
  Calls,     \* Calls[p]: the calls p makes, [op, from, to] with paths
             \* [abs, elems]; only link has a second path
  MaxLinks   \* bound: no link call starts once an inode counts this many

VARIABLES
  pc,        \* where the process is in its call ("user": in none)
  call,      \* its call: the op, the path left, and the inodes it holds
  cwd,       \* current directory of the process, an entry of icache
  file,      \* the inode its open file refers to; 0 for none
  strayed    \* history: somebody has walked up from a removed directory

vars == <<inodevars, pc, call, cwd, file, strayed>>

NoPath == [abs |-> FALSE, elems |-> <<>>]
Idle == [op |-> "none", path |-> <<>>, to |-> NoPath, ip |-> 0, dp |-> 0, inum |-> 0]

\* The disk as mkfs leaves it; every process, and init besides, in the root.
Init ==
  /\ disk = [i \in Inums |-> IF i = ROOTINO THEN RootInode ELSE FreeInode]
  /\ icache = [s \in Slots |-> IF s = 1
                 THEN [EmptySlot EXCEPT !.inum = ROOTINO, !.ref = Cardinality(Procs) + 1]
                 ELSE EmptySlot]
  /\ puts = [p \in Procs |-> <<>>]
  /\ putting = [p \in Procs |-> "lock"]
  /\ panicked = "no"
  /\ pc = [p \in Procs |-> "user"]
  /\ call = [p \in Procs |-> Idle]
  /\ cwd = [p \in Procs |-> 1]
  /\ file = [p \in Procs |-> 0]
  /\ strayed = FALSE

-----------------------------------------------------------------------------
\* Calls that look up the parent directory of their path (nameiparent).
MakesType(op) == CASE op = "mkdir" -> "DIR" [] op = "mknod" -> "DEV"
                   [] OTHER -> "FILE"
Creates(op) == op \in {"creat", "mkdir", "mknod"}
nameiparent(op) == Creates(op) \/ op \in {"unlink", "linkto"}

\* Where a call goes on when namex has returned an inode.
AfterNamex(op) == CASE Creates(op) -> "create" [] op = "linkto" -> "link_dp"
                    [] OTHER -> op

\* p is at location l with nothing left to put.
At(p, l) == panicked = "no" /\ puts[p] = <<>> /\ pc[p] = l

\* p takes the lock of entry s, and the inode is one that is allocated.
Takes(p, s) ==
  /\ icache[s].lock = NoProc
  /\ icache[s].valid \/ disk[icache[s].inum].type # Free

Put(p, slots) == puts' = [puts EXCEPT ![p] = slots]
Goto(p, l, c) == pc' = [pc EXCEPT ![p] = l] /\ call' = [call EXCEPT ![p] = c]
Return(p, slots) == Put(p, slots) /\ Goto(p, "user", Idle)

\* Where namex(path) starts: at the root, or at the current directory.
\* (The root is always cached: it is the current directory of init.)
Start(p, path) == IF path.abs THEN SlotFor(icache, ROOTINO) ELSE cwd[p]

\* namex returns 0, with slots to put; link has a link to undo.
NamexFails(p, c, slots) ==
  IF c.op = "linkto"
  THEN Put(p, slots) /\ Goto(p, "link_bad", [Idle EXCEPT !.op = "link", !.ip = c.dp])
  ELSE Return(p, slots)

\* namex at inode s with rest left of the path: another turn of its loop, or
\* the end.  nameiparent of a path without elements puts ip and returns 0.
WalkFrom(p, c, s, rest, slots) ==
  IF rest # <<>>
  THEN Put(p, slots) /\ Goto(p, "namex", [c EXCEPT !.ip = s, !.path = rest])
  ELSE IF nameiparent(c.op) THEN NamexFails(p, c, Append(slots, s))
  ELSE Put(p, slots) /\ Goto(p, AfterNamex(c.op), [c EXCEPT !.ip = s, !.path = <<>>])

\* A system call starts with namei or nameiparent of its path.
begin(p, k) ==
  /\ At(p, "user")
  /\ k.op = "link" => \A i \in Inums : disk[i].nlink < MaxLinks
  /\ LET s == Start(p, k.from) IN
       /\ icache' = idup(icache, s)
       /\ WalkFrom(p, [Idle EXCEPT !.op = k.op, !.to = k.to], s, k.from.elems, <<>>)
  /\ UNCHANGED <<disk, putting, panicked, cwd, file, strayed>>

\* Names of inode i, and directories with a name whose ".." is i.
NamesOf(i) == {e \in Inums \X Names : disk[e[1]].ents[e[2]] = i}
SubdirsOf(i) == {d \in Inums \ {ROOTINO} : disk[d].ents[".."] = i /\ NamesOf(d) # {}}
Removed(i) == i # ROOTINO /\ NamesOf(i) = {}

\* One turn of namex's loop.  link keeps the inode it links to in dp while it
\* looks up the second path.
namex(p) ==
  /\ At(p, "namex")
  /\ LET c == call[p]
         s == c.ip
         n == Head(c.path)
         locked == ilock(icache, s, p)
         next == dirlookup(disk, icache, s, n)
         last == nameiparent(c.op) /\ Tail(c.path) = <<>>
     IN
       /\ Takes(p, s)
       /\ IF locked[s].type # "DIR" \/ (~last /\ next = 0)
          THEN icache' = iunlock(locked, s) /\ NamexFails(p, c, <<s>>)
          ELSE IF last
          THEN /\ icache' = iunlock(locked, s)
               /\ Goto(p, AfterNamex(c.op), c)
               /\ UNCHANGED puts
          ELSE /\ ~NoInodes(locked, next)
               /\ icache' = iget(iunlock(locked, s), next)
               /\ WalkFrom(p, c, SlotFor(locked, next), Tail(c.path), <<s>>)
       /\ strayed' = (strayed \/ (n = ".." /\ Removed(icache[s].inum) /\ ~last))
  /\ UNCHANGED <<disk, putting, panicked, cwd, file>>

-----------------------------------------------------------------------------
\* The end of sys_open, ip locked: a file descriptor, or none is left.
OpenLocked(p, c, s) ==
  /\ icache' = iunlock(c, s)
  /\ IF file[p] = 0 THEN file' = [file EXCEPT ![p] = s] /\ Return(p, <<>>)
     ELSE Return(p, <<s>>) /\ UNCHANGED file

\* sys_open of an existing inode; a directory can only be opened for reading.
open(p, writable) ==
  /\ At(p, "open")
  /\ LET s == call[p].ip
         locked == ilock(icache, s, p)
     IN
       /\ Takes(p, s)
       /\ IF locked[s].type = "DIR" /\ writable
          THEN icache' = iunlock(locked, s) /\ Return(p, <<s>>) /\ UNCHANGED file
          ELSE OpenLocked(p, locked, s)
  /\ UNCHANGED <<disk, putting, panicked, cwd, strayed>>

\* sys_chdir.
chdir(p) ==
  /\ At(p, "chdir")
  /\ LET s == call[p].ip
         locked == ilock(icache, s, p)
     IN
       /\ Takes(p, s)
       /\ icache' = iunlock(locked, s)
       /\ IF locked[s].type # "DIR" THEN Return(p, <<s>>) /\ UNCHANGED cwd
          ELSE Return(p, <<cwd[p]>>) /\ cwd' = [cwd EXCEPT ![p] = s]
  /\ UNCHANGED <<disk, putting, panicked, file, strayed>>

\* fileclose of the last reference to an open file.
close(p) ==
  /\ At(p, "user") /\ file[p] # 0
  /\ Put(p, <<file[p]>>)
  /\ file' = [file EXCEPT ![p] = 0]
  /\ UNCHANGED <<disk, icache, putting, panicked, pc, call, cwd, strayed>>

\* exit closes the files and puts the current directory.
exit(p) ==
  /\ At(p, "user") /\ file[p] = 0
  /\ Put(p, <<cwd[p]>>)
  /\ cwd' = [cwd EXCEPT ![p] = 0]
  /\ pc' = [pc EXCEPT ![p] = "exited"]
  /\ UNCHANGED <<disk, icache, putting, panicked, call, file, strayed>>

-----------------------------------------------------------------------------
\* Mutant: the new link is not counted before the entry is there.
Uncounted_OneMore(c, s) == c

OneMore(c, s) == [c EXCEPT ![s].nlink = @ + 1]
OneLess(c, s) == [c EXCEPT ![s].nlink = @ - 1]

\* sys_link, the first inode found: count the link, then look up the second
\* path.  Directories cannot be linked.
link(p) ==
  /\ At(p, "link")
  /\ LET c == call[p]
         s == c.ip
         locked == ilock(icache, s, p)
         counted == OneMore(locked, s)
         start == Start(p, c.to)
     IN
       /\ Takes(p, s)
       /\ IF locked[s].type = "DIR"
          THEN icache' = iunlock(locked, s) /\ Return(p, <<s>>) /\ UNCHANGED disk
          ELSE /\ disk' = iupdate(disk, counted, s)
               /\ icache' = idup(iunlock(counted, s), start)
               /\ WalkFrom(p, [Idle EXCEPT !.op = "linkto", !.dp = s], start,
                           c.to.elems, <<>>)
  /\ UNCHANGED <<putting, panicked, cwd, file, strayed>>

\* sys_link, the directory found: dirlink.  A name that is there already is
\* looked up, and its inode put with the directory locked.
link_dp(p) ==
  /\ At(p, "link_dp")
  /\ LET c == call[p]
         dp == c.ip
         n == Head(c.path)
         locked == ilock(icache, dp, p)
         old == dirlookup(disk, icache, dp, n)
     IN
       /\ Takes(p, dp)
       /\ IF old = 0
          THEN /\ disk' = SetEntry(disk, icache[dp].inum, n, icache[c.dp].inum)
               /\ icache' = iunlock(locked, dp)
               /\ Return(p, <<dp, c.dp>>)
          ELSE /\ ~NoInodes(locked, old)
               /\ icache' = iget(locked, old)
               /\ Put(p, <<SlotFor(locked, old)>>)
               /\ Goto(p, "link_dup", [c EXCEPT !.path = <<>>])
               /\ UNCHANGED disk
  /\ UNCHANGED <<putting, panicked, cwd, file, strayed>>

link_dup(p) ==
  /\ At(p, "link_dup")
  /\ icache' = iunlock(icache, call[p].ip)
  /\ Put(p, <<call[p].ip>>)
  /\ Goto(p, "link_bad", [Idle EXCEPT !.op = "link", !.ip = call[p].dp])
  /\ UNCHANGED <<disk, putting, panicked, cwd, file, strayed>>

\* bad: the link that was counted is not there.
link_bad(p) ==
  /\ At(p, "link_bad")
  /\ LET s == call[p].ip
         less == OneLess(ilock(icache, s, p), s)
     IN
       /\ Takes(p, s)
       /\ disk' = iupdate(disk, less, s)
       /\ icache' = iunlock(less, s)
       /\ Return(p, <<s>>)
  /\ UNCHANGED <<putting, panicked, cwd, file, strayed>>

-----------------------------------------------------------------------------
\* sys_unlink, the directory found: lock it and look the name up.
unlink(p) ==
  /\ At(p, "unlink")
  /\ LET c == call[p]
         dp == c.ip
         n == Head(c.path)
         locked == ilock(icache, dp, p)
         i == dirlookup(disk, icache, dp, n)
     IN
       /\ Takes(p, dp)
       /\ IF n \in {".", ".."} \/ i = 0
          THEN icache' = iunlock(locked, dp) /\ Return(p, <<dp>>)
          ELSE /\ ~NoInodes(locked, i)
               /\ icache' = iget(locked, i)
               /\ Goto(p, "unlink_ip", [c EXCEPT !.dp = dp, !.ip = SlotFor(locked, i)])
               /\ UNCHANGED puts
  /\ UNCHANGED <<disk, putting, panicked, cwd, file, strayed>>

NotEmpty(i) == ~isdirempty(disk, i)

\* The inode locked too: its entry goes, and the directory is unlocked and put
\* while the inode stays locked.
unlink_ip(p) ==
  /\ At(p, "unlink_ip")
  /\ LET c == call[p]
         locked == ilock(icache, c.ip, p)
         i == icache[c.ip].inum
         d == icache[c.dp].inum
         dir == locked[c.ip].type = "DIR"
         parent == IF dir THEN OneLess(locked, c.dp) ELSE locked
     IN
       /\ Takes(p, c.ip)
       /\ locked[c.ip].nlink >= 1
       /\ IF dir /\ NotEmpty(i)
          THEN /\ icache' = iunlock(locked, c.ip)
               /\ Put(p, <<c.ip>>)
               /\ Goto(p, "unlink_bad", [Idle EXCEPT !.op = "unlink", !.dp = c.dp])
               /\ UNCHANGED disk
          ELSE /\ disk' = iupdate(SetEntry(disk, d, Head(c.path), 0), parent, c.dp)
               /\ icache' = iunlock(parent, c.dp)
               /\ Put(p, <<c.dp>>)
               /\ Goto(p, "unlink_dec", [Idle EXCEPT !.op = "unlink", !.ip = c.ip])
  /\ UNCHANGED <<putting, panicked, cwd, file, strayed>>

unlink_bad(p) ==
  /\ At(p, "unlink_bad")
  /\ icache' = iunlock(icache, call[p].dp)
  /\ Return(p, <<call[p].dp>>)
  /\ UNCHANGED <<disk, putting, panicked, cwd, file, strayed>>

unlink_dec(p) ==
  /\ At(p, "unlink_dec")
  /\ LET s == call[p].ip
         less == OneLess(icache, s)
     IN
       /\ disk' = iupdate(disk, less, s)
       /\ icache' = iunlock(less, s)
       /\ Return(p, <<s>>)
  /\ UNCHANGED <<putting, panicked, cwd, file, strayed>>

-----------------------------------------------------------------------------
\* create, the directory found: lock it and look the name up.
create(p) ==
  /\ At(p, "create")
  /\ LET c == call[p]
         dp == c.ip
         locked == ilock(icache, dp, p)
         i == dirlookup(disk, icache, dp, Head(c.path))
     IN
       /\ Takes(p, dp)
       /\ IF i # 0
          THEN /\ ~NoInodes(locked, i)
               /\ icache' = iget(iunlock(locked, dp), i)
               /\ Put(p, <<dp>>)
               /\ Goto(p, "create_old", [Idle EXCEPT !.op = c.op, !.ip = SlotFor(locked, i)])
          ELSE /\ icache' = locked
               /\ Goto(p, "create_ialloc", [c EXCEPT !.ip = 0, !.dp = dp])
               /\ UNCHANGED puts
  /\ UNCHANGED <<disk, putting, panicked, cwd, file, strayed>>

\* The name is there: fine for open with O_CREATE if it is a file.
create_old(p) ==
  /\ At(p, "create_old")
  /\ LET s == call[p].ip
         locked == ilock(icache, s, p)
     IN
       /\ Takes(p, s)
       /\ IF call[p].op = "creat" /\ locked[s].type = "FILE"
          THEN OpenLocked(p, locked, s)
          ELSE icache' = iunlock(locked, s) /\ Return(p, <<s>>) /\ UNCHANGED file
  /\ UNCHANGED <<disk, putting, panicked, cwd, strayed>>

\* ialloc, on disk and then in the cache.
create_ialloc(p) ==
  /\ At(p, "create_ialloc")
  /\ \E i \in FreeInums(disk) :
       /\ disk' = ialloc(disk, i, MakesType(call[p].op))
       /\ Goto(p, "create_iget", [call[p] EXCEPT !.inum = i])
  /\ UNCHANGED <<icache, puts, putting, panicked, cwd, file, strayed>>

create_iget(p) ==
  /\ At(p, "create_iget")
  /\ LET i == call[p].inum IN
       /\ ~NoInodes(icache, i)
       /\ icache' = iget(icache, i)
       /\ Goto(p, "create_ip", [call[p] EXCEPT !.inum = 0, !.ip = SlotFor(icache, i)])
  /\ UNCHANGED <<disk, puts, putting, panicked, cwd, file, strayed>>

CountDotDot(c, s) == OneMore(c, s)

\* The new inode locked: one link, "." and ".." for a directory, and its name;
\* then the directory is unlocked and put while the inode stays locked.
create_ip(p) ==
  /\ At(p, "create_ip")
  /\ LET c == call[p]
         i == icache[c.ip].inum
         d == icache[c.dp].inum
         dir == MakesType(c.op) = "DIR"
         linked == [ilock(icache, c.ip, p) EXCEPT ![c.ip].nlink = 1]
         counted == IF dir THEN CountDotDot(linked, c.dp) ELSE linked
         dots == IF dir THEN SetEntry(SetEntry(disk, i, ".", i), i, "..", d) ELSE disk
         named == SetEntry(dots, d, Head(c.path), i)
     IN
       /\ Takes(p, c.ip)
       /\ disk' = iupdate(iupdate(named, counted, c.ip), counted, c.dp)
       /\ icache' = iunlock(counted, c.dp)
       /\ Put(p, <<c.dp>>)
       /\ Goto(p, "create_end", [Idle EXCEPT !.op = c.op, !.ip = c.ip])
  /\ UNCHANGED <<putting, panicked, cwd, file, strayed>>

\* create has returned: the end of sys_open, sys_mkdir and sys_mknod.
create_end(p) ==
  /\ At(p, "create_end")
  /\ LET s == call[p].ip IN
       IF call[p].op = "creat" THEN OpenLocked(p, icache, s)
       ELSE icache' = iunlock(icache, s) /\ Return(p, <<s>>) /\ UNCHANGED file
  /\ UNCHANGED <<disk, putting, panicked, cwd, strayed>>

-----------------------------------------------------------------------------
\* The entry of icache whose lock p takes in its next step; 0 for none.
Wants(p) ==
  IF puts[p] # <<>> THEN IF putting[p] = "lock" THEN Head(puts[p]) ELSE 0
  ELSE IF pc[p] \in {"namex", "open", "chdir", "link", "link_dp", "link_bad", "unlink",
                     "unlink_ip", "create", "create_old", "create_ip"}
  THEN call[p].ip ELSE 0

\* The inum that p looks up and passes to iget in its next step; 0 for none.
Gets(p) ==
  LET c == call[p]
      d == disk[icache[c.ip].inum]
      n == Head(c.path)
  IN CASE pc[p] = "create_iget" -> c.inum
       [] pc[p] = "namex" ->
            IF d.type # "DIR" \/ (nameiparent(c.op) /\ Tail(c.path) = <<>>)
            THEN 0 ELSE d.ents[n]
       [] pc[p] \in {"link_dp", "create"} -> d.ents[n]
       [] pc[p] = "unlink" -> IF n \in {".", ".."} THEN 0 ELSE d.ents[n]
       [] OTHER -> 0

\* The panic that p's next step runs into, or "no".
PanicOf(p) ==
  LET s == Wants(p)
      i == IF puts[p] = <<>> THEN Gets(p) ELSE 0
  IN CASE puts[p] # <<>> -> "no"
       [] s # 0 /\ icache[s].lock # NoProc -> "no"
       [] s # 0 /\ ~icache[s].valid /\ disk[icache[s].inum].type = Free -> "ilock: no type"
       [] pc[p] = "unlink_ip" /\ ilock(icache, s, p)[s].nlink < 1 -> "unlink: nlink < 1"
       [] pc[p] = "create_ialloc" /\ FreeInums(disk) = {} -> "ialloc: no inodes"
       [] i # 0 /\ NoInodes(icache, i) -> "iget: no inodes"
       [] OTHER -> "no"

panic(p) ==
  /\ PanicOf(p) # "no"
  /\ panicked' = PanicOf(p)
  /\ UNCHANGED <<disk, icache, puts, putting, pc, call, cwd, file, strayed>>

Next ==
  /\ panicked = "no"
  /\ \E p \in Procs :
       \/ iput(p) /\ UNCHANGED <<pc, call, cwd, file, strayed>>
       \/ \E k \in Calls[p] : begin(p, k)
       \/ namex(p) \/ (\E w \in BOOLEAN : open(p, w)) \/ chdir(p) \/ close(p) \/ exit(p)
       \/ link(p) \/ link_dp(p) \/ link_dup(p) \/ link_bad(p)
       \/ unlink(p) \/ unlink_ip(p) \/ unlink_bad(p) \/ unlink_dec(p)
       \/ create(p) \/ create_old(p) \/ create_ialloc(p) \/ create_iget(p)
       \/ create_ip(p) \/ create_end(p)
       \/ panic(p)

Spec == Init /\ [][Next]_vars

-----------------------------------------------------------------------------
(* Properties *)

\* A name never leads to an inode that is free, and the link count on disk,
\* which decides when an inode may be freed, is never below the number of
\* names and of subdirectories that refer to it, whatever link, unlink and
\* create are in the middle of (sysfile.c:118-283).
LinksCover ==
  \A i \in Inums :
    /\ NamesOf(i) # {} => disk[i].type # Free
    /\ Cardinality(NamesOf(i)) + Cardinality(SubdirsOf(i))
         + (IF i = ROOTINO THEN 1 ELSE 0) <= disk[i].nlink

\* The references to entries of icache that p holds, and those to entry s.
Pointers(p) == <<cwd[p], file[p], call[p].ip, call[p].dp>> \o puts[p]
Holders(s) == {h \in Procs \X (1 .. 6) :
                 h[2] \in DOMAIN Pointers(h[1]) /\ Pointers(h[1])[h[2]] = s}

\* An inode in use stays: ref counts the pointers to a cache entry exactly, an
\* inode has one entry, an open file or a current directory is never freed
\* under its user though others unlink it, and what the cache says of an inode
\* that nobody has locked is what the disk says (fs.c:195-352).
InUseKept ==
  /\ \A s \in Slots :
       /\ icache[s].ref = Cardinality(Holders(s)) + (IF icache[s].inum = ROOTINO THEN 1 ELSE 0)
       /\ icache[s].ref > 0 =>
            \A t \in Slots \ {s} : icache[t].ref > 0 => icache[t].inum # icache[s].inum
       /\ icache[s].valid /\ icache[s].lock = NoProc =>
            /\ icache[s].type = disk[icache[s].inum].type
            /\ icache[s].nlink = disk[icache[s].inum].nlink
  /\ \A p \in Procs :
       /\ file[p] # 0 => disk[icache[file[p]].inum].type # Free
       /\ cwd[p] # 0 => disk[icache[cwd[p]].inum].type = "DIR"

\* Short of running out of inodes, nothing panics before somebody walks up
\* from a directory that was removed while in use.  (The ".." of that directory
\* is not counted any more, so its parent may be free by then, and ilock panics
\* with "no type"; or it is another inode, half made.)  (sysfile.c:217-222,
\* fs.c:308).
PanicsOnlyAboveRemoved ==
  strayed \/ panicked \in {"no", "iget: no inodes", "ialloc: no inodes"}

\* The process that holds the lock p is about to take.
WaitsFor(p) == IF Wants(p) = 0 THEN NoProc ELSE icache[Wants(p)].lock

\* Whoever waits for each other's inode locks, or one for its own, waits in
\* iput: namex, create, link and unlink take their locks parent before child
\* and drop one before they take an unrelated one, but iput locks the inode it
\* puts while its caller may hold another one
\* (fs.c:331-336; "The separation also helps avoid deadlock and races during
\* pathname lookup", fs.c:149-150).
CyclesOnlyThroughIput ==
  \A S \in SUBSET Procs \ {{}} :
    (\A p \in S : WaitsFor(p) \in S) => \E p \in S : puts[p] # <<>>
=============================================================================
