------------------------------- MODULE Inode -------------------------------
(***************************************************************************)
(* The inode layer of fs.c: the inodes and directories on disk, and the    *)
(* cache icache of the inodes in use.                                      *)
(*                                                                         *)
(* icache.lock makes iget, idup and the last step of iput atomic; the      *)
(* sleep lock of an inode protects the rest of its cache entry and its     *)
(* content on disk.  Operators with a parameter c or d are what the code   *)
(* does to the cache or the disk between two such points; a step of        *)
(* Namespace combines those that run under locks already held.  Blocks and *)
(* bytes are in FileData; a directory is a function from names to inums.   *)
(***************************************************************************)
EXTENDS Integers, Sequences, FiniteSets

CONSTANTS
  Procs,     \* processes that make file system calls
  NINODE,    \* entries of icache (50 in the source)
  NInodes,   \* inodes on the disk, the superblock's ninodes less one
  Names      \* names a directory entry can have, besides "." and ".."

ASSUME InodeAssumption ==
  /\ NINODE \in Nat \ {0} /\ NInodes \in Nat \ {0}
  /\ "." \notin Names /\ ".." \notin Names

Slots == 1 .. NINODE
Inums == 1 .. NInodes
ROOTINO == 1
NoProc == "nobody"
Free == "free"          \* a dinode's type 0
Entries == Names \cup {".", ".."}

VARIABLES
  disk,      \* inum -> [type, nlink, ents]; ents[n] = 0 when n is absent
  icache,    \* slot -> [inum, ref, valid, type, nlink, lock]
  puts,      \* the inodes a process still has to iput before it goes on
  putting,   \* where the first of these iputs is
  panicked   \* the message of a panic, or "no"

inodevars == <<disk, icache, puts, putting, panicked>>

NoEntries == [n \in Entries |-> 0]
FreeInode == [type |-> Free, nlink |-> 0, ents |-> NoEntries]
EmptySlot ==
  [inum |-> 0, ref |-> 0, valid |-> FALSE, type |-> Free, nlink |-> 0,
   lock |-> NoProc]

\* mkfs: a root directory whose "." and ".." are itself.
RootInode ==
  [type |-> "DIR", nlink |-> 1,
   ents |-> [NoEntries EXCEPT !["."] = ROOTINO, ![".."] = ROOTINO]]

First(S) == CHOOSE x \in S : \A y \in S : x <= y

-----------------------------------------------------------------------------
Cached(c, i) == {s \in Slots : c[s].ref > 0 /\ c[s].inum = i}
Unreferenced(c) == {s \in Slots : c[s].ref = 0}

\* iget finds no entry for the inode and none to recycle.
NoInodes(c, i) == Cached(c, i) \cup Unreferenced(c) = {}

\* The entry that iget returns.
SlotFor(c, i) == First(IF Cached(c, i) # {} THEN Cached(c, i) ELSE Unreferenced(c))

\* Mutant: a new entry for an inode that is cached already.
Again_iget(c, i) ==
  [c EXCEPT ![First(Unreferenced(c))] = [EmptySlot EXCEPT !.inum = i, !.ref = 1]]

\* iget: one more reference to the entry, or a new entry, not read from disk.
iget(c, i) ==
  IF Cached(c, i) # {} THEN [c EXCEPT ![SlotFor(c, i)].ref = @ + 1]
  ELSE [c EXCEPT ![SlotFor(c, i)] = [EmptySlot EXCEPT !.inum = i, !.ref = 1]]

idup(c, s) == [c EXCEPT ![s].ref = @ + 1]

\* ilock by p, when the lock is free; an entry that is not valid is read.
ilock(c, s, p) ==
  LET dip == disk[c[s].inum] IN
  IF c[s].valid THEN [c EXCEPT ![s].lock = p]
  ELSE [c EXCEPT ![s].lock = p, ![s].valid = TRUE,
                 ![s].type = dip.type, ![s].nlink = dip.nlink]

\* Mutant: the lock is not released.
Kept_iunlock(c, s) == c

iunlock(c, s) == [c EXCEPT ![s].lock = NoProc]

\* iupdate: the cache is write-through.
iupdate(d, c, s) ==
  [d EXCEPT ![c[s].inum].type = c[s].type, ![c[s].inum].nlink = c[s].nlink]

\* dirlookup in the directory of entry s: an inum, or 0.
dirlookup(d, c, s, n) == d[c[s].inum].ents[n]

\* dirlink and the write of an empty dirent in sys_unlink.
SetEntry(d, dir, n, i) == [d EXCEPT ![dir].ents[n] = i]

isdirempty(d, i) == \A n \in Names : d[i].ents[n] = 0

\* ialloc takes an inode that it finds free in its scan of the disk.  (Others
\* may allocate and free inodes while it scans, so not always the first one.)
FreeInums(d) == {i \in Inums : d[i].type = Free}
ialloc(d, i, t) == [d EXCEPT ![i] = [FreeInode EXCEPT !.type = t]]

-----------------------------------------------------------------------------
\* Mutant: an inode without links is freed though others still refer to it.
Always_LastRef(s) == TRUE

LastRef(s) == icache[s].ref = 1

\* iput, first part: lock, and decide whether to free the inode.
iput_lock(p) ==
  /\ puts[p] # <<>> /\ putting[p] = "lock"
  /\ LET s == Head(puts[p]) IN
       /\ icache[s].lock = NoProc
       /\ IF icache[s].valid /\ icache[s].nlink = 0 /\ LastRef(s)
          THEN /\ icache' = [icache EXCEPT ![s].lock = p]
               /\ putting' = [putting EXCEPT ![p] = "free"]
          ELSE putting' = [putting EXCEPT ![p] = "drop"] /\ UNCHANGED icache
  /\ UNCHANGED <<disk, puts, panicked>>

\* The entry after ip->type = 0, ip->valid = 0 and releasesleep.
Freed(c, s) == [c EXCEPT ![s].type = Free, ![s].valid = FALSE, ![s].lock = NoProc]

\* iput, the inode freed: itrunc, type 0, iupdate, not valid, unlock.
iput_free(p) ==
  /\ puts[p] # <<>> /\ putting[p] = "free"
  /\ LET s == Head(puts[p]) IN
       /\ disk' = [disk EXCEPT ![icache[s].inum] = FreeInode]
       /\ icache' = Freed(icache, s)
  /\ putting' = [putting EXCEPT ![p] = "drop"]
  /\ UNCHANGED <<puts, panicked>>

\* iput, last part: the reference goes.  (An entry without references keeps
\* its fields in the code, where nothing reads them before iget sets them.)
iput_drop(p) ==
  /\ puts[p] # <<>> /\ putting[p] = "drop"
  /\ LET s == Head(puts[p]) IN
       icache' = [icache EXCEPT ![s] = IF @.ref = 1 THEN EmptySlot
                                       ELSE [@ EXCEPT !.ref = @ - 1]]
  /\ puts' = [puts EXCEPT ![p] = Tail(@)]
  /\ putting' = [putting EXCEPT ![p] = "lock"]
  /\ UNCHANGED <<disk, panicked>>

iput(p) == iput_lock(p) \/ iput_free(p) \/ iput_drop(p)
=============================================================================
