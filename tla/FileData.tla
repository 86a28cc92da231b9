------------------------------ MODULE FileData ------------------------------
(***************************************************************************)
(* The contents of files: block allocation, bmap, itrunc, readi and writei *)
(* of fs.c, and the loops of fileread and filewrite in file.c.             *)
(*                                                                         *)
(* An inode is locked while its contents are read or written, and a write  *)
(* is cut into transactions; each transaction is one step.  Names are in   *)
(* module Namespace, the log in module Log.                                *)
(***************************************************************************)
EXTENDS Mkfs

CONSTANTS
  MAXOPBLOCKS,   \* blocks that one transaction may log
  Procs,
  Files,         \* open files
  Amounts        \* lengths of reads and writes

VARIABLES
  fs,       \* [data, used, inode, dinode, addr, logged, panicked]: the blocks, the
            \* bitmap, the inodes in memory and on disk, the block found last, the
            \* blocks logged by the last transaction
  ino, off, \* struct file
  writing   \* filewrite in progress: [f, n], n words left

filevars == <<fs, ino, off, writing>>

NoWrite == [f |-> 0, n |-> 0]
Word(p) == p       \* what p writes
BitmapBlock == 0   \* the blocks that are not for data: one of each kind is enough
InodeBlock == NBLOCKS + 1

FileInit ==
  /\ \E t \in Trees :
       LET d == mkfs(t) IN
       fs = [data |-> d.data, used |-> mkfs_balloc(d), inode |-> d.dinode,
             dinode |-> d.dinode, addr |-> 0, logged |-> {}, panicked |-> FALSE]
  /\ ino = [f \in Files |-> 0] /\ off = [f \in Files |-> 0]
  /\ writing = [p \in Procs |-> NoWrite]

-----------------------------------------------------------------------------
(* Blocks *)

\* Mutant: the block keeps what it held before.
Stale_bzero(d, b) == d

bzero(d, b) == [d EXCEPT !.data[b] = Zeroes, !.logged = @ \cup {b}]

balloc(d) ==
  IF Blocks \subseteq d.used THEN [d EXCEPT !.panicked = TRUE]
  ELSE LET b == Min(Blocks \ d.used) IN
       bzero([d EXCEPT !.used = @ \cup {b}, !.addr = b, !.logged = @ \cup {BitmapBlock}], b)

bfree(d, b) ==
  [d EXCEPT !.used = @ \ {b}, !.panicked = @ \/ b \notin d.used,
            !.logged = @ \cup {BitmapBlock}]

\* bmap for a block number below NDIRECT, or for the indirect block.
Direct(d, i, k) ==
  IF d.inode[i].addrs[k] # 0 THEN [d EXCEPT !.addr = d.inode[i].addrs[k]]
  ELSE LET g == balloc(d) IN
       IF g.panicked THEN g ELSE [g EXCEPT !.inode[i].addrs[k] = g.addr]

bmap(d, i, bn) ==
  IF bn < NDIRECT THEN Direct(d, i, bn)
  ELSE LET g == Direct(d, i, NDIRECT)
           a == g.addr
           k == bn - NDIRECT
       IN IF g.panicked THEN g
          ELSE IF g.data[a][k] # 0 THEN [g EXCEPT !.addr = g.data[a][k]]
          ELSE LET h == balloc(g) IN
               IF h.panicked THEN h
               ELSE [h EXCEPT !.data[a][k] = h.addr, !.logged = @ \cup {a}]

iupdate(d, i) == [d EXCEPT !.dinode[i] = d.inode[i], !.logged = @ \cup {InodeBlock}]

\* itrunc: the direct blocks, those of the indirect block, and that block.
itrunc(d, i) ==
  LET a == d.inode[i].addrs
      direct == {a[k] : k \in 0 .. NDIRECT - 1} \ {0}
      indirect == IF a[NDIRECT] = 0 THEN {} ELSE {d.data[a[NDIRECT]][k] : k \in 0 .. NINDIRECT - 1} \ {0}
      g == FoldSet(LAMBDA b, x : bfree(x, b), d, direct \cup indirect \cup ({a[NDIRECT]} \ {0}))
  IN iupdate([g EXCEPT !.inode[i] = NoInode], i)

-----------------------------------------------------------------------------
(* Reading and writing *)

\* The blocks that n words from offset o lie in.
Spanned(o, n) == [k \in 1 .. (o + n - 1) \div BSIZE - o \div BSIZE + 1 |-> o \div BSIZE + k - 1]

\* One round of the loop of writei: the part of the n words that is in block bn.
WriteBlock(d, i, bn, o, n, v) ==
  LET g == bmap(d, i, bn) IN
  IF g.panicked THEN g
  ELSE [g EXCEPT
          !.data[g.addr] = [k \in 0 .. BSIZE - 1 |->
             IF bn * BSIZE + k \in o .. o + n - 1 THEN v ELSE g.data[g.addr][k]],
          !.logged = @ \cup {g.addr}]

\* Mutant: the size goes to disk only with a new block.
Block_Grows(d, i, end) == end > d.inode[i].size /\ end % BSIZE = 1

Grows(d, i, end) == end > d.inode[i].size

\* Nothing depends on the block found last; logged is what a step logs.
Logged(d) == [d EXCEPT !.addr = 0]
Done(d) == [d EXCEPT !.logged = {}]

\* Where writei refuses.
Refused(i, o, n) == o > fs.inode[i].size \/ o + n > MAXFILE * BSIZE

writei(i, o, n, v) ==
  LET g == FoldLeft(LAMBDA d, bn : WriteBlock(d, i, bn, o, n, v),
                    Done(fs), Spanned(o, n))
  IN IF g.panicked \/ ~Grows(g, i, o + n) THEN g
     ELSE iupdate([g EXCEPT !.inode[i].size = o + n], i)

\* readi looks for its blocks with bmap as well.
readi(i, o, n) ==
  FoldLeft(LAMBDA d, bn : bmap(d, i, bn), Done(fs), Spanned(o, n))

\* Mutant: the whole write in one transaction.
Whole_Chunk(n) == n

\* The words that filewrite writes in one transaction.
Chunk(n) == Min({n, ((MAXOPBLOCKS - 1 - 1 - 2) \div 2) * BSIZE})

-----------------------------------------------------------------------------
(* Operations *)

open(f, i) ==
  /\ ino[f] = 0
  /\ ino' = [ino EXCEPT ![f] = i]
  /\ fs' = Done(fs)
  /\ UNCHANGED <<off, writing>>

close(f) ==
  /\ ino[f] # 0 /\ \A p \in Procs : writing[p].f # f
  /\ ino' = [ino EXCEPT ![f] = 0]
  /\ off' = [off EXCEPT ![f] = 0]
  /\ fs' = Done(fs)
  /\ UNCHANGED writing

\* iput of a file without links that nobody has open.
remove(i) ==
  /\ i # ROOTINO /\ fs.inode[i].size > 0 /\ \A f \in Files : ino[f] # i
  /\ fs' = itrunc(Done(fs), i)
  /\ UNCHANGED <<ino, off, writing>>

fileread(f, n) ==
  /\ ino[f] # 0 /\ off[f] < fs.inode[ino[f]].size
  /\ LET m == Min({n, fs.inode[ino[f]].size - off[f]}) IN
       /\ fs' = Logged(readi(ino[f], off[f], m))
       /\ off' = [off EXCEPT ![f] = @ + m]
  /\ UNCHANGED <<ino, writing>>

filewrite(p, f, n) ==
  /\ writing[p] = NoWrite /\ ino[f] \notin {0, ROOTINO}
  /\ writing' = [writing EXCEPT ![p] = [f |-> f, n |-> n]]
  /\ fs' = Done(fs)
  /\ UNCHANGED <<ino, off>>

\* One transaction of filewrite.  It gives up when writei does.
filewrite_chunk(p) ==
  /\ writing[p] # NoWrite
  /\ LET f == writing[p].f
         n == Chunk(writing[p].n)
     IN
       IF Refused(ino[f], off[f], n)
       THEN writing' = [writing EXCEPT ![p] = NoWrite] /\ fs' = Done(fs) /\ UNCHANGED off
       ELSE /\ fs' = Logged(writei(ino[f], off[f], n, Word(p)))
            /\ off' = [off EXCEPT ![f] = @ + n]
            /\ writing' = [writing EXCEPT ![p] =
                             IF n = writing[p].n THEN NoWrite ELSE [@ EXCEPT !.n = @ - n]]
  /\ UNCHANGED ino

FileNext ==
  /\ ~fs.panicked
  /\ \/ \E f \in Files, i \in Inums \ {ROOTINO} : open(f, i)
     \/ \E f \in Files : close(f) \/ \E n \in Amounts : fileread(f, n)
     \/ \E i \in Inums : remove(i)
     \/ \E p \in Procs : filewrite_chunk(p)
                         \/ \E f \in Files, n \in Amounts : filewrite(p, f, n)

-----------------------------------------------------------------------------
(* Properties *)

\* The blocks below the end of a file, and all that its inode leads to.
Below(i) == 0 .. (fs.inode[i].size + BSIZE - 1) \div BSIZE - 1
Leads(i) ==
  LET a == fs.inode[i].addrs IN
  [k \in {j \in 0 .. NDIRECT : a[j] # 0} |-> a[k]]
IndirectOf(i) ==
  LET x == fs.inode[i].addrs[NDIRECT] IN
  IF x = 0 THEN {} ELSE {k \in 0 .. NINDIRECT - 1 : fs.data[x][k] # 0}
NumberOf(i) == Cardinality(DOMAIN Leads(i)) + Cardinality(IndirectOf(i))
BlocksOf(i) ==
  {Leads(i)[k] : k \in DOMAIN Leads(i)}
    \cup {fs.data[fs.inode[i].addrs[NDIRECT]][k] : k \in IndirectOf(i)}

\* The bitmap marks exactly the blocks that some inode leads to, each once; the
\* inodes on disk are those in memory; and below the end of a file no block is
\* missing, so that a read, which is in no transaction, never allocates one.
\* All this from the disk that mkfs made (mkfs.c:256-297, fs.c:57-95, 373-511).
DiskConsistent ==
  ~fs.panicked =>
    /\ fs.used = UNION {BlocksOf(i) : i \in Inums}
    /\ Cardinality(fs.used) = MapThenSumSet(NumberOf, Inums)
    /\ fs.inode = fs.dinode
    /\ \A i \in Inums \ {ROOTINO} : \A bn \in Below(i) : Address(fs.data, fs.inode[i], bn) # 0

\* One transaction of filewrite logs no more blocks than begin_op has reserved
\* for it, aligned or not, with the bitmap, the indirect block and the inode
\* (file.c:127-133).
FitsTransaction == Cardinality(fs.logged) <= MAXOPBLOCKS

contents == INSTANCE Contents WITH
  Inums <- Inums \ {ROOTINO}, Words <- {Word(p) : p \in Procs},
  text <- [i \in Inums \ {ROOTINO} |->
             [k \in 1 .. fs.inode[i].size |->
                fs.data[Address(fs.data, fs.inode[i], (k - 1) \div BSIZE)][(k - 1) % BSIZE]]]

\* A file is the sequence of what was written to it, whatever happens to other
\* files, whichever blocks it gets and whatever these held before
\* (fs.c:373-511, file.c:97-155).  Running out of blocks is a panic.
FilesAreSequences == contents!Init /\ [][~fs'.panicked => contents!Next]_(contents!vars)
=============================================================================
