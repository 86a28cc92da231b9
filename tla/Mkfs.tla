-------------------------------- MODULE Mkfs --------------------------------
(***************************************************************************)
(* A disk with inodes, and mkfs.c, which makes the first one.              *)
(*                                                                         *)
(* A block is BSIZE words; a word holds a piece of data, a directory entry *)
(* (the number of its inode) or, in an indirect block, a block number.     *)
(* Block numbers start behind the log, the inodes and the bitmap.          *)
(***************************************************************************)
EXTENDS Naturals, Sequences, SequencesExt, FiniteSets, FiniteSetsExt

CONSTANTS
  BSIZE,     \* words in a block
  NDIRECT,   \* block numbers in an inode
  NBLOCKS,   \* data blocks of the disk
  NINODES,   \* inodes
  Trees      \* what mkfs may be given: sequences of files, each a sequence of words

ASSUME MkfsAssumption ==
  /\ BSIZE \in Nat \ {0} /\ NDIRECT \in Nat \ {0} /\ NBLOCKS \in Nat /\ NINODES \in Nat \ {0}
  /\ \A t \in Trees : t \in Seq(Seq(Nat \ {0})) /\ Len(t) < NINODES

NINDIRECT == BSIZE
MAXFILE == NDIRECT + NINDIRECT
Blocks == 1 .. NBLOCKS
Inums == 1 .. NINODES
ROOTINO == 1
Zeroes == [k \in 0 .. BSIZE - 1 |-> 0]
NoInode == [addrs |-> [k \in 0 .. NDIRECT |-> 0], size |-> 0]

\* All blocks zero; next is freeblock, the first block not used yet.
EmptyDisk ==
  [data |-> [b \in Blocks |-> Zeroes], dinode |-> [i \in Inums |-> NoInode], next |-> 1]

\* The block for block bn of inode i: it comes from freeblock, the indirect
\* block before it.
Mapped(d, i, bn) ==
  LET a == d.dinode[i].addrs IN
  IF bn < NDIRECT
  THEN IF a[bn] # 0 THEN d
       ELSE [d EXCEPT !.dinode[i].addrs[bn] = d.next, !.next = @ + 1]
  ELSE LET g == IF a[NDIRECT] # 0 THEN d
                ELSE [d EXCEPT !.dinode[i].addrs[NDIRECT] = d.next, !.next = @ + 1]
           x == g.dinode[i].addrs[NDIRECT]
       IN IF g.data[x][bn - NDIRECT] # 0 THEN g
          ELSE [g EXCEPT !.data[x][bn - NDIRECT] = g.next, !.next = @ + 1]

\* Where block bn of an inode is.
Address(data, inode, bn) ==
  IF bn < NDIRECT THEN inode.addrs[bn] ELSE data[inode.addrs[NDIRECT]][bn - NDIRECT]

\* iappend, word by word.
AppendWord(d, i, x) ==
  LET at == d.dinode[i].size
      g == Mapped(d, i, at \div BSIZE)
      b == Address(g.data, g.dinode[i], at \div BSIZE)
  IN [g EXCEPT !.data[b][at % BSIZE] = x, !.dinode[i].size = @ + 1]

iappend(d, i, s) == FoldLeft(LAMBDA g, x : AppendWord(g, i, x), d, s)

\* main: the root directory, with "." and "..", then each file and its entry;
\* at last the size of the root directory is rounded up to whole blocks.
mkfs(tree) ==
  LET root == iappend(EmptyDisk, ROOTINO, <<ROOTINO, ROOTINO>>)
      all == FoldLeft(LAMBDA d, i : iappend(iappend(d, ROOTINO, <<i>>), i, tree[i - 1]),
                      root, [k \in 1 .. Len(tree) |-> k + 1])
  IN [all EXCEPT !.dinode[ROOTINO].size = (@ \div BSIZE + 1) * BSIZE]

\* balloc of mkfs.c: the bitmap.
mkfs_balloc(d) == 1 .. d.next - 1
=============================================================================
