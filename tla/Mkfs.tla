-------------------------------- MODULE Mkfs --------------------------------
(***************************************************************************)
(* mkfs/mkfs.c: the disk that the kernel starts from, as an operator from  *)
(* the files on the command line.  An image is [d, freeblock, freeinode];  *)
(* block b of d is sector nmeta + b - 1, so freeblock counts from 1.       *)
(***************************************************************************)
EXTENDS Disk, SequencesExt

Zeroes == [bitmap |-> {}, blk |-> [b \in 0 .. NBLOCKS |-> ZeroBlock],
           di |-> [i \in Inums |-> FreeInode], log |-> {}, panic |-> ""]

(* ialloc(): the next inode, which is linked once.                         *)
mk_ialloc(m, type) ==
  [m EXCEPT !.d.di[m.freeinode] = [FreeInode EXCEPT !.type = type, !.nlink = 1],
            !.freeinode = @ + 1]

(* The address addr, or the next free block when it is 0.                  *)
FreshBlock(m, addr) ==
  IF addr # 0 THEN [m |-> m, addr |-> addr]
  ELSE [m |-> [m EXCEPT !.freeblock = @ + 1], addr |-> m.freeblock]

FreshDirect(m, inum, k) ==
  LET f == FreshBlock(m, m.d.di[inum].addrs[k])
  IN  [f EXCEPT !.m.d.di[inum].addrs[k] = f.addr]

FreshListed(ind, u) ==
  LET f == FreshBlock(ind.m, ind.m.d.blk[ind.addr][u][2])
  IN  [f EXCEPT !.m.d.blk[ind.addr][u] = <<"", f.addr>>]

(* iappend(): block by block from the end of the file on.                  *)
RECURSIVE iappend(_, _, _)
AppendTo(f, inum, src, off) ==
  LET n1 == Min({Len(src), (off \div BSIZE + 1) * BSIZE - off})
  IN  iappend([f.m EXCEPT !.d.blk[f.addr] = Into(@, off % BSIZE, src, n1),
                          !.d.di[inum].size = off + n1],
              inum, SubSeq(src, n1 + 1, Len(src)))
iappend(m, inum, src) ==
  LET off == m.d.di[inum].size
      fbn == off \div BSIZE
  IN  IF src = <<>> THEN m
      ELSE AppendTo(IF fbn < NDIRECT THEN FreshDirect(m, inum, fbn)
                    ELSE FreshListed(FreshDirect(m, inum, NDIRECT), fbn - NDIRECT),
                    inum, src, off)

(* A file of the command line: its inode, its entry, and its contents.     *)
AddFile(m, file) ==
  iappend(iappend(mk_ialloc(m, "FILE"), ROOTINO, <<<<file.name, m.freeinode>>>>),
          m.freeinode, file.data)

(* "fix size of root inode dir": the rest of its last block is empty       *)
(* entries.  Where the entries fill their last block there is no block for *)
(* that rest, so the number of entries is taken not to be a multiple of    *)
(* BSIZE (64 in the program, whose directory has some twenty).             *)
Rounded(m) == [m EXCEPT !.d.di[ROOTINO].size = (@ \div BSIZE + 1) * BSIZE]

mk_balloc(m) == [m.d EXCEPT !.bitmap = 1 .. m.freeblock - 1]

mkfs(files) ==
  LET root == iappend(mk_ialloc([d |-> Zeroes, freeblock |-> 1, freeinode |-> 1], "DIR"),
                      ROOTINO, <<<<".", ROOTINO>>, <<"..", ROOTINO>>>>)
  IN  mk_balloc(Rounded(FoldLeft(AddFile, root, files)))
=============================================================================
