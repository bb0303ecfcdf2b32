-------------------------------- MODULE Disk --------------------------------
(***************************************************************************)
(* What kernel/fs.c keeps in disk blocks: the free bitmap, the inodes and  *)
(* the contents of files and directories, as operators from a disk to a    *)
(* disk.  The caller holds the lock of the inode, and each bread() ..      *)
(* brelse() is one step, so an operator is the whole of its function.      *)
(*                                                                         *)
(* A block is BSIZE units.  A unit <<name, x>> is a directory entry, a     *)
(* block address <<"", x>> or a datum; <<"", 0>> is zeroed memory.         *)
(* A disk d is [bitmap, blk, di, log, panic]: the blocks in use, their     *)
(* contents, the inodes, the blocks that log_write() was called on, and    *)
(* the message of a panic ("" while there is none).                        *)
(***************************************************************************)
EXTENDS Integers, Sequences, FiniteSets, FiniteSetsExt

CONSTANTS NBLOCKS, NINODES,   \* data blocks; inodes, the root among them
          BSIZE, NDIRECT,     \* units in a block; direct addresses
          UINT                \* number of values of the type uint

NINDIRECT == BSIZE
MAXFILE == NDIRECT + NINDIRECT
Blocks == 1 .. NBLOCKS
Inums == 1 .. NINODES
ROOTINO == 1
NDEV == 10

Zeroed == <<"", 0>>
ZeroBlock == [u \in 0 .. BSIZE - 1 |-> Zeroed]

(* struct dinode, and the fields of struct inode that are a copy of it.    *)
FreeInode == [type |-> "NONE", major |-> 0, nlink |-> 0, size |-> 0,
              addrs |-> [k \in 0 .. NDIRECT |-> 0]]

Panics(d, why) == [d EXCEPT !.panic = IF @ = "" THEN why ELSE @]
log_write(d, b) == [d EXCEPT !.log = @ \cup {b}]

-----------------------------------------------------------------------------
(* The first free block, marked in the bitmap and zeroed by bzero().       *)
balloc(d) ==
  IF Blocks \subseteq d.bitmap
  THEN [d |-> Panics(d, "balloc: out of blocks"), addr |-> 0]
  ELSE LET b == Min(Blocks \ d.bitmap)
       IN  [d |-> [d EXCEPT !.bitmap = @ \cup {b}, !.blk[b] = ZeroBlock,
                            !.log = @ \cup {<<"bitmap", 0>>, <<"data", b>>}],
            addr |-> b]

bfree(d, b) ==
  IF b \notin d.bitmap THEN Panics(d, "freeing free block")
  ELSE [d EXCEPT !.bitmap = @ \ {b}, !.log = @ \cup {<<"bitmap", 0>>}]

iupdate(d, inum, ip) == log_write([d EXCEPT !.di[inum] = ip], <<"inode", inum>>)

(* ialloc() up to its iget(): the first free inode gets its type.          *)
ialloc(d, type) ==
  LET free == {i \in Inums : d.di[i].type = "NONE"}
  IN  IF free = {} THEN [d |-> Panics(d, "ialloc: no inodes"), inum |-> 0]
      ELSE [d |-> iupdate(d, Min(free), [FreeInode EXCEPT !.type = type]),
            inum |-> Min(free)]

-----------------------------------------------------------------------------
(* An address, allocated if it is 0; bmap() enters it in the inode, or in  *)
(* unit u of the indirect block.                                           *)
Block(d, addr) == IF addr # 0 THEN [d |-> d, addr |-> addr] ELSE balloc(d)

InInode(ip, k, a) == [d |-> a.d, ip |-> [ip EXCEPT !.addrs[k] = a.addr], addr |-> a.addr]

InIndirect(ind, u, a) ==
  [d |-> IF ind.d.blk[ind.addr][u][2] # 0 THEN a.d
         ELSE log_write([a.d EXCEPT !.blk[ind.addr][u] = <<"", a.addr>>], <<"data", ind.addr>>),
   ip |-> ind.ip, addr |-> a.addr]

ViaIndirect(ind, u) == InIndirect(ind, u, Block(ind.d, ind.d.blk[ind.addr][u][2]))

(* The address of block bn of ip.                                          *)
bmap(d, ip, bn) ==
  CASE bn < NDIRECT -> InInode(ip, bn, Block(d, ip.addrs[bn]))
    [] bn >= NDIRECT /\ bn - NDIRECT < NINDIRECT ->
         ViaIndirect(InInode(ip, NDIRECT, Block(d, ip.addrs[NDIRECT])), bn - NDIRECT)
    [] OTHER -> [d |-> Panics(d, "bmap: out of range"), ip |-> ip, addr |-> 0]

(* The blocks of ip: direct, indirect, and those the indirect one lists.   *)
Listed(d, b) == {d.blk[b][u][2] : u \in DOMAIN d.blk[b]} \ {0}
Direct(ip) == {ip.addrs[k] : k \in 0 .. NDIRECT - 1} \ {0}
Indirect(d, ip) == IF ip.addrs[NDIRECT] = 0 THEN {} ELSE Listed(d, ip.addrs[NDIRECT])

(* Variant: the blocks that the indirect block lists stay marked.          *)
itrunc_direct(d, inum, ip) ==
  LET jp == [ip EXCEPT !.size = 0, !.addrs = FreeInode.addrs]
  IN  [d |-> iupdate(FoldSet(LAMBDA b, e : bfree(e, b), d,
                             (Direct(ip) \cup {ip.addrs[NDIRECT]}) \ {0}), inum, jp),
       ip |-> jp]

itrunc(d, inum, ip) ==
  LET jp == [ip EXCEPT !.size = 0, !.addrs = FreeInode.addrs]
      all == Direct(ip) \cup Indirect(d, ip) \cup ({ip.addrs[NDIRECT]} \ {0})
  IN  [d |-> iupdate(FoldSet(LAMBDA b, e : bfree(e, b), d, all), inum, jp), ip |-> jp]

-----------------------------------------------------------------------------
(* The copies of readi() and writei() go block by block: of n units from   *)
(* off, those that are copied when only the first ok can be.               *)
Copied(off, n, ok) ==
  IF ok >= n THEN n ELSE Max({k \in 0 .. ok : k = 0 \/ (off + k) % BSIZE = 0})

(* The number of units that readi() copies; a file has no holes, so that   *)
(* bmap() allocates nothing here.                                          *)
readi(ip, off, n, room) ==
  IF off > ip.size \/ (off + n) % UINT < off THEN 0
  ELSE Copied(off, Min({n, ip.size - off}), room)

(* The first n units of src, at offset at of a block.                      *)
Into(blk, at, src, n) ==
  [u \in DOMAIN blk |-> IF u - at \in 0 .. n - 1 THEN src[u - at + 1] ELSE blk[u]]

(* Variant: a chunk may run past the end of the block.                     *)
ChunkOfBlock(off, n) == Min({n, BSIZE})

ChunkInBlock(off, n) == Min({n, BSIZE - (off % BSIZE)})

(* The loop of writei(): src from off on, of which the first ok units can  *)
(* be read.  The chunk that fails is copied up to the unit that fails, and *)
(* is not logged.                                                          *)
RECURSIVE writeLoop(_, _, _, _, _)
writeBlock(b, src, off, ok) ==
  LET m == ChunkInBlock(off, Len(src))
      e == [b.d EXCEPT !.blk[b.addr] = Into(@, off % BSIZE, src, Min({m, ok}))]
  IN  IF ok < m THEN [d |-> e, ip |-> b.ip, off |-> off]
      ELSE writeLoop(log_write(e, <<"data", b.addr>>), b.ip,
                     SubSeq(src, m + 1, Len(src)), off + m, ok - m)
writeLoop(d, ip, src, off, ok) ==
  IF src = <<>> THEN [d |-> d, ip |-> ip, off |-> off]
  ELSE writeBlock(bmap(d, ip, off \div BSIZE), src, off, ok)

(* Variant: the inode is written back only when its size grew.             *)
WroteLazy(inum, w, n) ==
  LET jp == [w.ip EXCEPT !.size = Max({@, w.off})]
  IN  [d |-> IF w.off > w.ip.size THEN iupdate(w.d, inum, jp) ELSE w.d, ip |-> jp, ret |-> n]

(* The size and the addresses are written back, and n is returned also     *)
(* when the copy failed.                                                   *)
Wrote(inum, w, n) ==
  LET jp == [w.ip EXCEPT !.size = Max({@, w.off})]
  IN  [d |-> iupdate(w.d, inum, jp), ip |-> jp, ret |-> n]

(* Variant: a file may grow past its last block.                           *)
writei_unbounded(d, inum, ip, src, off, ok) ==
  IF off > ip.size \/ src = <<>> THEN [d |-> d, ip |-> ip, ret |-> -1]
  ELSE Wrote(inum, writeLoop(d, ip, src, off, ok), Len(src))

writei(d, inum, ip, src, off, ok) ==
  IF off > ip.size \/ (off + Len(src)) % UINT < off \/ off + Len(src) > MAXFILE * BSIZE
  THEN [d |-> d, ip |-> ip, ret |-> -1]
  ELSE IF src = <<>> THEN [d |-> d, ip |-> ip, ret |-> 0]
  ELSE Wrote(inum, writeLoop(d, ip, src, off, ok), Len(src))

-----------------------------------------------------------------------------
(* Directories.  The entries of dp in order, and the offset of one.        *)
Address(d, ip, bn) == IF bn < NDIRECT THEN ip.addrs[bn]
                      ELSE d.blk[ip.addrs[NDIRECT]][bn - NDIRECT][2]
Contents(d, ip) ==
  [u \in 1 .. ip.size |-> d.blk[Address(d, ip, (u - 1) \div BSIZE)][(u - 1) % BSIZE]]

Offsets(d, dp, name) ==
  {o \in 0 .. dp.size - 1 : LET de == Contents(d, dp)[o + 1] IN de[2] # 0 /\ de[1] = name}

(* A loop that reads the entries from one offset to the one it stops at,   *)
(* and panics when readi() returns something else than an entry.           *)
Scanned(d, dp, from, stop, why) ==
  IF \A o \in from .. Min({stop, dp.size - 1}) : readi(dp, o, 1, 1) = 1 THEN d ELSE Panics(d, why)

(* dirlookup() up to its iget(): the inode number, 0 if there is none.     *)
dirlookup(d, dp, name) ==
  LET stop == Min(Offsets(d, dp, name) \cup {dp.size})
  IN  IF dp.type # "DIR" THEN [d |-> Panics(d, "dirlookup not DIR"), inum |-> 0]
      ELSE [d |-> Scanned(d, dp, 0, stop, "dirlookup read"),
            inum |-> IF stop = dp.size THEN 0 ELSE Contents(d, dp)[stop + 1][2]]

(* dirlink(): -1 if the name is there, otherwise the first empty entry.    *)
Linked(w) ==
  [d |-> IF w.ret = 1 THEN w.d ELSE Panics(w.d, "dirlink"), ip |-> w.ip, ret |-> 0]

dirlink(d, dnum, dp, name, inum) ==
  LET look == dirlookup(d, dp, name)
      stop == Min({o \in 0 .. dp.size - 1 : Contents(d, dp)[o + 1][2] = 0} \cup {dp.size})
  IN  IF look.inum # 0 THEN [d |-> look.d, ip |-> dp, ret |-> -1]
      ELSE Linked(writei(Scanned(look.d, dp, 0, stop, "dirlink read"), dnum, dp,
                         <<<<name, inum>>>>, stop, 1))

(* create() enters the dots in a new directory, and gives up if it cannot. *)
Must(e, why) == IF e.ret = 0 THEN e ELSE [e EXCEPT !.d = Panics(@, why)]
WithDotDot(dnum, inum, e) == Must(dirlink(e.d, inum, e.ip, "..", dnum), "create dots")
WithDots(d, dnum, inum, ip) ==
  WithDotDot(dnum, inum, Must(dirlink(d, inum, ip, ".", inum), "create dots"))

(* sys_unlink() clears the entry with a zeroed one.                        *)
Erased(w) == [d |-> IF w.ret = 1 THEN w.d ELSE Panics(w.d, "unlink: writei"), ip |-> w.ip]
direrase(d, dnum, dp, name) ==
  Erased(writei(d, dnum, dp, <<Zeroed>>, Min(Offsets(d, dp, name)), 1))

(* The entries of dp that follow the dots.                                 *)
isdirempty(d, dp) ==
  LET stop == Min({o \in 2 .. dp.size - 1 : Contents(d, dp)[o + 1][2] # 0} \cup {dp.size})
  IN  [d |-> Scanned(d, dp, 2, stop, "isdirempty: readi"), yes |-> stop = dp.size]
=============================================================================
