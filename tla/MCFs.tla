-------------------------------- MODULE MCFs --------------------------------
(* An instance of Fs: a disk with a file and two directories, pairs of     *)
(* programs that meet in them, and the tests of Usertests.                 *)
EXTENDS Fs, Mkfs, Usertests, TLC

CONSTANTS p1, p2, p3

(* The root 1 holds the file a (2), by mkfs, and the directory d (3).      *)
Image == mkfs(<<[name |-> "a", data |-> <<<<"old", 1>>, <<"old", 2>>, <<"old", 3>>>>]>>)
WithDir(d_, dnum, name) ==
  [Created(ialloc(d_, "DIR").d, ialloc(d_, "DIR").inum,
           [FreeInode EXCEPT !.type = "DIR", !.nlink = 1], dnum, d_.di[dnum], name).d EXCEPT !.log = {}]
MCDisks == {WithDir(Image, ROOTINO, "d")}

a == <<"/", "a">>
d == <<"/", "d">>
e == <<"/", "d", "e">>
x == <<"/", "d", "x">>

Scripts == <<
  <<Create(x, {"WRONLY"}), Write(0, "w", 7)>>,
  <<Unlink(<<"/", "d", "..">>), Unlink(d)>>,
  <<Unlink(a), Create(a, {"RDWR"}), WriteTo(0, "w", 1, 0)>>,
  <<Open(a, {"RDWR"}), Unlink(a), ReadTo(0, 2, 1), Write(0, "w", 9)>>,
  <<Link(a, x), Unlink(x)>>,
  <<Mkdir(e), Chdir(e), Unlink(e), Open(<<"..">>, {}) >>,
  <<Chdir(d), Create(<<"x">>, {}), Close(0), Unlink(<<"x">>)>>,
  <<Mknod(a, 3), Mknod(x, NDEV), Open(x, {}), Link(d, a)>>
>>
Families == {
  <<Open(a, {"RDWR"}), Write(0, "w", 3), Fork(<<WriteTo(0, "w", 3, 2), Read(0, 4)>>), Write(0, "w", 2), Unlink(a)>>,
  <<Pipe, Fork(<<Close(0), Dup(1)>>), Close(1), Fstat(0),
    Open(a, {"WRONLY", "TRUNC"}), Open(<<"/">>, {"RDWR"})>>,
  <<Open(a, {}), Open(d, {}), Pipe, Close(0), Pipe, Open(a, {}), Create(a, {}),
    Open(<<"/", "a", "x">>, {})>>,
  <<Open(a, {}), Open(d, {}), Fstat(0), Fork(<<Close(0), Pipe>>), Pipe>>,
  <<Fork(<<Chdir(d)>>), Fork(<<>>), Fork(<<>>)>>
}

Tests == {
  truncate1, truncate2, truncate3, iputtest, exitiputtest, openiputtest, opentest(a), writetest,
  writebig(BSIZE, MAXFILE), createtest, dirtest, unlinkread, linktest, bigdir, bigwrite(3),
  bigwrite(4), bigfile, subdir, rmdot, dirfile(a), iref(a), sharedfd, fourfiles, concreate,
  linkunlink(a)
}

(* Pairs of scripts, but for those that have little in common and make up  *)
(* half of the states.                                                     *)
Pairs == {ij \in (1 .. Len(Scripts)) \X (1 .. Len(Scripts)) : ij[1] <= ij[2]} \
         {<<1, 3>>, <<3, 6>>, <<3, 7>>, <<3, 8>>, <<4, 8>>, <<5, 8>>, <<6, 8>>, <<7, 8>>}

MCPrograms ==
  {(p1 :> Scripts[ij[1]] @@ p2 :> Scripts[ij[2]] @@ p3 :> <<>>) : ij \in Pairs} \cup
  {(p1 :> s @@ p2 :> <<>> @@ p3 :> <<>>) : s \in Families \cup Tests}
=============================================================================
