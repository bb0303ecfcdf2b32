----------------------------- MODULE Usertests ------------------------------
(***************************************************************************)
(* The tests of user/usertests.c that are about files, as programs of      *)
(* system calls with the results they insist on: a test that calls exit(1) *)
(* on some result does not accept that result.  The fork() of a test holds *)
(* the rest of its child.  Loops run a few times and sizes are scaled to   *)
(* small blocks; the descriptors are those that fdalloc() returns.         *)
(***************************************************************************)
EXTENDS Integers, Sequences

CONSTANT MaxResult      \* a bound on the results of calls

(* System calls (user/user.h), with any result accepted.                   *)
AnyResult == -1 .. MaxResult
Open(path, mode) == [c |-> "open", path |-> path, mode |-> mode, want |-> AnyResult]
Create(path, mode) ==
  [c |-> "create", path |-> path, mode |-> mode, type |-> "FILE", major |-> 0, want |-> AnyResult]
Mkdir(path) ==
  [c |-> "create", path |-> path, mode |-> {}, type |-> "DIR", major |-> 0, want |-> AnyResult]
Mknod(path, n) ==
  [c |-> "create", path |-> path, mode |-> {}, type |-> "DEVICE", major |-> n, want |-> AnyResult]
Link(path, new) == [c |-> "link", path |-> path, new |-> new, want |-> AnyResult]
Unlink(path) == [c |-> "unlink", path |-> path, want |-> AnyResult]
Chdir(path) == [c |-> "chdir", path |-> path, want |-> AnyResult]
(* The buffer holds n units x, of which the first ok can be read.          *)
WriteTo(fd, x, n, ok) ==
  [c |-> "write", fd |-> fd, src |-> [i \in 1 .. n |-> <<x, i>>], n |-> n, ok |-> ok, want |-> AnyResult]
Write(fd, x, n) == WriteTo(fd, x, n, n)
ReadTo(fd, n, room) == [c |-> "read", fd |-> fd, n |-> n, room |-> room, want |-> AnyResult]
Read(fd, n) == ReadTo(fd, n, n)
Close(fd) == [c |-> "close", fd |-> fd, want |-> AnyResult]
Dup(fd) == [c |-> "dup", fd |-> fd, want |-> AnyResult]
Fstat(fd) == [c |-> "fstat", fd |-> fd, want |-> AnyResult]
Pipe == [c |-> "pipe", want |-> AnyResult]
Fork(child) == [c |-> "fork", child |-> child, want |-> AnyResult]
Wait == [c |-> "wait", want |-> AnyResult]

(* The results that a test accepts.                                        *)
Ok(call) == [call EXCEPT !.want = 0 .. MaxResult]
Fails(call) == [call EXCEPT !.want = {-1}]
Gives(call, n) == [call EXCEPT !.want = {n}]
All(call) == Gives(call, call.n)

RDWR == {"RDWR"}
WRONLY == {"WRONLY"}
TRUNC == {"WRONLY", "TRUNC"}

-----------------------------------------------------------------------------
(* Truncation seen by other descriptors.                                   *)
truncate1 ==
  LET f == <<"t">>
  IN  <<Unlink(f), Create(f, TRUNC), Write(0, "x", 4), Close(0),
        Open(f, {}), Gives(Read(0, 8), 4), Open(f, TRUNC),
        Open(f, {}), Gives(Read(2, 8), 0), Gives(Read(0, 8), 0),
        Write(1, "y", 6), Gives(Read(2, 8), 6), Gives(Read(0, 8), 2),
        Unlink(f), Close(1), Close(0), Close(2)>>

truncate2 ==
  LET f == <<"t">>
  IN  <<Unlink(f), Create(f, TRUNC), Write(0, "x", 4), Open(f, TRUNC),
        Fails(Write(0, "y", 1)), Unlink(f), Close(0), Close(1)>>

truncate3 ==
  LET f == <<"t">>
      child == <<Ok(Open(f, WRONLY)), All(Write(0, "c", 2)), Close(0),
                 Open(f, {}), Read(0, 8), Close(0)>>
  IN  <<Create(f, TRUNC), Close(0), Ok(Fork(child)),
        Ok(Create(f, TRUNC)), All(Write(0, "p", 1)), Close(0), Wait, Unlink(f)>>

(* Directories that are removed while a process is in them.                *)
iputdir == <<Ok(Mkdir(<<"i">>)), Ok(Chdir(<<"i">>)), Ok(Unlink(<<"..", "i">>))>>
iputtest == Append(iputdir, Ok(Chdir(<<"/">>)))
exitiputtest == <<Ok(Fork(iputdir)), Wait>>
openiputtest ==
  <<Ok(Mkdir(<<"o">>)), Ok(Fork(<<Fails(Open(<<"o">>, RDWR))>>)), Ok(Unlink(<<"o">>)), Wait>>

-----------------------------------------------------------------------------
(* Files and directories of one process; echo is a file of the disk.       *)
opentest(echo) == <<Ok(Open(echo, {})), Close(0), Fails(Open(<<"n">>, {}))>>

writetest ==
  LET f == <<"s">>
  IN  <<Ok(Create(f, RDWR)), All(Write(0, "a", 1)), All(Write(0, "b", 1)),
        All(Write(0, "a", 1)), All(Write(0, "b", 1)), Close(0),
        Ok(Open(f, {})), Gives(Read(0, 4), 4), Close(0), Ok(Unlink(f))>>

(* MAXFILE blocks of bsize, and one read more.                             *)
writebig(bsize, maxfile) ==
  LET f == <<"s">>
  IN  <<Ok(Create(f, RDWR))>> \o [i \in 1 .. maxfile |-> All(Write(0, "b", bsize))] \o
      <<Close(0), Ok(Open(f, {}))>> \o [i \in 1 .. maxfile |-> All(Read(0, bsize))] \o
      <<Gives(Read(0, bsize), 0), Close(0), Ok(Unlink(f))>>

createtest ==
  <<Create(<<"s">>, RDWR), Close(0), Create(<<"t">>, RDWR), Close(0),
    Unlink(<<"s">>), Unlink(<<"t">>)>>

dirtest ==
  <<Ok(Mkdir(<<"s">>)), Ok(Chdir(<<"s">>)), Ok(Chdir(<<"..">>)), Ok(Unlink(<<"s">>))>>

(* "can I unlink a file and still read it?"                                *)
unlinkread ==
  LET f == <<"u">>
  IN  <<Ok(Create(f, RDWR)), Write(0, "h", 3), Close(0), Ok(Open(f, RDWR)), Ok(Unlink(f)),
        Create(f, RDWR), Write(1, "y", 2), Close(1),
        Gives(Read(0, 8), 3), All(Write(0, "h", 5)), Close(0), Unlink(f)>>

linktest ==
  LET f1 == <<"l">>
      f2 == <<"m">>
  IN  <<Unlink(f1), Unlink(f2), Ok(Create(f1, RDWR)), All(Write(0, "h", 3)), Close(0),
        Ok(Link(f1, f2)), Unlink(f1), Fails(Open(f1, {})),
        Ok(Open(f2, {})), Gives(Read(0, 8), 3), Close(0), Fails(Link(f2, f2)),
        Unlink(f2), Fails(Link(f2, f1)), Fails(Link(<<".">>, f1))>>

(* A file with more names than fit in the first block of the directory.    *)
bigdir ==
  LET names == [i \in 1 .. 3 |-> <<<<"p">>, <<"q">>, <<"r">>>>[i]]
  IN  <<Unlink(<<"b">>), Ok(Create(<<"b">>, {})), Close(0)>> \o
      [i \in 1 .. 3 |-> Ok(Link(<<"b">>, names[i]))] \o <<Unlink(<<"b">>)>> \o
      [i \in 1 .. 3 |-> Ok(Unlink(names[i]))]

(* "test writes that are larger than the log": two of each size.           *)
bigwrite(n) ==
  LET f == <<"b">>
  IN  <<Unlink(f), Ok(Create(f, RDWR)), All(Write(0, "b", n)), All(Write(0, "b", n)),
        Close(0), Unlink(f)>>

bigfile ==
  LET f == <<"b">>
  IN  <<Unlink(f), Ok(Create(f, RDWR)), All(Write(0, "0", 4)), All(Write(0, "1", 4)), Close(0),
        Ok(Open(f, {}))>> \o [i \in 1 .. 4 |-> All(Read(0, 2))] \o
      <<Gives(Read(0, 2), 0), Close(0), Unlink(f)>>

-----------------------------------------------------------------------------
(* The paths of a tree: dd, dd/ff, dd/dd, dd/dd/ffff.                      *)
D(rest) == <<"D">> \o rest
subdir_make ==
  <<Unlink(<<"ff">>), Gives(Mkdir(D(<<>>)), 0), Ok(Create(D(<<"ff">>), RDWR)), Write(0, "f", 2),
    Close(0), Fails(Unlink(D(<<>>))), Gives(Mkdir(<<"/">> \o D(<<"D">>)), 0),
    Ok(Create(D(<<"D", "ff">>), RDWR)), Write(0, "F", 2), Close(0),
    Ok(Open(D(<<"D", "..", "ff">>), {})), Gives(Read(0, 8), 2), Close(0),
    Gives(Link(D(<<"D", "ff">>), D(<<"D", "ffff">>)), 0), Gives(Unlink(D(<<"D", "ff">>)), 0),
    Fails(Open(D(<<"D", "ff">>), {}))>>
subdir_walk ==
  <<Gives(Chdir(D(<<>>)), 0), Gives(Chdir(D(<<"..", "..", "D">>)), 0),
    Gives(Chdir(D(<<"..", "..", "..", "D">>)), 0), Gives(Chdir(<<".", "..">>), 0),
    Ok(Open(D(<<"D", "ffff">>), {})), Gives(Read(0, 8), 2), Close(0),
    Fails(Open(D(<<"D", "ff">>), {}))>>
subdir_refused ==
  <<Fails(Create(D(<<"ff", "ff">>), RDWR)), Fails(Create(D(<<"xx", "ff">>), RDWR)),
    Fails(Create(D(<<>>), {})), Fails(Open(D(<<>>), RDWR)), Fails(Open(D(<<>>), WRONLY)),
    Fails(Link(D(<<"ff", "ff">>), D(<<"D", "xx">>))),
    Fails(Link(D(<<"xx", "ff">>), D(<<"D", "xx">>))),
    Fails(Link(D(<<"ff">>), D(<<"D", "ffff">>))),
    Fails(Mkdir(D(<<"ff", "ff">>))), Fails(Mkdir(D(<<"xx", "ff">>))),
    Fails(Mkdir(D(<<"D", "ffff">>))), Fails(Unlink(D(<<"xx", "ff">>))),
    Fails(Unlink(D(<<"ff", "ff">>))), Fails(Chdir(D(<<"ff">>))), Fails(Chdir(D(<<"xx">>)))>>
subdir_remove ==
  <<Gives(Unlink(D(<<"D", "ffff">>)), 0), Gives(Unlink(D(<<"ff">>)), 0), Fails(Unlink(D(<<>>))),
    Ok(Unlink(D(<<"D">>))), Ok(Unlink(D(<<>>)))>>
subdir == subdir_make \o subdir_walk \o subdir_refused \o subdir_remove

rmdot ==
  LET dots == <<"s">>
  IN  <<Gives(Mkdir(dots), 0), Gives(Chdir(dots), 0), Fails(Unlink(<<".">>)),
        Fails(Unlink(<<"..">>)), Gives(Chdir(<<"/">>), 0), Fails(Unlink(dots \o <<".">>)),
        Fails(Unlink(dots \o <<"..">>)), Gives(Unlink(dots), 0)>>

dirfile(readme) ==
  LET f == <<"f">>
      xx == <<"f", "xx">>
  IN  <<Ok(Create(f, {})), Close(0), Fails(Chdir(f)), Fails(Open(xx, {})), Fails(Create(xx, {})),
        Fails(Mkdir(xx)), Fails(Unlink(xx)), Fails(Link(readme, xx)), Gives(Unlink(f), 0),
        Fails(Open(<<".">>, RDWR)), Open(<<".">>, {}), Fails(Write(0, "x", 1)), Close(0)>>

(* "test that iput() is called at the end of _namei(). also tests empty    *)
(* file names": a chain of directories and more lookups than slots.        *)
iref(readme) ==
  LET down == <<Gives(Mkdir(<<"i">>), 0), Gives(Chdir(<<"i">>), 0), Mkdir(<<>>),
                Link(readme, <<>>), Create(<<>>, {}), Create(<<"xx">>, {}), Close(0),
                Unlink(<<"xx">>)>>
      up == <<Chdir(<<"..">>), Unlink(<<"i">>)>>
  IN  down \o down \o up \o up \o <<Chdir(<<"/">>)>>

-----------------------------------------------------------------------------
(* Processes that use the same file or directory at the same time.         *)
sharedfd ==
  LET f == <<"s">>
      writes(x) == <<All(Write(0, x, 2)), All(Write(0, x, 2))>>
  IN  <<Unlink(f), Ok(Create(f, RDWR)), Fork(writes("c"))>> \o writes("p") \o
      <<Wait, Close(0), Ok(Open(f, {})), Gives(Read(0, 2), 2), Gives(Read(0, 2), 2),
        Gives(Read(0, 2), 2), Gives(Read(0, 2), 2), Gives(Read(0, 2), 0), Close(0), Unlink(f)>>

(* "four processes write different files at the same time, to test block   *)
(* allocation": two of them.                                               *)
fourfiles ==
  LET f == <<<<"p">>, <<"q">>>>
      child(i) == <<Ok(Create(f[i], RDWR)), All(Write(0, "0", 3)), All(Write(0, "0", 3))>>
      look(i) == <<Open(f[i], {}), Gives(Read(0, 8), 6), Gives(Read(0, 8), 0), Close(0), Unlink(f[i])>>
  IN  <<Unlink(f[1]), Ok(Fork(child(1))), Unlink(f[2]), Ok(Fork(child(2))), Wait, Wait>> \o
      look(1) \o look(2)

(* "test concurrent create/link/unlink of the same file": files 0 and 1.   *)
concreate ==
  LET C0 == <<"C">>
      C1 == <<"E">>
      new == <<Ok(Create(C0, RDWR)), Close(0)>>
      opens(f) == <<Open(f, {}), Close(0), Open(f, {}), Close(0)>>
      unlinks(f) == <<Unlink(f), Unlink(f)>>
  IN  <<Unlink(C0), Fork(new)>> \o new \o <<Wait, Unlink(C1), Fork(<<Link(C0, C1)>>), Link(C0, C1), Wait,
        Ok(Fork(opens(C0)))>> \o unlinks(C0) \o <<Wait, Ok(Fork(unlinks(C1)))>> \o opens(C1) \o <<Wait>>

(* "to look for deadlocks": each process makes, links and removes x, in    *)
(* the order of the generator's first values.                              *)
linkunlink(cat) ==
  LET x == <<"x">>
      make == <<Create(x, RDWR), Close(0)>>
      link == <<Link(cat, x)>>
      unlink == <<Unlink(x)>>
  IN  unlink \o <<Ok(Fork(make \o link \o link))>> \o make \o unlink \o link \o <<Wait>>
=============================================================================
