--------------------------------- MODULE Fs ---------------------------------
(***************************************************************************)
(* Processes that make file-system calls (kernel/sysfile.c, kernel/file.c  *)
(* and the inode layer of kernel/fs.c): path lookup, directories, the      *)
(* inode cache, the file table and the descriptors.  A step goes from one  *)
(* ilock() to the next, or is one critical section under icache.lock or    *)
(* ftable.lock; iput() takes up to three.  The log is an external layer    *)
(* here (module Log): op[p] tells whether p is between begin_op() and      *)
(* end_op(), wrote[p] which blocks its operation logged.                   *)
(***************************************************************************)
EXTENDS Disk

CONSTANTS Procs, Free,       \* processes; the holder of a free lock
          NINODE, NFILE, NOFILE, MAXOPBLOCKS,   \* kernel/param.h
          Disks,             \* the disks that the system may start from
          Programs           \* functions from processes to sequences of calls

Slots == 1 .. NINODE
Files == 1 .. NFILE
Fds == 0 .. NOFILE - 1

VARIABLES
  fs,        \* the disk, as bread() returns it
  icache,    \* icache[s]: [inum, ref, valid, lock, ino]
  ftable,    \* ftable[f]: [ref, type, readable, writable, ip, off, major, pipe]
  pipes,     \* pipes[i]: the open ends of pipe i, {} for a free page
  ofile, cwd,   \* ofile[p][fd]: a file or 0; cwd[p]: a slot or 0
  loc,       \* loc[p]: the locals of p's call
  op, wrote,
  todo,      \* todo[p]: calls that p has yet to make
  strays,    \* inodes linked into a removed directory, a history variable
  raced,     \* inodes allocated while iput() was freeing them, a history variable
  written,   \* what the calls have written to each file, a history variable
  unmet      \* calls that returned what their program does not accept, a history variable

vars == <<fs, icache, ftable, pipes, ofile, cwd, loc, op, wrote, todo, strays, raced, written, unmet>>

(* pc, the continuation k of namex() or create(), the pointers ip, dp and  *)
(* f, the rest of the path and the last name, the puts that iput() still   *)
(* has to do and where it is, and the call itself.                         *)
NoCall == [c |-> "none", want |-> {-1, 0}]
Idle == [pc |-> "idle", k |-> "", par |-> FALSE, path |-> <<>>, name |-> "", ip |-> 0,
         dp |-> 0, old |-> 0, f |-> 0, puts |-> <<>>, put |-> "test", call |-> NoCall]

NoFile == [ref |-> 0, type |-> "NONE", readable |-> FALSE, writable |-> FALSE, ip |-> 0,
           off |-> 0, major |-> 0, pipe |-> 0]

NoSlot == [inum |-> 0, ref |-> 0, valid |-> FALSE, lock |-> Free, ino |-> FreeInode]

(* The processes start in the root, as after userinit() and fork(); one    *)
(* whose program is empty waits to be the child of a fork().               *)
Init ==
  /\ fs \in Disks
  /\ ftable = [f \in Files |-> NoFile]
  /\ pipes = [i \in Files |-> {}]
  /\ ofile = [p \in Procs |-> [fd \in Fds |-> 0]]
  /\ todo \in Programs
  /\ cwd = [p \in Procs |-> IF todo[p] = <<>> THEN 0 ELSE 1]
  /\ icache = [s \in Slots |-> IF s # 1 THEN NoSlot ELSE
       [NoSlot EXCEPT !.inum = ROOTINO,
                      !.ref = Cardinality({p \in Procs : cwd[p] = 1})]]
  /\ loc = [p \in Procs |-> [Idle EXCEPT !.pc = IF todo[p] = <<>> THEN "unborn" ELSE @]]
  /\ op = [p \in Procs |-> 0] /\ wrote = [p \in Procs |-> {}]
  /\ strays = {} /\ raced = {} /\ unmet = {}
  /\ written = [i \in Inums |-> IF fs.di[i].type = "FILE" THEN Contents(fs, fs.di[i]) ELSE <<>>]

-----------------------------------------------------------------------------
(* p is at label l, with no iput() pending, and the kernel is up.          *)
At(p, l) == loc[p].pc = l /\ loc[p].puts = <<>> /\ fs.panic = ""
Go(p, l, puts) == loc' = [loc EXCEPT ![p].pc = l, ![p].puts = puts]

(* What a step does to the disk and to the inode cache.                    *)
Does(p, d, c) ==
  /\ fs' = [d EXCEPT !.log = {},
                     !.panic = IF d.log # {} /\ \A q \in Procs : op[q] = 0
                               THEN "log_write outside of trans" ELSE @]
  /\ wrote' = [wrote EXCEPT ![p] = @ \cup d.log]
  /\ icache' = c

(* The inode of slot s as ilock() makes it available.                      *)
Ino(s) == IF icache[s].valid THEN icache[s].ino ELSE fs.di[icache[s].inum]
Lockable(s) == icache[s].ref >= 1 /\ icache[s].lock = Free /\ Ino(s).type # "NONE"

(* iunlock() of an inode that p locked in an earlier step.                 *)
iunlock(d, s, p) ==
  IF icache[s].lock = p /\ icache[s].ref >= 1 THEN d ELSE Panics(d, "iunlock")

(* The cache with slot s locked by h (Free: unlocked again), holding ip.   *)
Hold(c, s, ip, h) == [c EXCEPT ![s].valid = TRUE, ![s].ino = ip, ![s].lock = h]

(* The slot of inode inum, a free one if it has none; s = 0 is a panic.    *)
iget(c, inum) ==
  LET hit == {s \in Slots : c[s].ref > 0 /\ c[s].inum = inum}
      empty == {s \in Slots : c[s].ref = 0}
  IN  CASE hit # {} -> LET s == Min(hit) IN [s |-> s, c |-> [c EXCEPT ![s].ref = @ + 1]]
        [] hit = {} /\ empty # {} ->
             LET s == Min(empty)
             IN  [s |-> s, c |-> [c EXCEPT ![s] =
                                    [NoSlot EXCEPT !.inum = inum, !.ref = 1]]]
        [] OTHER -> [s |-> 0, c |-> c]

Got(d, g) == IF g.s = 0 THEN Panics(d, "iget: no inodes") ELSE d

(* Variant: no reference is taken.                                         *)
idup_not(c, s) == c

idup(c, s) == [c EXCEPT ![s].ref = @ + 1]

-----------------------------------------------------------------------------
(* iput() of the first slot in puts: the test under icache.lock, ...       *)
Putting(p, at) == loc[p].puts # <<>> /\ loc[p].put = at /\ fs.panic = ""

LastPut(s) == icache[s].ref = 1 /\ icache[s].valid /\ icache[s].ino.nlink = 0

iput_test(p) ==
  /\ Putting(p, "test")
  /\ LET s == Head(loc[p].puts)
     IN  \/ /\ LastPut(s)
            /\ Does(p, IF icache[s].lock = Free THEN fs ELSE Panics(fs, "sched locks"),
                    [icache EXCEPT ![s].lock = p])
            /\ loc' = [loc EXCEPT ![p].put = "free"]
         \/ /\ ~LastPut(s)
            /\ Does(p, fs, [icache EXCEPT ![s].ref = @ - 1])
            /\ loc' = [loc EXCEPT ![p].puts = Tail(@)]
  /\ UNCHANGED <<ftable, pipes, ofile, cwd, op, todo, strays, raced, written, unmet>>

(* Variant: the reference is dropped here too.                             *)
FreedDropped(c, s) ==
  [c EXCEPT ![s].valid = FALSE, ![s].lock = Free, ![s].ino = FreeInode, ![s].ref = @ - 1]

(* ip->valid = 0 and releasesleep(), after the inode was freed.            *)
Freed(c, s) == [c EXCEPT ![s].valid = FALSE, ![s].lock = Free, ![s].ino = FreeInode]

(* ... the inode is truncated and freed, with the lock held, ...           *)
iput_free(p) ==
  /\ Putting(p, "free")
  /\ LET s == Head(loc[p].puts)
         t == itrunc(fs, icache[s].inum, icache[s].ino)
         ip == [t.ip EXCEPT !.type = "NONE"]
     IN  /\ Does(p, iupdate(t.d, icache[s].inum, ip),
                 Freed(icache, s))
         /\ strays' = strays \ {icache[s].inum} /\ raced' = raced \ {icache[s].inum}
         /\ written' = [written EXCEPT ![icache[s].inum] = <<>>]
  /\ loc' = [loc EXCEPT ![p].put = "drop"]
  /\ UNCHANGED <<ftable, pipes, ofile, cwd, op, todo, unmet>>

(* ... and the reference is dropped.                                       *)
iput_drop(p) ==
  /\ Putting(p, "drop")
  /\ Does(p, fs, [icache EXCEPT ![Head(loc[p].puts)].ref = @ - 1])
  /\ loc' = [loc EXCEPT ![p].put = "test", ![p].puts = Tail(@)]
  /\ UNCHANGED <<ftable, pipes, ofile, cwd, op, todo, strays, raced, written, unmet>>

iput(p) == iput_test(p) \/ iput_free(p) \/ iput_drop(p)

(* The call that p makes next; argfd(): its file, 0 for none; fileread()   *)
(* and filestat() lock the inode of a file.                                *)
Call(p) == Head(todo[p])
Arg(p) == IF Call(p).fd \in Fds THEN ofile[p][Call(p).fd] ELSE 0
Reads(p) == Call(p).c = "read" /\ Arg(p) # 0 /\ ftable[Arg(p)].readable
InodeCall(p) ==
  \/ Reads(p) /\ ftable[Arg(p)].type = "INODE"
  \/ Call(p).c = "fstat" /\ Arg(p) # 0 /\ ftable[Arg(p)].type \in {"INODE", "DEVICE"}

(* The slot that p is about to lock, 0 if it is not.                       *)
Target(p) ==
  CASE loc[p].pc \in {"create_dp", "link_dp", "unlink_dp"} -> loc[p].dp
    [] loc[p].pc \in {"open_ip", "create_found", "create_new", "link_ip", "link_bad",
                      "unlink_ip", "chdir_ip"} -> loc[p].ip
    [] loc[p].pc = "namex" /\ loc[p].path # <<>> -> loc[p].ip
    [] loc[p].pc = "write" -> ftable[loc[p].f].ip
    [] loc[p].pc = "idle" /\ todo[p] # <<>> /\ InodeCall(p) -> ftable[Arg(p)].ip
    [] OTHER -> 0

(* ilock() of an inode that has no reference, or no type on the disk.      *)
ilock_panic(p) ==
  /\ At(p, loc[p].pc) /\ Target(p) # 0
  /\ LET s == Target(p)
     IN  /\ ~Lockable(s) /\ (icache[s].ref >= 1 => icache[s].lock = Free)
         /\ fs' = Panics(fs, IF icache[s].ref < 1 THEN "ilock" ELSE "ilock: no type")
  /\ UNCHANGED <<icache, ftable, pipes, ofile, cwd, loc, op, wrote, todo, strays, raced, written, unmet>>

(* The call of p returns v to its program.                                 *)
Returns(call, v) == unmet' = IF v \in call.want THEN unmet ELSE unmet \cup {call}

(* end_op() and the return of a call that succeeded, or that failed.       *)
end_op(p) ==
  /\ At(p, "ok") \/ At(p, "end")
  /\ Returns(loc[p].call, IF loc[p].pc = "ok" THEN 0 ELSE -1)
  /\ op' = [op EXCEPT ![p] = @ - 1]
  /\ wrote' = [wrote EXCEPT ![p] = {}]
  /\ loc' = [loc EXCEPT ![p] = Idle]
  /\ UNCHANGED <<fs, icache, ftable, pipes, ofile, cwd, todo, strays, raced, written>>

-----------------------------------------------------------------------------
(* namex(): where the walk starts, ...                                     *)
Start(p, c, path) ==
  IF path # <<>> /\ Head(path) = "/"
  THEN [g |-> iget(c, ROOTINO), rest |-> Tail(path)]
  ELSE [g |-> [s |-> cwd[p], c |-> idup(c, cwd[p])], rest |-> path]

Walks(l, st, par, k) ==
  [l EXCEPT !.pc = "namex", !.k = k, !.par = par, !.path = st.rest, !.ip = st.g.s]

(* ... where the caller goes on when it returns 0, ...                     *)
NotFound(p) == IF loc[p].k = "link_dp" THEN "link_bad" ELSE "end"

(* ... the end of the path, and one element of it: the directory is        *)
(* unlocked and put only after the next inode is referenced.               *)
namex(p) ==
  LET l == loc[p]
      s == l.ip
      ip == Ino(s)
      look == dirlookup(fs, ip, Head(l.path))
      inum == look.inum
      g == iget(Hold(icache, s, ip, Free), inum)
      ends == [l EXCEPT !.pc = NotFound(p), !.puts = <<s>>, !.ip = l.old, !.path = <<>>]
  IN  /\ At(p, "namex")
      /\ \/ /\ l.path = <<>>
            /\ loc' = [loc EXCEPT ![p] = IF l.par THEN ends ELSE [l EXCEPT !.pc = l.k]]
            /\ UNCHANGED <<fs, icache, wrote>>
         \/ /\ l.path # <<>> /\ Lockable(s) /\ ip.type # "DIR"
            /\ loc' = [loc EXCEPT ![p] = ends]
            /\ Does(p, fs, Hold(icache, s, ip, Free))
         \/ /\ l.path # <<>> /\ Lockable(s) /\ ip.type = "DIR"
            /\ l.par /\ Len(l.path) = 1
            /\ loc' = [loc EXCEPT ![p] = [l EXCEPT !.pc = l.k, !.dp = s, !.ip = l.old,
                                                   !.path = <<>>, !.name = Head(l.path)]]
            /\ Does(p, fs, Hold(icache, s, ip, Free))
         \/ /\ l.path # <<>> /\ Lockable(s) /\ ip.type = "DIR"
            /\ ~(l.par /\ Len(l.path) = 1) /\ inum = 0
            /\ loc' = [loc EXCEPT ![p] = ends]
            /\ Does(p, look.d, Hold(icache, s, ip, Free))
         \/ /\ l.path # <<>> /\ Lockable(s) /\ ip.type = "DIR"
            /\ ~(l.par /\ Len(l.path) = 1) /\ inum # 0
            /\ loc' = [loc EXCEPT ![p].ip = g.s, ![p].path = Tail(@), ![p].puts = <<s>>]
            /\ Does(p, Got(look.d, g), g.c)
      /\ UNCHANGED <<ftable, pipes, ofile, cwd, op, todo, strays, raced, written, unmet>>

-----------------------------------------------------------------------------
(* create(): lock the parent and look for the name; ...                    *)
create_dp(p) ==
  LET l == loc[p]
      dp == Ino(l.dp)
      look == dirlookup(fs, dp, l.name)
      inum == look.inum
      new == ialloc(look.d, l.call.type)
      found == iget(Hold(icache, l.dp, dp, Free), inum)
      made == iget(Hold(icache, l.dp, dp, p), new.inum)
  IN  /\ At(p, "create_dp") /\ Lockable(l.dp)
      /\ \/ /\ inum # 0
            /\ loc' = [loc EXCEPT ![p].pc = "create_found", ![p].ip = found.s,
                                  ![p].puts = <<l.dp>>, ![p].dp = 0]
            /\ Does(p, Got(look.d, found), found.c)
            /\ UNCHANGED raced
         \/ /\ inum = 0
            /\ loc' = [loc EXCEPT ![p].pc = "create_new", ![p].ip = made.s]
            /\ Does(p, Got(new.d, made), made.c)
            /\ raced' = IF made.s # 0 /\ made.c[made.s].ref > 1 THEN raced \cup {new.inum} ELSE raced
      /\ UNCHANGED <<ftable, pipes, ofile, cwd, op, todo, strays, written, unmet>>

(* ... open() may take what it finds, if it is no directory; ...           *)
create_found(p) ==
  LET l == loc[p]
      ip == Ino(l.ip)
  IN  /\ At(p, "create_found") /\ Lockable(l.ip)
      /\ \/ /\ l.call.type = "FILE" /\ ip.type \in {"FILE", "DEVICE"}
            /\ Go(p, "open_have", <<>>)
            /\ Does(p, fs, Hold(icache, l.ip, ip, p))
         \/ /\ ~(l.call.type = "FILE" /\ ip.type \in {"FILE", "DEVICE"})
            /\ Go(p, "end", <<l.ip>>)
            /\ Does(p, fs, Hold(icache, l.ip, ip, Free))
      /\ UNCHANGED <<ftable, pipes, ofile, cwd, op, todo, strays, raced, written, unmet>>

(* The parent's link count is raised for "..".                             *)
DotDot(dp) == [dp EXCEPT !.nlink = @ + 1]

(* The inode ip is written, gets its dots, and is entered in its parent.   *)
Entered(e, dnum, dp, name, inum) ==
  LET f == Must(dirlink(e.d, dnum, dp, name, inum), "create: dirlink")
  IN  [d |-> f.d, ip |-> e.ip, dp |-> f.ip]

Created(d, inum, ip, dnum, dp, name) ==
  IF ip.type # "DIR"
  THEN Entered([d |-> iupdate(d, inum, ip), ip |-> ip], dnum, dp, name, inum)
  ELSE Entered(WithDots(iupdate(iupdate(d, inum, ip), dnum, DotDot(dp)), dnum, inum, ip),
               dnum, DotDot(dp), name, inum)

(* ... otherwise the new inode is filled in and entered in the parent,     *)
(* which stays locked until then.                                          *)
create_new(p) ==
  LET l == loc[p]
      inum == icache[l.ip].inum
      dnum == icache[l.dp].inum
      ip == [Ino(l.ip) EXCEPT !.nlink = 1, !.major = l.call.major]
      made == Created(fs, inum, ip, dnum, icache[l.dp].ino, l.name)
  IN  /\ At(p, "create_new") /\ Lockable(l.ip)
      /\ Go(p, IF l.call.type = "FILE" THEN "open_have" ELSE "create_fin", <<l.dp>>)
      /\ Does(p, iunlock(made.d, l.dp, p), Hold(Hold(icache, l.dp, made.dp, Free), l.ip, made.ip, p))
      /\ strays' = IF icache[l.dp].ino.nlink = 0 \/ dnum \in strays
                   THEN strays \cup {inum, dnum} ELSE strays
      /\ UNCHANGED <<ftable, pipes, ofile, cwd, op, todo, raced, written, unmet>>

(* sys_mkdir() and sys_mknod(): iunlockput(ip), end_op().                  *)
create_fin(p) ==
  /\ At(p, "create_fin")
  /\ Go(p, "ok", <<loc[p].ip>>)
  /\ Does(p, iunlock(fs, loc[p].ip, p), [icache EXCEPT ![loc[p].ip].lock = Free])
  /\ UNCHANGED <<ftable, pipes, ofile, cwd, op, todo, strays, raced, written, unmet>>

-----------------------------------------------------------------------------
(* The file table.  fileclose(): the entry is freed under ftable.lock and  *)
(* a copy of it is closed: the inode in puts, or an end of a pipe.         *)
FileAlloc == {f \in Files : ftable[f].ref = 0}
FdAlloc(p) == {fd \in Fds : ofile[p][fd] = 0}

(* Variant: the type of a free entry is left as it was.                    *)
FreeEntryTyped(e) == [e EXCEPT !.ref = 0]

FreeEntry(e) == [e EXCEPT !.ref = 0, !.type = "NONE"]

fileclose(t, ps, f) ==
  LET e == t[f]
      why == IF e.ref < 1 THEN "fileclose" ELSE ""
  IN  IF e.ref > 1 THEN [t |-> [t EXCEPT ![f].ref = @ - 1], ps |-> ps, puts |-> <<>>, why |-> why]
      ELSE [t |-> [t EXCEPT ![f] = FreeEntry(@)], why |-> why,
            ps |-> IF e.type # "PIPE" THEN ps
                   ELSE [ps EXCEPT ![e.pipe] = @ \ {IF e.writable THEN "w" ELSE "r"}],
            puts |-> IF e.type \in {"INODE", "DEVICE"} THEN <<e.ip>> ELSE <<>>]

NoDevice(ip) == ip.type = "DEVICE" /\ ip.major \notin 0 .. NDEV - 1

(* sys_open() with ip locked: the file and the descriptor, or neither.     *)
Opens(p, d, ip) ==
  LET l == loc[p]
      s == l.ip
      f == Min(FileAlloc)
      bad == fileclose([ftable EXCEPT ![f].ref = 1], pipes, f)
      t == itrunc(d, icache[s].inum, ip)
      trunc == "TRUNC" \in l.call.mode /\ ip.type = "FILE"
  IN  \/ /\ NoDevice(ip) \/ FileAlloc = {}
         /\ Go(p, "end", <<s>>)
         /\ Does(p, d, Hold(icache, s, ip, Free))
         /\ UNCHANGED <<ftable, pipes, ofile, written>>
      \/ /\ ~NoDevice(ip) /\ FileAlloc # {} /\ FdAlloc(p) = {}
         /\ Go(p, "end", bad.puts \o <<s>>)
         /\ ftable' = bad.t /\ pipes' = bad.ps
         /\ Does(p, Panics(d, bad.why), Hold(icache, s, ip, Free))
         /\ UNCHANGED <<ofile, written>>
      \/ /\ ~NoDevice(ip) /\ FileAlloc # {} /\ FdAlloc(p) # {}
         /\ ofile' = [ofile EXCEPT ![p][Min(FdAlloc(p))] = f]
         /\ ftable' = [ftable EXCEPT ![f] =
              [@ EXCEPT !.ref = 1, !.ip = s,
                        !.type = IF ip.type = "DEVICE" THEN "DEVICE" ELSE "INODE",
                        !.off = IF ip.type = "DEVICE" THEN @ ELSE 0,
                        !.major = IF ip.type = "DEVICE" THEN ip.major ELSE @,
                        !.readable = "WRONLY" \notin l.call.mode,
                        !.writable = l.call.mode \cap {"WRONLY", "RDWR"} # {}]]
         /\ Go(p, "ok", <<>>)
         /\ Does(p, IF trunc THEN t.d ELSE d,
                 Hold(icache, s, IF trunc THEN t.ip ELSE ip, Free))
         /\ written' = IF trunc THEN [written EXCEPT ![icache[s].inum] = <<>>] ELSE written
         /\ UNCHANGED pipes

(* Variant: a directory may be opened in every mode.                       *)
RefusedNever(ip, mode) == FALSE

Refused(ip, mode) == ip.type = "DIR" /\ mode # {}

(* After namei(), the lock and the test for directories; after create(),   *)
(* p holds the lock already.                                               *)
open_ip(p) ==
  LET s == loc[p].ip
      refuse == Refused(Ino(s), loc[p].call.mode)
  IN  /\ At(p, "open_ip") /\ Lockable(s)
      /\ \/ /\ refuse
            /\ Go(p, "end", <<s>>)
            /\ Does(p, fs, Hold(icache, s, Ino(s), Free))
            /\ UNCHANGED <<ftable, pipes, ofile, written>>
         \/ ~refuse /\ Opens(p, fs, Ino(s))
      /\ UNCHANGED <<cwd, op, todo, strays, raced, unmet>>

open_have(p) ==
  /\ At(p, "open_have")
  /\ Opens(p, iunlock(fs, loc[p].ip, p), icache[loc[p].ip].ino)
  /\ UNCHANGED <<cwd, op, todo, strays, raced, unmet>>

-----------------------------------------------------------------------------
(* sys_link(): the count of the old inode goes up first, ...               *)
link_ip(p) ==
  LET s == loc[p].ip
      ip == [Ino(s) EXCEPT !.nlink = @ + 1]
      st == Start(p, Hold(icache, s, ip, Free), loc[p].call.new)
  IN  /\ At(p, "link_ip") /\ Lockable(s)
      /\ \/ /\ ip.type = "DIR"
            /\ Go(p, "end", <<s>>)
            /\ Does(p, fs, Hold(icache, s, Ino(s), Free))
         \/ /\ ip.type # "DIR"
            /\ loc' = [loc EXCEPT ![p] = [Walks(@, st, TRUE, "link_dp") EXCEPT !.old = s]]
            /\ Does(p, Got(iupdate(fs, icache[s].inum, ip), st.g), st.g.c)
      /\ UNCHANGED <<ftable, pipes, ofile, cwd, op, todo, strays, raced, written, unmet>>

(* ... then the entry is made, ...                                         *)
link_dp(p) ==
  LET l == loc[p]
      dp == Ino(l.dp)
      dnum == icache[l.dp].inum
      inum == icache[l.ip].inum
      look == dirlookup(fs, dp, l.name)
      there == look.inum
      g == iget(Hold(icache, l.dp, dp, p), there)
      e == dirlink(fs, dnum, dp, l.name, inum)
  IN  /\ At(p, "link_dp") /\ Lockable(l.dp)
      /\ \/ /\ there # 0
            /\ Go(p, "link_there", <<g.s>>)
            /\ Does(p, Got(look.d, g), g.c)
            /\ UNCHANGED strays
         \/ /\ there = 0
            /\ Go(p, "ok", <<l.dp, l.ip>>)
            /\ Does(p, e.d, Hold(icache, l.dp, e.ip, Free))
            /\ strays' = IF dp.nlink = 0 \/ dnum \in strays THEN strays \cup {inum} ELSE strays
      /\ UNCHANGED <<ftable, pipes, ofile, cwd, op, todo, raced, written, unmet>>

(* ... (or dirlink() found the name and puts it, the parent still locked) *)
link_there(p) ==
  /\ At(p, "link_there")
  /\ Go(p, "link_bad", <<loc[p].dp>>)
  /\ Does(p, iunlock(fs, loc[p].dp, p), [icache EXCEPT ![loc[p].dp].lock = Free])
  /\ UNCHANGED <<ftable, pipes, ofile, cwd, op, todo, strays, raced, written, unmet>>

(* Variant: the count is not taken back.                                   *)
UnlinkedNot(ip) == ip

(* Variant: one name less is no name left.                                 *)
UnlinkedAll(ip) == [ip EXCEPT !.nlink = 0]

Unlinked(ip) == [ip EXCEPT !.nlink = @ - 1]

(* ... or the count is taken back.                                         *)
link_bad(p) ==
  LET s == loc[p].ip
      ip == Unlinked(Ino(s))
  IN  /\ At(p, "link_bad") /\ Lockable(s)
      /\ Go(p, "end", <<s>>)
      /\ Does(p, iupdate(fs, icache[s].inum, ip), Hold(icache, s, ip, Free))
      /\ UNCHANGED <<ftable, pipes, ofile, cwd, op, todo, strays, raced, written, unmet>>

(* Variant: ".." can be removed.                                           *)
DotOnly == {"."}

(* "Cannot unlink "." or ".."."                                            *)
Dots == {".", ".."}

(* sys_unlink(): lock the parent and look for the name, ...                *)
unlink_dp(p) ==
  LET l == loc[p]
      dp == Ino(l.dp)
      look == IF l.name \in Dots THEN [d |-> fs, inum |-> 0] ELSE dirlookup(fs, dp, l.name)
      inum == look.inum
      g == iget(Hold(icache, l.dp, dp, p), inum)
  IN  /\ At(p, "unlink_dp") /\ Lockable(l.dp)
      /\ \/ /\ inum = 0
            /\ Go(p, "end", <<l.dp>>)
            /\ Does(p, look.d, Hold(icache, l.dp, dp, Free))
         \/ /\ inum # 0
            /\ loc' = [loc EXCEPT ![p].pc = "unlink_ip", ![p].ip = g.s]
            /\ Does(p, Got(look.d, g), g.c)
      /\ UNCHANGED <<ftable, pipes, ofile, cwd, op, todo, strays, raced, written, unmet>>

(* ... lock the inode, clear the entry, give up the parent, ...            *)
unlink_ip(p) ==
  LET l == loc[p]
      ip == Ino(l.ip)
      dp == icache[l.dp].ino
      dnum == icache[l.dp].inum
      few == IF ip.nlink < 1 THEN Panics(fs, "unlink: nlink < 1") ELSE fs
      empty == IF ip.type = "DIR" THEN isdirempty(few, ip) ELSE [d |-> few, yes |-> TRUE]
      e == direrase(empty.d, dnum, dp, l.name)
      jp == IF ip.type = "DIR" THEN [e.ip EXCEPT !.nlink = @ - 1] ELSE e.ip
  IN  /\ At(p, "unlink_ip") /\ Lockable(l.ip)
      /\ \/ /\ ~empty.yes
            /\ Go(p, "unlink_bad", <<l.ip>>)
            /\ Does(p, empty.d, Hold(icache, l.ip, ip, Free))
         \/ /\ empty.yes
            /\ Go(p, "unlink_fin", <<l.dp>>)
            /\ Does(p, iunlock(IF ip.type = "DIR" THEN iupdate(e.d, dnum, jp) ELSE e.d, l.dp, p),
                    Hold(Hold(icache, l.dp, jp, Free), l.ip, ip, p))
      /\ UNCHANGED <<ftable, pipes, ofile, cwd, op, todo, strays, raced, written, unmet>>

(* ... (or give up the parent when the directory is not empty) ...         *)
unlink_bad(p) ==
  /\ At(p, "unlink_bad")
  /\ Go(p, "end", <<loc[p].dp>>)
  /\ Does(p, iunlock(fs, loc[p].dp, p), [icache EXCEPT ![loc[p].dp].lock = Free])
  /\ UNCHANGED <<ftable, pipes, ofile, cwd, op, todo, strays, raced, written, unmet>>

(* ... and lower the count of the inode.                                   *)
unlink_fin(p) ==
  LET s == loc[p].ip
      ip == Unlinked(icache[s].ino)
  IN  /\ At(p, "unlink_fin")
      /\ Go(p, "ok", <<s>>)
      /\ Does(p, iunlock(iupdate(fs, icache[s].inum, ip), s, p), Hold(icache, s, ip, Free))
      /\ UNCHANGED <<ftable, pipes, ofile, cwd, op, todo, strays, raced, written, unmet>>

(* sys_chdir(): the old directory is put, then end_op(), then p->cwd.      *)
chdir_ip(p) ==
  LET s == loc[p].ip
      dir == Ino(s).type = "DIR"
  IN  /\ At(p, "chdir_ip") /\ Lockable(s)
      /\ Go(p, IF dir THEN "chdir_fin" ELSE "end", <<IF dir THEN cwd[p] ELSE s>>)
      /\ Does(p, fs, Hold(icache, s, Ino(s), Free))
      /\ UNCHANGED <<ftable, pipes, ofile, cwd, op, todo, strays, raced, written, unmet>>

chdir_fin(p) ==
  /\ At(p, "chdir_fin")
  /\ cwd' = [cwd EXCEPT ![p] = loc[p].ip]
  /\ op' = [op EXCEPT ![p] = @ - 1]
  /\ wrote' = [wrote EXCEPT ![p] = {}]
  /\ Returns(loc[p].call, 0)
  /\ loc' = [loc EXCEPT ![p] = Idle]
  /\ UNCHANGED <<fs, icache, ftable, pipes, ofile, todo, strays, raced, written>>

-----------------------------------------------------------------------------
(* The next call of p's program.                                           *)
Calls(p, c) == At(p, "idle") /\ todo[p] # <<>> /\ Head(todo[p]).c = c
Taken(p) == todo' = [todo EXCEPT ![p] = Tail(@)]
Begins(p) == op' = [op EXCEPT ![p] = @ + 1]

(* The calls that name a path: begin_op() and the start of namex().        *)
First == [open |-> [par |-> FALSE, k |-> "open_ip"], create |-> [par |-> TRUE, k |-> "create_dp"],
          link |-> [par |-> FALSE, k |-> "link_ip"], unlink |-> [par |-> TRUE, k |-> "unlink_dp"],
          chdir |-> [par |-> FALSE, k |-> "chdir_ip"]]

path_call(p) ==
  /\ At(p, "idle") /\ todo[p] # <<>> /\ Call(p).c \in DOMAIN First
  /\ LET st == Start(p, icache, Call(p).path)
         first == First[Call(p).c]
     IN  /\ Does(p, Got(fs, st.g), st.g.c)
         /\ loc' = [loc EXCEPT ![p] =
                      [Walks(@, st, first.par, first.k) EXCEPT !.call = Call(p)]]
  /\ Taken(p) /\ Begins(p)
  /\ UNCHANGED <<ftable, pipes, ofile, cwd, strays, raced, written, unmet>>

(* fileread(): an inode under its lock.  Pipes and devices are other       *)
(* modules' (a program that reads from one accepts any result), and there  *)
(* is no other type of file.                                               *)
OtherFile(f, why) ==
  IF f = 0 \/ ftable[f].type \in {"PIPE", "DEVICE"} THEN fs ELSE Panics(fs, why)

sys_read(p) ==
  LET f == Arg(p)
      s == ftable[f].ip
      n == readi(Ino(s), ftable[f].off, Call(p).n, Call(p).room)
  IN  /\ Calls(p, "read") /\ Taken(p)
      /\ \/ /\ ~InodeCall(p) /\ Returns(Call(p), -1)
            /\ fs' = IF Reads(p) THEN OtherFile(f, "fileread") ELSE fs
            /\ UNCHANGED <<icache, wrote, ftable>>
         \/ /\ InodeCall(p) /\ Lockable(s)
            /\ Does(p, fs, Hold(icache, s, Ino(s), Free))
            /\ ftable' = [ftable EXCEPT ![f].off = @ + n]
            /\ Returns(Call(p), n)
      /\ UNCHANGED <<pipes, ofile, cwd, loc, op, strays, raced, written>>

(* filestat(), of an inode or a device.                                    *)
sys_fstat(p) ==
  LET s == ftable[Arg(p)].ip
  IN  /\ Calls(p, "fstat") /\ Taken(p)
      /\ \/ ~InodeCall(p) /\ UNCHANGED <<fs, icache, wrote>> /\ Returns(Call(p), -1)
         \/ /\ InodeCall(p) /\ Lockable(s) /\ Does(p, fs, Hold(icache, s, Ino(s), Free))
            /\ Returns(Call(p), 0)
      /\ UNCHANGED <<ftable, pipes, ofile, cwd, loc, op, strays, raced, written>>

(* filewrite(): as many blocks at a time as an operation may log, ...      *)
sys_write(p) ==
  LET f == Arg(p)
      writes == f # 0 /\ ftable[f].writable
      inode == writes /\ ftable[f].type = "INODE"
      loops == inode /\ Call(p).src # <<>>
  IN  /\ Calls(p, "write") /\ Taken(p)
      /\ \/ /\ ~loops /\ UNCHANGED <<loc, op>> /\ Returns(Call(p), IF inode THEN 0 ELSE -1)
            /\ fs' = IF writes /\ ~inode THEN OtherFile(f, "filewrite") ELSE fs
         \/ /\ loops
            /\ loc' = [loc EXCEPT ![p].pc = "write", ![p].f = f, ![p].call = Call(p)]
            /\ Begins(p) /\ UNCHANGED <<fs, unmet>>
      /\ UNCHANGED <<icache, ftable, pipes, ofile, cwd, wrote, strays, raced, written>>

(* Variant: a chunk as large as the operation.                             *)
LargeChunk == (MAXOPBLOCKS - 1) * BSIZE

Chunk == ((MAXOPBLOCKS - 1 - 1 - 2) \div 2) * BSIZE

(* What a write of src at off, of which ok units can be read, leaves of    *)
(* the contents old: a chunk that fails does not make the file longer.     *)
Overwritten(old, src, off, ok) ==
  [u \in 1 .. Max({Len(old), off + Copied(off, Len(src), ok)}) |->
     IF u > off /\ u <= off + Min({Len(src), ok}) THEN src[u - off] ELSE old[u]]

write_chunk(p) ==
  LET l == loc[p]
      s == ftable[l.f].ip
      inum == icache[s].inum
      off == ftable[l.f].off
      src == SubSeq(l.call.src, 1, Min({Chunk, Len(l.call.src)}))
      w == writei(fs, inum, Ino(s), src, off, l.call.ok)
  IN  /\ At(p, "write") /\ Lockable(s)
      /\ Does(p, w.d, Hold(icache, s, w.ip, Free))
      /\ ftable' = IF w.ret > 0 THEN [ftable EXCEPT ![l.f].off = @ + w.ret] ELSE ftable
      /\ loc' = [loc EXCEPT ![p].pc = IF w.ret < 0 THEN "failed"
                                      ELSE IF w.ret # Len(src) THEN "short" ELSE "wrote",
                            ![p].call.ok = Max({0, @ - Len(src)}),
                            ![p].call.src = IF w.ret < 0 THEN <<>>
                                            ELSE SubSeq(@, Len(src) + 1, Len(@))]
      /\ written' = IF w.ret < 0 THEN written
                    ELSE [written EXCEPT ![inum] = Overwritten(@, src, off, l.call.ok)]
      /\ UNCHANGED <<pipes, ofile, cwd, op, todo, strays, raced, unmet>>

(* ... each with an operation of its own, which must write it whole.       *)
write_next(p) ==
  /\ At(p, "wrote") \/ (loc[p].pc \in {"failed", "short"} /\ At(p, loc[p].pc))
  /\ fs' = IF loc[p].pc = "short" THEN Panics(fs, "short filewrite") ELSE fs
  /\ wrote' = [wrote EXCEPT ![p] = {}]
  /\ IF loc[p].call.src = <<>>
     THEN /\ loc' = [loc EXCEPT ![p] = Idle] /\ op' = [op EXCEPT ![p] = @ - 1]
          /\ Returns(loc[p].call, IF loc[p].pc = "wrote" THEN loc[p].call.n ELSE -1)
     ELSE Go(p, "write", <<>>) /\ UNCHANGED <<op, unmet>>
  /\ UNCHANGED <<icache, ftable, pipes, ofile, cwd, todo, strays, raced, written>>

-----------------------------------------------------------------------------
(* sys_dup(): fdalloc(), then filedup(), which knows of a reference.       *)
filedup(files) == IF \E f \in files : ftable[f].ref < 1 THEN Panics(fs, "filedup") ELSE fs

sys_dup(p) ==
  LET f == Arg(p)
  IN  /\ Calls(p, "dup") /\ Taken(p)
      /\ IF f = 0 \/ FdAlloc(p) = {} THEN UNCHANGED <<fs, ofile, ftable>> /\ Returns(Call(p), -1)
         ELSE /\ fs' = filedup({f})
              /\ ofile' = [ofile EXCEPT ![p][Min(FdAlloc(p))] = f]
              /\ ftable' = [ftable EXCEPT ![f].ref = @ + 1]
              /\ Returns(Call(p), 0)
      /\ UNCHANGED <<icache, pipes, cwd, loc, op, wrote, strays, raced, written>>

(* The descriptor fd is cleared and its file closed, by sys_close() or by  *)
(* exit(); an inode is put inside an operation.                            *)
Closes(p, fd) ==
  LET r == fileclose(ftable, pipes, ofile[p][fd])
  IN  /\ ofile' = [ofile EXCEPT ![p][fd] = 0]
      /\ ftable' = r.t /\ pipes' = r.ps /\ fs' = Panics(fs, r.why)
      /\ IF r.puts = <<>> THEN UNCHANGED <<loc, op>>
         ELSE Go(p, "end", r.puts) /\ Begins(p)
      /\ UNCHANGED <<icache, cwd, wrote, strays, raced, written>>

sys_close(p) ==
  /\ Calls(p, "close") /\ Taken(p) /\ Returns(Call(p), IF Arg(p) = 0 THEN -1 ELSE 0)
  /\ IF Arg(p) # 0 THEN Closes(p, Call(p).fd)
     ELSE UNCHANGED <<fs, icache, ftable, pipes, ofile, cwd, loc, op, wrote, strays, raced, written>>

(* sys_pipe(): pipealloc() takes a file for reading, ...                   *)
sys_pipe(p) ==
  /\ Calls(p, "pipe") /\ Taken(p)
  /\ IF FileAlloc = {} THEN UNCHANGED <<ftable, loc>> /\ Returns(Call(p), -1)
     ELSE LET f == Min(FileAlloc)
          IN  /\ ftable' = [ftable EXCEPT ![f].ref = 1]
              /\ loc' = [loc EXCEPT ![p].pc = "pipe", ![p].f = f, ![p].call = Call(p)]
              /\ UNCHANGED unmet
  /\ UNCHANGED <<fs, icache, pipes, ofile, cwd, op, wrote, strays, raced, written>>

(* ... a file for writing and a page, then two descriptors, which are      *)
(* copied out; whatever fails, what was taken is given back.               *)
pipe_rest(p) ==
  LET f0 == loc[p].f
      f1 == Min(FileAlloc)
      pi == Min({i \in Files : pipes[i] = {}})
      t1 == [ftable EXCEPT ![f1].ref = 1]
      t2 == [t1 EXCEPT ![f0] = [@ EXCEPT !.type = "PIPE", !.readable = TRUE,
                                         !.writable = FALSE, !.pipe = pi],
                       ![f1] = [@ EXCEPT !.type = "PIPE", !.readable = FALSE,
                                         !.writable = TRUE, !.pipe = pi]]
      ps == [pipes EXCEPT ![pi] = {"r", "w"}]
      both(t, q) == LET r == fileclose(t, q, f0)
                    IN  [fileclose(r.t, r.ps, f1) EXCEPT !.why = IF r.why # "" THEN r.why ELSE @]
      closed(r) == ftable' = r.t /\ pipes' = r.ps /\ fs' = Panics(fs, r.why) /\ UNCHANGED ofile
      fd0 == Min(FdAlloc(p))
      fd1 == Min(FdAlloc(p) \ {fd0})
  IN  /\ At(p, "pipe")
      /\ loc' = [loc EXCEPT ![p] = Idle]
      /\ \/ FileAlloc = {} /\ closed(fileclose(ftable, pipes, f0))
         \/ FileAlloc # {} /\ closed(both(t1, pipes))     \* kalloc() fails
         \/ FileAlloc # {} /\ closed(both(t2, ps))        \* no descriptors, or copyout() fails
         \/ /\ FileAlloc # {} /\ Cardinality(FdAlloc(p)) >= 2
            /\ ftable' = t2 /\ pipes' = ps /\ UNCHANGED fs
            /\ ofile' = [ofile EXCEPT ![p] = [@ EXCEPT ![fd0] = f0, ![fd1] = f1]]
      /\ Returns(loc[p].call, IF ofile' = ofile THEN -1 ELSE 0)
      /\ UNCHANGED <<icache, cwd, op, wrote, todo, strays, raced, written>>

(* fork(): the child gets the descriptors, the directory and a program.    *)
Unborn == {q \in Procs : loc[q].pc = "unborn"}

Born(p, q) ==
  /\ todo' = [todo EXCEPT ![p] = Tail(@), ![q] = Call(p).child]
  /\ ofile' = [ofile EXCEPT ![q] = ofile[p]]
  /\ fs' = filedup({ofile[p][fd] : fd \in Fds} \ {0})
  /\ ftable' = [f \in Files |->
       [ftable[f] EXCEPT !.ref = @ + Cardinality({fd \in Fds : ofile[p][fd] = f})]]
  /\ cwd' = [cwd EXCEPT ![q] = cwd[p]]
  /\ icache' = idup(icache, cwd[p])
  /\ loc' = [loc EXCEPT ![q] = Idle]

fork(p) ==
  /\ Calls(p, "fork")
  /\ \/ Unborn # {} /\ Born(p, CHOOSE q \in Unborn : TRUE) /\ Returns(Call(p), 0)
     \/ /\ Unborn = {} /\ Taken(p) /\ Returns(Call(p), -1)
        /\ UNCHANGED <<fs, ofile, ftable, cwd, icache, loc>>
  /\ UNCHANGED <<pipes, op, wrote, strays, raced, written>>

(* wait() returns when a child has exited (module Proc); the programs have *)
(* one parent at most that waits.                                          *)
wait(p) ==
  /\ Calls(p, "wait") /\ Taken(p)
  /\ \E q \in Procs : loc[q].pc = "dead" /\ loc' = [loc EXCEPT ![q].pc = "unborn"]
  /\ UNCHANGED <<fs, icache, ftable, pipes, ofile, cwd, op, wrote, strays, raced, written, unmet>>

(* exit(): the descriptors are closed in order, then the directory is put. *)
exit(p) ==
  /\ At(p, "idle") /\ todo[p] = <<>>
  /\ LET open == {fd \in Fds : ofile[p][fd] # 0}
     IN  IF open # {} THEN Closes(p, Min(open))
         ELSE /\ Go(p, "exit", <<cwd[p]>>) /\ Begins(p)
              /\ UNCHANGED <<fs, icache, ftable, pipes, ofile, cwd, wrote, strays, raced, written>>
  /\ UNCHANGED <<todo, unmet>>

exited(p) ==
  /\ At(p, "exit")
  /\ op' = [op EXCEPT ![p] = @ - 1]
  /\ wrote' = [wrote EXCEPT ![p] = {}]
  /\ cwd' = [cwd EXCEPT ![p] = 0]
  /\ loc' = [loc EXCEPT ![p] = [Idle EXCEPT !.pc = "dead"]]
  /\ UNCHANGED <<fs, icache, ftable, pipes, ofile, todo, strays, raced, written, unmet>>

-----------------------------------------------------------------------------
create(p) == create_dp(p) \/ create_found(p) \/ create_new(p) \/ create_fin(p)
sys_open(p) == open_ip(p) \/ open_have(p)
sys_link(p) == link_ip(p) \/ link_dp(p) \/ link_there(p) \/ link_bad(p)
sys_unlink(p) == unlink_dp(p) \/ unlink_ip(p) \/ unlink_bad(p) \/ unlink_fin(p)
sys_chdir(p) == chdir_ip(p) \/ chdir_fin(p)
filewrite(p) == sys_write(p) \/ write_chunk(p) \/ write_next(p)

Step(p) ==
  \/ path_call(p) \/ namex(p) \/ iput(p) \/ end_op(p) \/ ilock_panic(p)
  \/ create(p) \/ sys_open(p) \/ sys_link(p) \/ sys_unlink(p) \/ sys_chdir(p)
  \/ sys_read(p) \/ sys_fstat(p) \/ filewrite(p) \/ sys_dup(p) \/ sys_close(p)
  \/ sys_pipe(p) \/ pipe_rest(p) \/ exit(p) \/ exited(p)
  \/ fork(p) \/ wait(p)

(* Every process has exited, or the kernel has stopped.                    *)
Halted ==
  /\ fs.panic # "" \/ \A p \in Procs : loc[p].pc \in {"unborn", "dead"}
  /\ UNCHANGED vars

Next == (\E p \in Procs : Step(p)) \/ Halted

Spec == Init /\ [][Next]_vars
-----------------------------------------------------------------------------
(* Properties.                                                             *)

Quiet == fs.panic = "" /\ \A p \in Procs : loc[p].pc \in {"idle", "unborn", "dead"}

(* The inodes, the two tables and the descriptors keep their types, with   *)
(* sizes and addresses within bounds (struct dinode, struct inode, struct  *)
(* file).                                                                  *)
TypeOK ==
  /\ fs.bitmap \subseteq Blocks /\ fs.log = {} /\ fs.panic \in STRING
  /\ \A i \in Inums : /\ fs.di[i].type \in {"NONE", "FILE", "DIR", "DEVICE"}
                      /\ fs.di[i].size \in 0 .. MAXFILE * BSIZE
                      /\ fs.di[i].nlink \in Nat
                      /\ fs.di[i].addrs \in [0 .. NDIRECT -> Blocks \cup {0}]
  /\ \A s \in Slots : /\ icache[s].inum \in Inums \cup {0} /\ icache[s].ref \in Nat
                      /\ icache[s].lock \in Procs \cup {Free}
  /\ \A f \in Files : ftable[f].ref \in Nat /\ ftable[f].ip \in Slots \cup {0}
  /\ ofile \in [Procs -> [Fds -> Files \cup {0}]]
  /\ cwd \in [Procs -> Slots \cup {0}]
  /\ op \in [Procs -> {0, 1}]

(* The addresses that inode i holds, and the places where it holds them.   *)
Holds(i) == LET ip == fs.di[i]
            IN  Direct(ip) \cup Indirect(fs, ip) \cup ({ip.addrs[NDIRECT]} \ {0})
Places(i) ==
  LET a == fs.di[i].addrs
  IN  {<<"inode", k>> : k \in {k \in DOMAIN a : a[k] # 0}} \cup
      {<<"listed", u>> : u \in {u \in 0 .. BSIZE - 1 : a[NDIRECT] # 0 /\
                                                       fs.blk[a[NDIRECT]][u][2] # 0}}

(* balloc(), bmap(), itrunc(): the bitmap marks exactly the blocks that    *)
(* the inodes hold, no block is held in two places, and there is one for   *)
(* every offset below the size.                                            *)
BlocksOwned ==
  /\ fs.bitmap = UNION {Holds(i) : i \in Inums}
  /\ Cardinality(fs.bitmap) = MapThenSumSet(LAMBDA i : Cardinality(Places(i)), Inums)
  /\ \A i \in Inums : \A o \in 0 .. fs.di[i].size - 1 : Address(fs, fs.di[i], o \div BSIZE) # 0

(* readi(), writei(), bmap(): a file holds what was written to it, and     *)
(* itrunc() leaves nothing of it.                                          *)
FileContents ==
  fs.panic = "" => \A i \in Inums : fs.di[i].type = "FILE" => Contents(fs, fs.di[i]) = written[i]

(* iupdate(): "i-node cache is write-through": an unlocked inode in the    *)
(* cache is what is on the disk.  iget(): one slot for an inode.           *)
WriteThrough ==
  \A s \in Slots : icache[s].ref > 0 =>
    /\ icache[s].valid /\ icache[s].lock = Free => icache[s].ino = fs.di[icache[s].inum]
    /\ \A t \in Slots : icache[t].ref > 0 /\ icache[t].inum = icache[s].inum => t = s

(* iget(), iput(), filedup(), fileclose(): between calls the counts are    *)
(* the numbers of pointers, and locks are free; so when every process has  *)
(* exited, every entry of both tables is free again.                       *)
RefsCounted ==
  Quiet =>
    /\ \A f \in Files : ftable[f].ref = Cardinality({<<p, fd>> \in Procs \X Fds : ofile[p][fd] = f})
    /\ \A s \in Slots :
         /\ icache[s].lock = Free
         /\ icache[s].ref = Cardinality({p \in Procs : cwd[p] = s}) + Cardinality({f \in Files :
              ftable[f].ref > 0 /\ ftable[f].type \in {"INODE", "DEVICE"} /\ ftable[f].ip = s})

(* pipeclose(), fileclose(): a pipe has an open end exactly while a file   *)
(* refers to that end.                                                     *)
PipesOpen ==
  \A i \in Files : pipes[i] =
    {IF ftable[f].writable THEN "w" ELSE "r" : f \in {f \in Files :
       ftable[f].ref > 0 /\ ftable[f].type = "PIPE" /\ ftable[f].pipe = i}}

(* The entries of the directories that can still be reached, other than    *)
(* the "." of a directory: <<directory, offset>> of those that name i.     *)
Reachable == {d \in Inums \ strays : fs.di[d].type = "DIR" /\ fs.di[d].nlink > 0}
LinksTo(i) ==
  {<<d, o>> \in Reachable \X (1 .. MAXFILE * BSIZE) :
     /\ o <= fs.di[d].size
     /\ LET de == Contents(fs, fs.di[d])[o] IN de[2] = i /\ ~(d = i /\ de[1] = ".")}

(* kernel/fs.h: nlink is the "Number of links to inode in file system".    *)
NlinkExact ==
  Quiet => \A i \in Inums : fs.di[i].type # "NONE" => fs.di[i].nlink = Cardinality(LinksTo(i))

Unused(i) == fs.di[i].type # "NONE" /\ fs.di[i].nlink = 0 /\
             ~\E s \in Slots : icache[s].ref > 0 /\ icache[s].inum = i

(* iput(): "If that was the last reference and the inode has no links to   *)
(* it, free the inode (and its content) on disk."                          *)
LastPutFrees == \A i \in Inums : ~Unused(i)

(* sys_link(), sys_unlink(), create(), iput(): both, except for inodes     *)
(* that were linked into a directory after it had been removed, and for    *)
(* those that were allocated between the two critical sections of an       *)
(* iput().                                                                 *)
LinkCounts ==
  /\ Quiet => \A i \in Inums \ strays :
                fs.di[i].type # "NONE" => fs.di[i].nlink = Cardinality(LinksTo(i))
  /\ \A i \in Inums \ raced : ~Unused(i)

(* create(), sys_link(), sys_unlink(): an entry of a directory that can    *)
(* still be reached names an inode in use, at every moment (the ".." of a  *)
(* directory that is being removed aside), and no two entries of a         *)
(* directory have the same name.                                           *)
EntriesLive ==
  /\ \A i \in Inums : fs.di[i].type = "NONE" =>
       \A l \in LinksTo(i) : Contents(fs, fs.di[l[1]])[l[2]][1] = ".."
  /\ \A i \in Inums : fs.di[i].type = "DIR" =>
       LET dir == Contents(fs, fs.di[i])
       IN  \A u, v \in 1 .. fs.di[i].size :
             dir[u][2] # 0 /\ dir[v][2] # 0 /\ dir[u][1] = dir[v][1] => u = v

(* The ".." of a removed directory whose parent has been removed and freed *)
(* too.                                                                    *)
GoneParent ==
  \E i \in Inums : /\ fs.di[i].type = "DIR" /\ fs.di[i].size >= 2
                   /\ fs.di[i].nlink = 0 \/ i \in strays
                   /\ fs.di[Contents(fs, fs.di[i])[2][2]].type # "DIR"

(* The panics of file.c, fs.c and sysfile.c, of log_write() outside of a   *)
(* transaction and of iput() that would sleep with icache.lock held: none  *)
(* is reached, other than for want of blocks, inodes or slots, and by way  *)
(* of a ".." as above.  (What ialloc() returns is never 0, so the test for *)
(* it in create() is left out.)                                            *)
NeverPanics ==
  \/ fs.panic \in {"", "balloc: out of blocks", "ialloc: no inodes", "iget: no inodes"}
  \/ fs.panic = "ilock: no type" /\ GoneParent

(* ilock(): panic("ilock: no type") is never reached.                      *)
InodeHasType == fs.panic # "ilock: no type"

(* iput(): "All calls to iput() must be inside a transaction", and so must *)
(* all other changes of the disk; filewrite(), param.h: an operation logs  *)
(* fewer than MAXOPBLOCKS blocks, which is what keeps log_write() from     *)
(* "too big a transaction" (NoPanic of module Log, where OpBlocks is what  *)
(* an operation logs: with MAXOPBLOCKS blocks each it does panic).         *)
OpFits ==
  \A p \in Procs : /\ wrote[p] # {} => op[p] = 1
                   /\ Cardinality(wrote[p]) < MAXOPBLOCKS

(* ilock(): the process that p waits for.                                  *)
Waits(p) == IF Target(p) = 0 \/ loc[p].puts # <<>> THEN {}
            ELSE {icache[Target(p)].lock} \ {Free}

(* ilock(), namex(), create(), sys_unlink() lock a directory before what   *)
(* is in it: no process waits for itself or for one that waits for it.  As *)
(* programs are finite and the run checks that no process is stuck, every  *)
(* call returns.                                                           *)
NoCircularWait ==
  \A p \in Procs : p \notin Waits(p) \cup UNION {Waits(q) : q \in Waits(p)}

(* user/usertests.c: a call never returns what its test would report as a  *)
(* failure, whatever the other process of the test does meanwhile.         *)
TestsPass == unmet = {}
-----------------------------------------------------------------------------
(* What the run checks of all this.                                        *)

(* writei(), readi(), bmap(), itrunc(), iupdate(): files hold what was     *)
(* written to them, in blocks of their own, and the inodes in memory are   *)
(* those on the disk, whatever processes do with the same file.            *)
FilesExact == TypeOK /\ WriteThrough /\ FileContents /\ BlocksOwned

(* iget(), iput(), filedup(), fileclose(), sys_pipe(): no reference is     *)
(* lost or counted twice, to an inode, a file or the end of a pipe.        *)
CountsExact == RefsCounted /\ PipesOpen

(* create(), sys_link(), sys_unlink(): the directories and the link counts *)
(* agree, and names lead to inodes in use.                                 *)
TreeExact == LinkCounts /\ EntriesLive

(* No call of file.c, fs.c or sysfile.c panics (but for want of space and  *)
(* by way of a removed directory's ".."), and what a call changes on the   *)
(* disk it changes in an operation that stays below its reservation.       *)
CallsSafe == NeverPanics /\ OpFits
=============================================================================
