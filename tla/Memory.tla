------------------------------- MODULE Memory -------------------------------
(***************************************************************************)
(* Physical pages, page tables and user memory: kernel/kalloc.c,           *)
(* kernel/vm.c, kernel/exec.c, sys_exec(), sys_sbrk() and what proc.c does *)
(* with memory.  Several processes grow, fork, exec and exit; a step       *)
(* allocates at most one page of user memory, with the page-table pages    *)
(* that it needs, so that others can run out of memory at any moment.      *)
(*                                                                         *)
(* m is [free, mem, panic]: how often each page is on the free list, what  *)
(* it holds, and the message of a panic.  A page table t is [root, mid,    *)
(* low, leaf]: the pages of its three levels and its last-level entries    *)
(* [pa, u].  The fan-out of a level is F instead of 512.                   *)
(***************************************************************************)
EXTENDS Integers, Sequences, FiniteSets, FiniteSetsExt, Folds

CONSTANTS Procs, Boot,      \* the process table; the process of userinit()
          F, PGSIZE,        \* entries of a page-table page; units in a page
          ALIGN, MAXARG,
          UINT, UINT64,     \* the number of values of a uint, and of a uint64
          PageCounts,       \* the amounts of physical memory to start with
          Images,           \* [segs, args]: programs with their arguments
          Sbrks,            \* the arguments of sbrk()
          NCALLS            \* bound: the calls that are made in all

VPages == 0 .. F * F * F - 1
TRAMPOLINE == F * F * F - 1
TRAPFRAME == F * F * F - 2
PGROUNDUP(a) == ((a + PGSIZE - 1) \div PGSIZE) * PGSIZE
Pg(a) == PGROUNDUP(a) \div PGSIZE      \* pages that a units take

VARIABLES m, proc, loc, view, calls
vars == <<m, proc, loc, view, calls>>

NoPte == [pa |-> 0, u |-> FALSE]
NoTable == [root |-> 0, mid |-> [i \in 0 .. F - 1 |-> 0], low |-> [i \in 0 .. F * F - 1 |-> 0],
            leaf |-> [v \in VPages |-> NoPte]]
Valid(pte) == pte.pa # 0
Trampoline == -1     \* the page of trampoline.S is part of the kernel

Fill(x) == [u \in 0 .. PGSIZE - 1 |-> x]
ZeroPage == Fill(0)

-----------------------------------------------------------------------------
(* kernel/kalloc.c                                                         *)
Panics(n, why) == [n EXCEPT !.panic = IF @ = "" THEN why ELSE @]

kfree(n, pa) ==
  IF pa \notin DOMAIN n.free THEN Panics(n, "kfree")
  ELSE [n EXCEPT !.free[pa] = @ + 1, !.mem[pa] = Fill(1)]

FreePages(n) == {pa \in DOMAIN n.free : n.free[pa] > 0}

kalloc(n) ==
  IF FreePages(n) = {} THEN [m |-> n, pa |-> 0]
  ELSE LET pa == Min(FreePages(n))
       IN  [m |-> [n EXCEPT !.free[pa] = @ - 1, !.mem[pa] = Fill(5)], pa |-> pa]

(* All pages of a set of table pages, each of them once.                   *)
kfreeAll(n, pas) == FoldSet(LAMBDA pa, k : kfree(k, pa), n, pas)

-----------------------------------------------------------------------------
(* walk() with alloc: the pages of the two upper levels on the way to v.   *)
MidPage(t, v, a) == [m |-> a.m, t |-> [t EXCEPT !.mid[v \div (F * F)] = a.pa], ok |-> a.pa # 0]
LowPage(t, v, a) == [m |-> a.m, t |-> [t EXCEPT !.low[v \div F] = a.pa], ok |-> a.pa # 0]

WalkLow(w, v) == IF ~w.ok \/ w.t.low[v \div F] # 0 THEN w ELSE LowPage(w.t, v, kalloc(w.m))
walk(n, t, v) ==
  WalkLow(IF t.mid[v \div (F * F)] # 0 THEN [m |-> n, t |-> t, ok |-> TRUE]
          ELSE MidPage(t, v, kalloc(n)), v)

(* mappages() of one page.                                                 *)
SetPte(w, v, pte) ==
  IF ~w.ok THEN w
  ELSE IF Valid(w.t.leaf[v]) THEN [w EXCEPT !.m = Panics(@, "remap")]
  ELSE [w EXCEPT !.t.leaf[v] = pte]
mappages(n, t, v, pte) == SetPte(walk(n, t, v), v, pte)

(* uvmunmap() of the pages vs, which must be mapped.                       *)
uvmunmap(n, t, vs, do_free) ==
  [m |-> IF \E v \in vs : ~Valid(t.leaf[v]) THEN Panics(n, "uvmunmap: not mapped")
         ELSE IF do_free THEN FoldSet(LAMBDA v, k : kfree(k, t.leaf[v].pa), n, vs) ELSE n,
   t |-> [t EXCEPT !.leaf = [v \in VPages |-> IF v \in vs THEN NoPte ELSE @[v]]]]

freewalk(n, t) ==
  kfreeAll(IF \E v \in VPages : Valid(t.leaf[v]) THEN Panics(n, "freewalk: leaf") ELSE n,
           ({t.root} \cup {t.mid[i] : i \in DOMAIN t.mid} \cup {t.low[i] : i \in DOMAIN t.low}) \ {0})

FreeWalked(r) == freewalk(r.m, r.t)
uvmfree(n, t, sz) == FreeWalked(uvmunmap(n, t, 0 .. Pg(sz) - 1, TRUE))

(* Variant: the trapframe stays mapped.                                    *)
FreeTrampoline(n, t) == uvmunmap(n, t, {TRAMPOLINE}, FALSE)

(* proc_freepagetable(): the two top pages are not freed with the table.   *)
UnmapTop(n, t) == uvmunmap(n, t, {TRAMPOLINE, TRAPFRAME}, FALSE)
FreeBelow(r, sz) == uvmfree(r.m, r.t, sz)
proc_freepagetable(n, t, sz) == FreeBelow(UnmapTop(n, t), sz)

(* proc_pagetable(): a root, the trampoline and the trapframe, or nothing. *)
Topped(w) == IF w.ok THEN w
             ELSE [w EXCEPT !.m = FreeWalked(uvmunmap(w.m, w.t, {TRAMPOLINE}, FALSE)), !.t = NoTable]
WithTrampoline(w, tf) ==
  IF w.ok THEN Topped(mappages(w.m, w.t, TRAPFRAME, [pa |-> tf, u |-> FALSE]))
  ELSE [w EXCEPT !.m = freewalk(w.m, w.t), !.t = NoTable]
Rooted(a, tf) ==
  IF a.pa = 0 THEN [m |-> a.m, t |-> NoTable, ok |-> FALSE]
  ELSE WithTrampoline(mappages(a.m, [NoTable EXCEPT !.root = a.pa], TRAMPOLINE,
                               [pa |-> Trampoline, u |-> FALSE]), tf)
proc_pagetable(n, tf) == Rooted(kalloc(n), tf)

(* The body of uvmalloc() and of uvmcopy() for page v: a new page with     *)
(* contents c, mapped like pte; the page is given back if that fails.      *)
(* Variant: it is not.                                                     *)
MappedLost(w, pa) == w

Mapped(w, pa) == IF w.ok THEN w ELSE [w EXCEPT !.m = kfree(@, pa)]
Filled(a, t, v, c, u) ==
  IF a.pa = 0 THEN [m |-> a.m, t |-> t, ok |-> FALSE]
  ELSE Mapped(mappages([a.m EXCEPT !.mem[a.pa] = c], t, v, [pa |-> a.pa, u |-> u]), a.pa)
AddPage(n, t, v, c, u) == Filled(kalloc(n), t, v, c, u)

(* Variant: one page too few is unmapped.                                  *)
uvmdealloc_short(n, t, oldsz, newsz) ==
  IF newsz >= oldsz THEN [m |-> n, t |-> t]
  ELSE uvmunmap(n, t, Pg(newsz) .. oldsz \div PGSIZE - 1, TRUE)

uvmdealloc(n, t, oldsz, newsz) ==
  IF newsz >= oldsz THEN [m |-> n, t |-> t] ELSE uvmunmap(n, t, Pg(newsz) .. Pg(oldsz) - 1, TRUE)

-----------------------------------------------------------------------------
(* walkaddr(): whether the user may reach address a.                       *)
walkaddr(t, a) == a \div PGSIZE \in VPages /\ t.leaf[a \div PGSIZE].u

(* Units that a round of the loops of the copies takes, from a to the end  *)
(* of its page, and where the next round starts.                           *)
InPage(a, n) == Min({PGSIZE - (a % PGSIZE), n})
NextPage(a) == (a \div PGSIZE + 1) * PGSIZE
Page(n, t, a) == n.mem[t.leaf[a \div PGSIZE].pa]

Overlay(c, at, src, k) == [u \in DOMAIN c |-> IF u - at \in 0 .. k - 1 THEN src[u - at + 1] ELSE c[u]]

RECURSIVE copyout(_, _, _, _)
copyout(n, t, a, src) ==
  LET k == InPage(a, Len(src))
  IN  IF src = <<>> THEN [m |-> n, ok |-> TRUE]
      ELSE IF ~walkaddr(t, a) THEN [m |-> n, ok |-> FALSE]
      ELSE copyout([n EXCEPT !.mem[t.leaf[a \div PGSIZE].pa] = Overlay(@, a % PGSIZE, src, k)],
                   t, NextPage(a), SubSeq(src, k + 1, Len(src)))

RECURSIVE copyin(_, _, _, _)
copyin(n, t, a, len) ==
  LET k == InPage(a, len)
      rest == copyin(n, t, NextPage(a), len - k)
  IN  IF len = 0 THEN [dst |-> <<>>, ok |-> TRUE]
      ELSE IF ~walkaddr(t, a) THEN [dst |-> <<>>, ok |-> FALSE]
      ELSE [dst |-> [u \in 1 .. k |-> Page(n, t, a)[(a % PGSIZE) + u - 1]] \o rest.dst,
            ok |-> rest.ok]

(* Variant: the end of a page ends the string.                             *)
NulsOrEnd(c, at, k) == {u \in at .. at + k - 1 : c[u] = 0 \/ u = PGSIZE - 1}

Nuls(c, at, k) == {u \in at .. at + k - 1 : c[u] = 0}

(* The string without its NUL.                                             *)
RECURSIVE copyinstr(_, _, _, _)
copyinstr(n, t, a, max) ==
  LET at == a % PGSIZE
      k == InPage(a, max)
      nul == Nuls(Page(n, t, a), at, k)
      got == [u \in 1 .. (IF nul = {} THEN k ELSE Min(nul) - at) |-> Page(n, t, a)[at + u - 1]]
      rest == copyinstr(n, t, NextPage(a), max - k)
  IN  IF max = 0 \/ ~walkaddr(t, a) THEN [dst |-> <<>>, ok |-> FALSE]
      ELSE IF nul # {} THEN [dst |-> got, ok |-> TRUE]
      ELSE [dst |-> got \o rest.dst, ok |-> rest.ok]

-----------------------------------------------------------------------------
(* exec(): the program and the stack.  A text unit, a character and a      *)
(* pointer are numbers, apart from each other.                             *)
Text(a) == 100 + a
Char == 50
Pointer(a) == 200 + a

(* loadseg(): the file part of a segment, page by page, up to a short      *)
(* read.                                                                   *)
SegText(seg) == [i \in 1 .. seg.filesz |-> Text(seg.vaddr + i - 1)]
loadseg(n, t, seg) ==
  IF \E i \in 0 .. seg.filesz - 1 : ~walkaddr(t, seg.vaddr + i)
  THEN [m |-> Panics(n, "loadseg: address should exist"), ok |-> FALSE]
  ELSE [m |-> copyout(n, t, seg.vaddr, SegText(seg)).m, ok |-> seg.ok]

(* One copy onto the stack, at the next aligned address below sp.          *)
Down(sp, n) == (sp - n) - ((sp - n) % ALIGN)
Onto(r, sp) == [m |-> r.m, sp |-> sp, ok |-> r.ok]
push(s, t, base, data) ==
  LET sp == Down(s.sp, Len(data))
  IN  IF ~s.ok \/ sp < base THEN [s EXCEPT !.ok = FALSE] ELSE Onto(copyout(s.m, t, sp, data), sp)

(* The argument strings, then the array of pointers to them.               *)
Str(len) == [i \in 1 .. len + 1 |-> IF i > len THEN 0 ELSE Char]
ArgAt(top, args) == LET at[i \in 0 .. Len(args)] == IF i = 0 THEN top ELSE Down(at[i - 1], args[i] + 1) IN at
Ustack(top, args) == [i \in 1 .. Len(args) + 1 |-> IF i > Len(args) THEN 0 ELSE Pointer(ArgAt(top, args)[i])]
RECURSIVE pushArgs(_, _, _, _, _)
pushArgs(s, t, top, args, i) ==
  IF i > Len(args) THEN push(s, t, top - PGSIZE, Ustack(top, args))
  ELSE pushArgs(push(s, t, top - PGSIZE, Str(args[i])), t, top, args, i + 1)

(* Variant: the guard page stays within reach of the user.                 *)
uvmclear_not(t, v) == t

uvmclear(t, v) == [t EXCEPT !.leaf[v].u = FALSE]

(* What the memory of a new program is to hold, of size top; the user      *)
(* cannot reach the guard page.                                            *)
Guard == -1
StackImage(top, args) ==
  LET at == ArgAt(top, args)
      ptrs == Down(at[Len(args)], Len(args) + 1)
  IN  [a \in top - PGSIZE .. top - 1 |->
         IF a >= ptrs /\ a <= ptrs + Len(args) THEN Ustack(top, args)[a - ptrs + 1]
         ELSE IF \E i \in 1 .. Len(args) : a \in at[i] .. at[i] + args[i] - 1 THEN Char ELSE 0]
ProgramImage(top, img) ==
  [a \in 0 .. top - 1 |->
     IF a >= top - PGSIZE THEN StackImage(top, img.args)[a]
     ELSE IF a >= top - 2 * PGSIZE THEN Guard
     ELSE IF \E i \in DOMAIN img.segs :
               img.segs[i].ph = "load" /\ a - img.segs[i].vaddr \in 0 .. img.segs[i].filesz - 1
     THEN Text(a) ELSE 0]

-----------------------------------------------------------------------------
(* The processes.  proc[p]: [state, t, sz, tf]; loc[p]: the call it is in. *)
(* view[p] is what p has reason to find in its memory, a history variable. *)
NoProc == [state |-> "UNUSED", t |-> NoTable, sz |-> 0, tf |-> 0]
User == [pc |-> "user", k |-> "", from |-> 0, a |-> 0, to |-> 0, child |-> Boot, t |-> NoTable,
         sz |-> 0, img |-> [file |-> "", segs |-> <<>>, args |-> <<>>], i |-> 1, argv |-> <<>>,
         op |-> FALSE]

freeproc(n, pr) ==
  LET n1 == IF pr.tf = 0 THEN n ELSE kfree(n, pr.tf)
  IN  IF pr.t.root = 0 THEN n1 ELSE proc_freepagetable(n1, pr.t, pr.sz)

(* allocproc() of memory: a trapframe and a page table, or nothing.        *)
WithTable(w, tf) ==
  [m |-> IF w.ok THEN w.m ELSE freeproc(w.m, [NoProc EXCEPT !.tf = tf]),
   pr |-> IF w.ok THEN [NoProc EXCEPT !.state = "EMBRYO", !.t = w.t, !.tf = tf] ELSE NoProc]
WithTrapframe(a) == IF a.pa = 0 THEN [m |-> a.m, pr |-> NoProc]
                    ELSE WithTable(proc_pagetable(a.m, a.pa), a.pa)
allocproc(n) == WithTrapframe(kalloc(n))

(* userinit(): one page, as large as the program in it.                    *)
Booted(r) == [m |-> r.m, pr |-> [r.pr EXCEPT !.state = "ALIVE", !.sz = PGSIZE]]
userinit(r) == LET w == AddPage(r.m, r.pr.t, 0, ZeroPage, TRUE)
               IN  Booted([m |-> w.m, pr |-> [r.pr EXCEPT !.t = w.t]])

Memory(n) == [free |-> [pa \in 1 .. n |-> 1], mem |-> [pa \in 1 .. n |-> Fill(1)], panic |-> ""]

Init ==
  /\ \E n \in PageCounts : \E r \in {userinit(allocproc(Memory(n)))} :
       /\ m = r.m
       /\ proc = [p \in Procs |-> IF p = Boot THEN r.pr ELSE NoProc]
  /\ loc = [p \in Procs |-> User]
  /\ view = [p \in Procs |-> IF p = Boot THEN ZeroPage ELSE <<>>]
  /\ calls = 0

AtPc(p, pc) == proc[p].state = "ALIVE" /\ loc[p].pc = pc /\ m.panic = ""
Call(p) == AtPc(p, "user") /\ calls < NCALLS /\ calls' = calls + 1
Go(p, pc) == loc' = [loc EXCEPT ![p].pc = pc]

Resized(v, sz) == [a \in 0 .. PGROUNDUP(sz) - 1 |-> IF a \in DOMAIN v THEN v[a] ELSE 0]

(* Variant: the size is lowered below 0.                                   *)
WrappedSize(sz, newsz) == newsz

(* uvmdealloc() returns the old size when the new one is not less.         *)
ShrunkSize(sz, newsz) == Min({sz, newsz})

(* Bound: there is less memory than address space, by far (128 megabytes   *)
(* and 256 gigabytes), so no process grows into its trapframe.             *)
MAXSZ == TRAPFRAME * PGSIZE

(* sys_sbrk(), growproc(): the size is a uint.                             *)
sys_sbrk(p) ==
  /\ Call(p)
  /\ \E n \in Sbrks :
       LET sz == proc[p].sz
           newsz == (sz + n) % UINT
           r == uvmdealloc(m, proc[p].t, sz, newsz)
       IN  \/ /\ n > 0 /\ newsz <= MAXSZ
              /\ loc' = [loc EXCEPT ![p] = [@ EXCEPT !.pc = "alloc", !.k = "grown", !.from = Pg(sz),
                                                     !.a = Pg(sz), !.to = newsz]]
              /\ UNCHANGED <<m, proc, view>>
           \/ /\ n < 0
              /\ m' = r.m
              /\ proc' = [proc EXCEPT ![p].t = r.t, ![p].sz = ShrunkSize(sz, newsz)]
              /\ view' = [view EXCEPT ![p] = Resized(@, ShrunkSize(sz, newsz))]
              /\ UNCHANGED loc

(* uvmalloc(), of the process's own table or of the one exec() builds: the *)
(* next page, ...                                                          *)
Own(p) == loc[p].k = "grown"
Table(p) == IF Own(p) THEN proc[p].t ELSE loc[p].t
SetTable(p, t, l) ==
  /\ loc' = [loc EXCEPT ![p] = IF Own(p) THEN l ELSE [l EXCEPT !.t = t]]
  /\ proc' = IF Own(p) THEN [proc EXCEPT ![p].t = t] ELSE proc

(* ... or, when there is none, none of the pages added before.             *)
uvmalloc(p) ==
  LET l == loc[p]
      r == AddPage(m, Table(p), l.a, ZeroPage, TRUE)
      undo == uvmdealloc(r.m, r.t, l.a * PGSIZE, l.from * PGSIZE)
  IN  /\ AtPc(p, "alloc")
      /\ \/ /\ l.a * PGSIZE >= l.to
            /\ Go(p, l.k)
            /\ UNCHANGED <<m, proc>>
         \/ /\ l.a * PGSIZE < l.to /\ r.ok
            /\ m' = r.m
            /\ SetTable(p, r.t, [l EXCEPT !.a = @ + 1])
         \/ /\ l.a * PGSIZE < l.to /\ ~r.ok
            /\ m' = undo.m
            /\ SetTable(p, undo.t, [l EXCEPT !.pc = IF Own(p) THEN "user" ELSE "bad"])
      /\ UNCHANGED <<view, calls>>

grown(p) ==
  /\ AtPc(p, "grown")
  /\ proc' = [proc EXCEPT ![p].sz = loc[p].to]
  /\ view' = [view EXCEPT ![p] = Resized(@, loc[p].to)]
  /\ loc' = [loc EXCEPT ![p] = User]
  /\ UNCHANGED <<m, calls>>

(* fork(): allocproc(), ...                                                *)
fork(p) ==
  /\ Call(p)
  /\ \E q \in Procs :
       /\ proc[q].state = "UNUSED"
       /\ \E r \in {allocproc(m)} :
            /\ m' = r.m
            /\ proc' = [proc EXCEPT ![q] = r.pr]
            /\ loc' = IF r.pr = NoProc THEN loc
                      ELSE [loc EXCEPT ![p].pc = "fork", ![p].child = q, ![p].a = 0]
  /\ UNCHANGED view

(* ... uvmcopy() of one page, or of none, and the child can run.           *)
uvmcopy(p) ==
  LET q == loc[p].child
      a == loc[p].a
      pte == proc[p].t.leaf[a]
      r == IF ~Valid(pte)
           THEN [m |-> Panics(m, "uvmcopy: page not present"), t |-> proc[q].t, ok |-> TRUE]
           ELSE AddPage(m, proc[q].t, a, m.mem[pte.pa], pte.u)
      undo == uvmunmap(r.m, r.t, 0 .. a - 1, TRUE)
  IN  /\ AtPc(p, "fork")
      /\ \/ /\ a * PGSIZE < proc[p].sz /\ r.ok
            /\ m' = r.m
            /\ proc' = [proc EXCEPT ![q].t = r.t]
            /\ loc' = [loc EXCEPT ![p].a = @ + 1]
            /\ UNCHANGED view
         \/ /\ a * PGSIZE < proc[p].sz /\ ~r.ok
            /\ m' = freeproc(undo.m, [proc[q] EXCEPT !.t = undo.t])
            /\ proc' = [proc EXCEPT ![q] = NoProc]
            /\ loc' = [loc EXCEPT ![p] = User]
            /\ UNCHANGED view
         \/ /\ a * PGSIZE >= proc[p].sz
            /\ proc' = [proc EXCEPT ![q].state = "ALIVE", ![q].sz = proc[p].sz]
            /\ loc' = [loc EXCEPT ![p] = User]
            /\ view' = [view EXCEPT ![q] = view[p]]
            /\ UNCHANGED m
      /\ UNCHANGED calls

(* exit(), and freeproc() when the parent has waited.                      *)
exit(p) ==
  /\ AtPc(p, "user") /\ p # Boot
  /\ proc' = [proc EXCEPT ![p].state = "ZOMBIE"]
  /\ view' = [view EXCEPT ![p] = <<>>]
  /\ UNCHANGED <<m, loc, calls>>

reaped(p) ==
  /\ proc[p].state = "ZOMBIE" /\ m.panic = ""
  /\ m' = freeproc(m, proc[p])
  /\ proc' = [proc EXCEPT ![p] = NoProc]
  /\ UNCHANGED <<loc, view, calls>>

-----------------------------------------------------------------------------
(* sys_exec(): a page for each argument, up to one less than MAXARG; an    *)
(* argument of length -1 cannot be fetched.                                *)
sys_exec(p) ==
  /\ Call(p)
  /\ \E img \in Images : loc' = [loc EXCEPT ![p].pc = "argv", ![p].img = img]
  /\ UNCHANGED <<m, proc, view>>

exec_argv(p) ==
  LET args == loc[p].img.args
      i == Len(loc[p].argv) + 1
      r == kalloc(m)
      fetched == r.pa # 0 /\ args[i] >= 0
  IN  /\ AtPc(p, "argv")
      /\ \/ /\ i > MAXARG
            /\ Go(p, "ret") /\ UNCHANGED m
         \/ /\ i <= MAXARG /\ i > Len(args)
            /\ Go(p, "open") /\ UNCHANGED m
         \/ /\ i <= MAXARG /\ i <= Len(args)
            /\ m' = r.m
            /\ loc' = [loc EXCEPT ![p].argv = IF r.pa = 0 THEN @ ELSE Append(@, r.pa),
                                  ![p].pc = IF fetched THEN @ ELSE "ret"]
      /\ UNCHANGED <<proc, view, calls>>

(* exec(): the file is found, locked and has a header, and there is a      *)
(* table for it; ...                                                       *)
exec_open(p) ==
  LET file == loc[p].img.file
  IN  /\ AtPc(p, "open")
      /\ \/ /\ file = "none"
            /\ Go(p, "ret") /\ UNCHANGED m
         \/ /\ file = "bad"
            /\ loc' = [loc EXCEPT ![p].pc = "bad", ![p].op = TRUE]
            /\ UNCHANGED m
         \/ /\ file = "elf"
            /\ \E r \in {proc_pagetable(m, proc[p].tf)} :
                 /\ m' = r.m
                 /\ loc' = [loc EXCEPT ![p].pc = IF r.ok THEN "seg" ELSE "bad",
                                       ![p].op = TRUE, ![p].t = r.t]
      /\ UNCHANGED <<proc, view, calls>>

(* ... for each program header that is read in full and is of a segment to *)
(* load, and whose sizes are sound, memory is allocated, ...               *)
Allocs(l, from, to, k) ==
  [l EXCEPT !.pc = "alloc", !.k = k, !.from = Pg(from), !.a = Pg(from), !.to = to]

(* Variant: a segment may end past the last address.                       *)
UnsoundShort(seg) == seg.memsz < seg.filesz

Unsound(seg) == seg.memsz < seg.filesz \/ (seg.vaddr + seg.memsz) % UINT64 < seg.vaddr

exec_seg(p) ==
  LET l == loc[p]
      seg == l.img.segs[l.i]
      sz == PGROUNDUP(l.sz)
  IN  /\ AtPc(p, "seg")
      /\ \/ /\ l.i <= Len(l.img.segs)
            /\ seg.ph = "short" \/ (seg.ph = "load" /\ Unsound(seg))
            /\ Go(p, "bad")
         \/ /\ l.i <= Len(l.img.segs) /\ seg.ph = "other"
            /\ loc' = [loc EXCEPT ![p].i = @ + 1]
         \/ /\ l.i <= Len(l.img.segs) /\ seg.ph = "load" /\ ~Unsound(seg)
            /\ loc' = [loc EXCEPT ![p] = Allocs(l, l.sz, Max({l.sz, (seg.vaddr + seg.memsz) % UINT64}), "load")]
         \/ /\ l.i > Len(l.img.segs)
            /\ loc' = [loc EXCEPT ![p] = [Allocs(l, sz, sz + 2 * PGSIZE, "commit") EXCEPT
                                            !.sz = sz, !.op = FALSE]]
      /\ UNCHANGED <<m, proc, view, calls>>

(* ... and read; a size of 0 is an error of uvmalloc().                    *)
exec_load(p) ==
  LET l == loc[p]
      seg == l.img.segs[l.i]
      r == loadseg(m, l.t, seg)
      bad == l.to = 0 \/ seg.vaddr % PGSIZE # 0
  IN  /\ AtPc(p, "load")
      /\ \/ /\ bad
            /\ loc' = [loc EXCEPT ![p].pc = "bad", ![p].sz = l.to]
            /\ UNCHANGED m
         \/ /\ ~bad
            /\ m' = r.m
            /\ loc' = [loc EXCEPT ![p].pc = IF r.ok THEN "seg" ELSE "bad", ![p].sz = l.to,
                                  ![p].i = @ + 1]
      /\ UNCHANGED <<proc, view, calls>>

(* The guard page, the arguments and the commit, ...                       *)
Replaced(p, n) == proc_freepagetable(n, proc[p].t, proc[p].sz)

exec_commit(p) ==
  LET l == loc[p]
      t == uvmclear(l.t, Pg(l.to) - 2)
  IN  /\ AtPc(p, "commit")
      /\ \E s \in {pushArgs([m |-> m, sp |-> l.to, ok |-> TRUE], t, l.to, l.img.args, 1)} :
           \/ /\ ~s.ok
              /\ m' = s.m
              /\ loc' = [loc EXCEPT ![p].pc = "bad", ![p].t = t, ![p].sz = l.to]
              /\ UNCHANGED <<proc, view>>
           \/ /\ s.ok
              /\ m' = Replaced(p, s.m)
              /\ proc' = [proc EXCEPT ![p].t = t, ![p].sz = l.to]
              /\ view' = [view EXCEPT ![p] = ProgramImage(l.to, l.img)]
              /\ loc' = [loc EXCEPT ![p].pc = "ret", ![p].t = NoTable]
      /\ UNCHANGED calls

(* ... or the new table goes, and the inode's lock and the operation with  *)
(* it.                                                                     *)
(* Variant: the operation stays open.                                      *)
UndoneOpen(l) == [l EXCEPT !.pc = "ret", !.t = NoTable]

Undone(l) == [l EXCEPT !.pc = "ret", !.t = NoTable, !.op = FALSE]

exec_bad(p) ==
  LET l == loc[p]
  IN  /\ AtPc(p, "bad")
      /\ m' = IF l.t.root = 0 THEN m ELSE proc_freepagetable(m, l.t, l.sz)
      /\ loc' = [loc EXCEPT ![p] = Undone(l)]
      /\ UNCHANGED <<proc, view, calls>>

(* sys_exec() gives the argument pages back.                               *)
exec_ret(p) ==
  /\ AtPc(p, "ret")
  /\ m' = kfreeAll(m, {loc[p].argv[i] : i \in DOMAIN loc[p].argv})
  /\ loc' = [loc EXCEPT ![p] = [User EXCEPT !.t = loc[p].t, !.op = loc[p].op]]
  /\ UNCHANGED <<proc, view, calls>>

exec(p) == exec_open(p) \/ exec_seg(p) \/ exec_load(p) \/ exec_commit(p) \/ exec_bad(p)

(* The process writes to its memory, or a system call does by copyout().   *)
Datum == 99
store(p) ==
  /\ Call(p)
  /\ \E a \in DOMAIN view[p] : \E r \in {copyout(m, proc[p].t, a, <<Datum, Datum>>)} :
       /\ a \in {0, PGSIZE - 1}
       /\ m' = r.m
       /\ view' = [view EXCEPT ![p] = [b \in DOMAIN @ |->
            IF b \in {a, a + 1} /\ \A c \in a .. b : walkaddr(proc[p].t, c) THEN Datum ELSE @[b]]]
  /\ UNCHANGED <<proc, loc>>

Next == \E p \in Procs :
  \/ sys_sbrk(p) \/ uvmalloc(p) \/ grown(p) \/ fork(p) \/ uvmcopy(p) \/ exit(p) \/ reaped(p)
  \/ sys_exec(p) \/ exec_argv(p) \/ exec(p) \/ exec_ret(p) \/ store(p)

Spec == Init /\ [][Next]_vars
-----------------------------------------------------------------------------
(* Properties.                                                             *)

(* struct proc, kalloc(): a slot in use has a table, its size stays below  *)
(* the trapframe, and no page is on the free list less than no times.      *)
TypeOK ==
  /\ \A p \in Procs : /\ proc[p].state \in {"UNUSED", "EMBRYO", "ALIVE", "ZOMBIE"}
                      /\ proc[p].sz \in 0 .. TRAPFRAME * PGSIZE
                      /\ proc[p].tf \in DOMAIN m.free \cup {0}
                      /\ (proc[p].state = "UNUSED") = (proc[p].t.root = 0)
  /\ \A pa \in DOMAIN m.free : m.free[pa] \in Nat

(* The places where a table, and where a process, refers to a page.        *)
TableUses(x, t) ==
  {<<x, "root", 0, t.root>>} \cup {<<x, "mid", i, t.mid[i]>> : i \in DOMAIN t.mid} \cup
  {<<x, "low", i, t.low[i]>> : i \in DOMAIN t.low} \cup
  {<<x, "leaf", v, t.leaf[v].pa>> : v \in 0 .. TRAPFRAME - 1}
Uses == {u \in UNION {TableUses(<<p, "own">>, proc[p].t) \cup TableUses(<<p, "new">>, loc[p].t) \cup
                      {<<<<p, "own">>, "tf", 0, proc[p].tf>>} \cup
                      {<<<<p, "new">>, "arg", i, loc[p].argv[i]>> : i \in DOMAIN loc[p].argv}
                      : p \in Procs} : u[4] # 0}

(* kalloc(), kfree() and all of their callers, on every path: each page is *)
(* free or has exactly one use; none is lost, shared or freed twice.       *)
PagesOwned ==
  LET used == {u[4] : u \in Uses}
  IN  m.panic = "" => /\ Cardinality(Uses) = Cardinality(used)
                      /\ \A pa \in DOMAIN m.free : m.free[pa] = IF pa \in used THEN 0 ELSE 1

(* uvmcopy(), loadseg(), uvmalloc(), uvmclear(): a process finds in its    *)
(* memory what its program, its parent and itself have put there, zeroes   *)
(* where nobody has, and cannot reach its guard page; whatever others do.  *)
ImageIntact ==
  \A p \in Procs : proc[p].state = "ALIVE" => \A a \in DOMAIN view[p] :
    /\ Valid(proc[p].t.leaf[a \div PGSIZE])
    /\ IF view[p][a] = Guard THEN ~walkaddr(proc[p].t, a)
       ELSE walkaddr(proc[p].t, a) /\ Page(m, proc[p].t, a)[a % PGSIZE] = view[p][a]

(* growproc(), fork(), exec(): outside of sbrk() exactly the pages below   *)
(* p->sz are mapped, with the trapframe and the trampoline on top.         *)
SizeMapped ==
  \A p \in Procs : proc[p].state = "ALIVE" /\ ~(loc[p].pc \in {"alloc", "grown"} /\ Own(p)) =>
    /\ {v \in VPages : Valid(proc[p].t.leaf[v])} =
         (0 .. Pg(proc[p].sz) - 1) \cup {TRAPFRAME, TRAMPOLINE}
    /\ proc[p].t.leaf[TRAPFRAME] = [pa |-> proc[p].tf, u |-> FALSE]
    /\ proc[p].t.leaf[TRAMPOLINE] = [pa |-> Trampoline, u |-> FALSE]

(* The panics of vm.c and kalloc.c ("remap", "uvmunmap: not mapped",       *)
(* "freewalk: leaf", ...) are not reached.                                 *)
NeverPanics == m.panic = ""

(* exec(), sys_exec(): a process is back in user mode only after the       *)
(* operation that exec() began has ended and the table that it built is in *)
(* use or gone.                                                            *)
ExecUndone == \A p \in Procs : loc[p].pc = "user" => ~loc[p].op /\ loc[p].t = NoTable

(* The bytes from a on can be reached.                                     *)
Reach(v, a, n) == \A b \in a .. a + n - 1 : b \in DOMAIN v /\ v[b] # Guard

(* copyin() and copyinstr(), across pages: the bytes of the range, and an  *)
(* error when one cannot be reached; the string up to the first NUL, and   *)
(* an error when there is none in max bytes that can be reached.           *)
CopiesExact ==
  \A p \in Procs : AtPc(p, "user") => \A a \in 0 .. 2 * PGSIZE : \A n \in {1, PGSIZE, PGSIZE + 2} :
    LET v == view[p]
        all == copyin(m, proc[p].t, a, n)
        str == copyinstr(m, proc[p].t, a, n)
        ends == {k \in 0 .. n - 1 : Reach(v, a, k + 1) /\ v[a + k] = 0}
    IN  /\ all.ok = Reach(v, a, n)
        /\ all.ok => all.dst = [i \in 1 .. n |-> v[a + i - 1]]
        /\ str.ok = (ends # {})
        /\ str.ok => str.dst = [i \in 1 .. Min(ends) |-> v[a + i - 1]]

(* kalloc(), kfree(), walk(), mappages(), uvmunmap(), freewalk(): the      *)
(* memory of the machine is accounted for and no panic is reached, on      *)
(* every path, also where a call runs out of memory half-way.              *)
MemoryExact == TypeOK /\ NeverPanics /\ PagesOwned

(* fork(), exec(), sbrk(), copyin(), copyout(): a process has the image    *)
(* that its calls have made, and a call that fails leaves the image it     *)
(* found.                                                                  *)
ImageExact == ImageIntact /\ SizeMapped /\ ExecUndone /\ CopiesExact
=============================================================================
